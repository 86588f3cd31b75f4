# Pipette clients: a TLA+ verification project

Pipette benchmarks language models on devices. This directory holds TLA+ models
of the parts of the clients whose correctness depends on what happens *between*
things: threads of one process, processes over one file system, a device that
loses power, a server that does not answer. Each module is translated from the
Rust source; `PROJECT.json` maps every definition to its lines.

## The system

| Part | State it keeps | Operations | Meets others through |
|---|---|---|---|
| worker loop (`commands/worker.rs`, `client/worker/protocol.rs`, `timing.rs`) | stop flag, claimed job, `lease_lost`, attempts made | profile gate, claim, decide, run, submit, report, leave | HTTP to the management server; the marker; the teardown registry |
| in-flight marker (`client/worker/in_flight.rs`) | `in-flight.json`: job, boot id, last sign of life | start, refresh every 30 s, remove, tear down, `decide` on the next claim | the file survives the process and the boot |
| signal and closed-output teardown (`pipette-subprocess/cleanup.rs`) | registry of teardowns, stop flags, DRAINING | register, deregister, first signal, forced exit, output closed | runs on a thread of its own while the main thread goes on |
| child sessions (`pipette-subprocess/spawned.rs`, `orphans.rs`) | running sessions, a note per session | start, wait ready, stop, reap orphans | the registry; notes survive the process |
| artifact store (`pipette-artifacts/entry.rs`, `ensure.rs`, `model/store.rs`, `runtime/store.rs`) | entries, staged directories, lock files | find, ensure, repair, fetch, publish, hold, delete | the file system and its locks, shared by processes |
| quota sweep (`pipette-artifacts/quota.rs`, `commands/storage.rs`) | pins, plan | survey, plan, remove, plan again | the same files and locks |
| pending-result sync (`results/record.rs`, `results/store.rs`, `client/sync.rs`, `commands/sync.rs`) | pending and synced directories, lock files, `job_id` markers, scores | save, submit (lock, recheck, POST, mark, move, unlink), refresh scores | files and their locks, HTTP |
| benchmark catalog (`client/sync.rs`, `benchmarks/store.rs`, `commands/worker.rs`) | details with their tags, `index.json`, `sync.json` | pull, prune, claim-time refresh | files written in place, conditional HTTP |
| plan runner (`pipette-ctl/runner`, `state.rs`) | `state.jsonl`, queues, host slots | select, route, sync pass, pop, probe, execute, give back, rejoin | worker threads, ssh/adb, other shards through the file |
| ios-proxy (`tools/pipette-ios-proxy`) | `builds.json`, `installed.json`, claims; results on the phones | read pool, claim, install, run, collect, settle, report, stop | a thread per phone, HTTP, USB, the app |
| readiness, memory probe, HTTP client, engine runners, contract types, apps, tools | sensors, counters, formats | - | inputs and outputs of the above |

What is hard, and untestable one thread at a time:

- the worker is four threads (main, lease heartbeat, marker refresh, teardown),
  any of which may be anywhere when a signal, a kill or a power loss comes;
- a post may be taken by the server and its answer lost; a lease may lapse and
  come back, or pass to another client, at any point of a retry;
- the marker must survive exactly the crashes it is evidence of;
- store processes meet only in the file system: every test of a file is stale
  when it is used, and a process may die between two operations;
- a result is saved, posted, marked and moved in steps any of which may be the
  last, by several commands at once, over a lock file that is itself removed;
- a cached definition is two files, written in place by processes that know
  nothing of each other, and the server answers "unchanged" by what one of them
  says;
- a plan's cells pass between threads, queues and boxes that come and go, and
  between runners that share nothing but a file they append to;
- a phone's app outlives the process that launched it, and keeps the results;
- loops that must end: claim backoff, refetch after a sweep, sweep rounds, waits
  for a box's slot, a phone thread told to stop.

`PROJECT.json` lists these as hazards, each at its line with the properties
that would catch it. Those that no property covers are under "Hazards without
a property" below.

## Modules

**Worker** models `pipette worker`. `pc` is the main thread; `hb` the lease
heartbeat thread, `beat` the marker refresh thread, `draining`/`pending` the
thread that runs taken teardowns. `marker`, `filed` and `ckpt` are the files
that outlive the process, `srv`/`held` the server. One action is the code
between two points where another thread, the server or a crash can get in:

- claim: `LoopTop`, `ClaimJob`, `ClaimIdle`, `ClaimRefused`, `ClaimTransient`,
  `ClaimBackoff`, then `DecideClaim` on what the marker says;
- run: `RegisterTeardown` and `MarkRun` (`InFlightRun::start`; registration
  comes before the write), `StartEngine`, `FinishRun`, `JoinHeartbeat`, `Disarm`
  in the order `run_claimed_job` drops its guards;
- submit: `SubmitFinishedRun`, `SkipSubmit` and `HeldTouch`, then one action per
  answer (`Post...`, `Reclaim...`), `SubmitBackoff`, `StoreResult`,
  `RetireCheckpoint`;
- beside it: `BeatRefresh`/`BeatStops`, `Heartbeat...`, `Signal...`,
  `OutputClosed`, `TearDown...`, `ForcedExit`, and the environment `Kill`,
  `PowerCycle`, `Tick`, `LeaseLapses`, `OtherClaims`, `OtherSettles`.

The server is external. It is as liberal as the code allows for: it may answer
404 or 409 for a job it has given away, accept and lose the answer, or grant a
lease nobody heard of. `answered`, `cut` and `cutAlive` are history:
properties read them, no action does.

**HeldCache** is what the artifact store promises: entries are complete when
present, present while used, evicted only when unused.

**ArtifactStore** models the processes that share one store root. `entry`,
`dir`, `file` are the file system; `elock` (`.locks/<key>.lock`), `shared` and
`excl` (`.locks/<key>.use`) and `slock` (the lock beside a staged directory) are
OS locks, which go with their process. Every operation another process can see
is an action of its own: a lookup is two (`FindExists`, `FindRead`), a staged
directory three (`CreateLockFile`, `LockStaged`, `Publish`), an eviction three
(`RemoveLive`, `MoveOut`, `DeleteDoomed`). `back` says which of its four
lookups a resolve is in. `live` is the plan's evictions, each with its place in the
order of last use, which is the order they are tried in. `Cache` maps it to HeldCache.

**Teardown** models the children any pipette process starts. A child is one
start; `phase` is how far its owning thread is with it, `alive` the sessions
that run, `registry` the teardowns, `notes` the files that outlive the process.
A start is `BeginStart` (the STARTS read lock), `Spawn`, then `Register` and
`WriteNote` in the order its function has them (`Spawned::start` registers
first, `output_within` notes first), `EndStart`; an end is `StopChild` and
`Finish`. The two drainers share `run_and_exit` (`TearDownSession`,
`StartDockerKill`, `TearDownContainer`, `Exit`) and differ in how they select:
`SignalAbsorbed`/`SignalTakes` need STARTS free, `OutputTakes` does not. The
RwLock is external: it lets no reader in while the handler waits, as std's does
on every platform pipette is built for. Worker keeps its own, coarser view of
the same registry: one engine and the marker.

**PlanRunner** models `pipette-ctl run`: invocations that may be alive at once as
shards of one plan, each with its threads. `log` is `state.jsonl`, the only thing that
outlives an invocation and the only thing shards share; `index` is what an invocation
read of it. A cell is its position in the matrix, which shards and queues go by; the
file and the index go by `CellKey` (`build_cell_key`), which leaves out a cell's
clients, so that variants differing only by those are several cells with one key
(`tests/variant_cell_identity.rs`). An event carries the cell that wrote it, for the
properties: the index does not read it. A queue is named by the set of clients that
may take from it, so that the pinned, the restricted and the unassigned queue are one
function `queue` and `pop_next` is one look per queue (`Looks`, `Pop`,
`PassOverQueue`), as each is behind a mutex of its own. `Launch` selects, `RouteNext`
routes a cell at a time, the passes (`PassAcquire`, `PassRelease`) and the threads
share the slots `free`. A thread's round is `Pop`,
`ProbeFails`/`ProbeAnswers`/`WriteFails`, `Acquire`,
`ExecErrs`/`ExecExits`/`ResultLost`; `WaitProbe`, `GiveUp` and `RejoinSync` are the
wait for a box. `owed` (cells taken on and not finished), `loaded` (how far an
invocation read the file) and `synced` are history.

`AffinityKept` and `DoneNotRerun` are about what an invocation *knows* of a cell: the
events it loaded under the cell's key, whichever cell wrote them, and the cell's own
since. More does not hold: what another cell of the key writes meanwhile is not read
until the next invocation (`KeyDoneTakesAllOut` below).

**ResultSync** models the way of a result to the server. The `benchmarks run` that
saves a result and the `sync` commands run the same `Submit` actions, one per
file operation. A lock is on a *file*, not on its name: `path` is the file now at
the lock path, `handle` the one a process opened, and two processes may hold
locks of two files of one name. `cuts` counts the posts whose job never reached
the marker, the only reason for a second post. A `sync` looks once which jobs have no
score (`NeedsRefresh`) and then writes them, also one that another `sync` has written
since.

**Catalog** models the cache of benchmark definitions. An ETag is a hash of the body
and is modelled by it, so that tags of two servers agree where their bodies do; the
check that the state is this server's is in the model, and no property needs it.
`fs::write` is a truncation and a write; a kill in between leaves `Empty`, two writers
leave `Torn`, a file unlinked under its writer is in `cut`. A pull is `ReadIndex`,
`List`, one `ReadBody`/`ReadTag` and `Fetch` per detail, `Fetched`, the writes,
`Prune`, the index, the state; a claim shares the reads and the writes and has one
action per answer.

**ProxyPhone** models the proxy in pool mode: `proc` is the process that reads the
pool on the first phone, `pc` one thread per phone, `runner` the app, which lives
on when the process dies, `results` what the app keeps. A claim's number names its
run and the result of that run, which the code cannot see; the code tells results
apart by the list it took `before` the run. A launch ends when devicectl's output does
(`RunEnds`), and a call to the phone that fails may or may not have ended the app
(`FailedCall`): in both cases the app may live on and write. The app and the server are
external.

The `MC` modules add the instances and the symmetry sets. Each module but HeldCache
has its theorems in a module of its own: **WorkerProofs**, **TeardownProofs**,
**ArtifactStoreProofs**, **PlanRunnerProofs**, **ResultSyncProofs**,
**CatalogProofs**, **ProxyPhoneProofs**. The inductive invariants are at the end of
the component's module, so that TLC can check them as well.

## Runs

| Run | Checks | Bounds |
|---|---|---|
| worker_lease | `TypeOK`, `LostLeaseNeverPosts`, `SettledOnlyIfAnswered`, `CheckpointKept`, `StopEnds` | 1 job, 1 boot, 2 attempts, `--max-jobs 2`, faulty marker I/O, other clients, fairness |
| worker_reboot | `RebootReportSound`, `CutJobNotRerun` | 1 job, 3 boots, 1 attempt, window 1, clock 0..3: the window's edge on both sides, and a marker two boots old (the theorem has any number of jobs) |
| store_locks | `TypeOK`, `HeldEntryWhole`, `StagedFetchSafe`, `FetchOnlyMissing`, `CacheSpec` | 2 processes, 2 keys (one torn), 3 staging names, quota 1, 4 commands, 2 crashes |
| store_ends | `OrphansAreGarbage`, `CommandsEnd` | the same with 2 deletes by an operator, 2 commands, 1 crash, fairness, no symmetry |
| teardown_ends | `TypeOK`, `AliveAccounted`, `SignalEndsStarts`, `LeftNoted`, `GracefulSparesNoChild`, `SignalAnswered`, `DrainEnds` | one service, one container, stop flag, closed output, failing notes, fairness |
| plan_cells | `CellsConserved`, `BoxWithinBudget`, `LeftoverHasCause`, `RunEnds` | 1 invocation, 2 cells (one for anyone, one restricted), 2 clients on one box, 3 threads, 2 faults, 1 retry, fairness |
| plan_shards | `ShardsApart`, `AffinityKept`, `DoneNotRerun` | 2 shards, 3 invocations, 2 cells with one key (one for anyone, one restricted), plain and `--include-done --include-failed --reassign` runs, 1 fault, kills, no rejoin retry |
| sync_results | `TypeOK`, `PostedOnce`, `OnePlace`, `SyncedIsFiled`, `NoLockFileLeft` | 1 result, its run and 2 syncs, 4 runs of `sync`, 2 faults, 6 lock files |
| catalog_pulls | `ClaimRunsServed`, `PullHeals` | 2 servers, 2 ids, 3 bodies (one that does not convert), 2 pulls, 1 claim, 1 edit, 1 fault |
| proxy_runs | `RecordHonest`, `PostsOwnRun`, `KeptUntilAccepted`, `SettledBeforePost`, `StopEnds` | 1 phone, 2 builds (one rebuilt), 2 jobs (one no build can run), 3 claims, 1 lapse, 1 fault, fairness |
| plan_ios, proxy_rebuilt | one documented claim each, refuted | as small as the counterexample allows |

The bounds are the smallest at which the interesting cases occur: with quota 1 and two
keys every second publish evicts; two attempts are one retry and one give-up, and
`ATTEMPTS` (32) only repeats them; two processes suffice because a lock has one
holder, one waiter and one dead owner, which crashes provide. Names are not exhausted:
a process uses one at a time, and three leave one for a dead process. In Teardown one
child of each kind gives a start beside a stop beside a drain; every slot starts once,
and the theorems cover any number and short commands too. In PlanRunner three threads
are two on one client and one on another, so that a cell given back can be taken by
the same client, by the other, or by none; three invocations are a run, its kill and
its resumption beside the other shard, which works on a variant of the same key.
Results do not meet in ResultSync (each has its lock, its directory and its jobs), so
one is enough; four `sync` runs and two faults are a kill, a resumption, and two more
that meet over the lock file. One claim beside two pulls are two writers and a reader
of one detail. Phones share only the pool, which `proxy_rebuilt` has two of; three
claims of one job give a run the results, and the app still running, of an earlier one
to be confused by.

Deadlock is checked for Worker, which can always be started again, for Teardown,
whose next run may always come, and for ProxyPhone, which can always be started
again. The bounds on commands let every process of the other modules end, so it is
not checked there; `CommandsEnd` and `RunEnds` say that they end for that reason
only.

`TypeOK` of PlanRunner, Catalog and ProxyPhone is proved; no run is spent on it.

**Fairness.** Some of it is what a process and its operating system do by themselves,
the rest is assumed of others and named in the modules. Worker: the main thread's own
steps and the draining thread go on (`ProcessRuns`). Assumed are `RunsEnd`, that a run
ends (only some benchmarks have a time limit), and `ServerAnswers`, that the server
answers a call or the connection breaks: the HTTP client has a timeout for connecting
and none for a request (`commands/mod.rs:302`, `pipette-http/src/lib.rs:136`), so a
server that accepts a connection and stays silent holds a claim, a post or the join of
the heartbeat for ever, stop flag or not. `StopEnds` does not speak of that server;
whatever else it answers, in whatever order, is covered. Nothing is assumed of signals,
the clock or the refresh thread. ArtifactStore: a process keeps running, and a file
lock that comes free again and again is in the end given to a process waiting
for it; the OS promises the first and in practice the second. A fetch is
assumed to end, as the download's retry limits make it. Teardown: a start that
holds STARTS goes on (what `hold_off_teardown` asks of its callers), and so do
the handler and the drainers; nothing is assumed of children, of their owners
once a start is over, or of signals. PlanRunner: every thread of a live invocation
is scheduled and a command on a box ends; `RunEnds` is checked without iOS clients,
whose rejoin sync does not end (below), and with boundedly many faults, because
the code bounds no client that answers its probes and drops every cell.
ProxyPhone: a process whose threads are done exits. Assumed are `CallsEnd`, that a call
to the server or the phone is answered or breaks off (the client has "no overall request
timeout", `server/mod.rs:350`), and `LaunchesEnd`, that a launch ends, at the latest once
it was told to: the watchdog sends one SIGTERM and one terminate to the phone and then
waits without bound (`app/console.rs:391`). Nothing is assumed of the app, which may
outlive its launch, or of the pool.

## What the code does that its docs do not say

Two are runs that TLC refutes and findings in `PROJECT.json`:

- `IosNotSynced` (plan_ios): the passes take their targets from `sync_targets`,
  which leaves iOS out because a sync there "opens the UI and never exits"; the two
  rejoin paths call `sync_transport` on whatever client came back.
- `LaunchesWhatWasRead` (proxy_rebuilt): `installed.json` names a path. A bundle
  rebuilt at that path is read again, by installing it on the first phone; another
  phone's record still names the path, so the install is skipped there and the job
  runs on the old bundle.

Seven more are stated in the modules with a configuration each, that TLC refutes in
seconds (`tlc -config MCWorker_filed.cfg MCWorker` and so on):

- `FiledOnlyIfHeld` (MCWorker_filed): a result that the server answered with 409,
  or 404 with a refused reclaim, counts as delivered: it is filed as synced and its
  checkpoint is retired although the server does not hold it (`worker.rs:1154`
  against `worker.rs:10`).
- `StoppedRunNotFailed` (MCWorker_stopped): a signal while an engine is up does not
  set the stop flag. The engine dies, the run fails, and the main thread, alive
  until the teardowns are done, can post that failure (`cleanup.rs:139` against
  `worker.rs:743`).
- `SweepFailsNoLookup` (MCArtifactStore_swept): `find` tests and then reads. A sweep
  in between makes the resolve fail with an I/O error instead of fetching the entry
  again (`model/store.rs:102` against `docs/storage-quota.md:78`).
- `ClosedOutputTearsDown` (MCTeardown_cut): the handler does not look at DRAINING. A
  signal during the closed-output teardown finds an empty registry and exits at
  once; a lost ssh session brings both (`cleanup.rs:142` against `cleanup.rs:158`).
- `CellAfterSync` (MCPlanRunner_stale): a box that misses the initial sync and is
  back before its thread probes it runs its cells on old definitions, because only
  a failed probe leads to the rejoin sync (`run.rs:986` against `run.rs:720`).
- `KeyDoneTakesAllOut` (MCPlanRunner_twins): of two cells with one key "recording either
  as done takes both out of the queue" (`tests/variant_cell_identity.rs:5`). It does so
  for the next invocation. Within one, or in shards side by side, both are selected as
  missing and the second is run after the first has succeeded (`run.rs:371`). Likewise a
  variant's later event moves the key's pin, so that a resumed cell follows its twin's
  client.
- `ListTagNamesIndex` (MCCatalog_tag): the index and the list's tag are two writes;
  two pulls can leave the index of one under the tag of the other, and the server
  then answers 304 for a list the client does not have (`benchmarks/store.rs:189`).

## Hazards without a property

The models have these behaviours and no run singles them out: a run that registers
and marks itself after the teardowns were taken leaves its marker to the next boot
(`cleanup.rs:265`); a child started then survives the exit (`LeftNoted` says what is
known of it); a start whose note cannot be written, with stderr closed, drains under
the STARTS read lock, so that its `docker kill` and a waiting handler wait for each
other (`orphans.rs:84`; `DrainsInStart` excludes it from the two liveness
properties); a sync between `save_payload` and `save_extras` files a result without
its extras and moves the directory away under the writer (`results/store.rs:90`);
`index.json` or `sync.json` torn by a kill makes every later sync fail
(`benchmarks/store.rs:184`, `:208`); an operator's delete takes an entry from under a
run that holds it, file by file (`model/store.rs:176`, documented behaviour); and the
check that the recorded state is this server's (`client/sync.rs:136`), on which nothing
turns while a tag is modelled as its body.

The models do not have these: the saturating byte sums of the quota plan
(`quota.rs:255`); pids reused between a note and its reader (`session.rs:56`); a torn
line of `state.jsonl` (`state.rs:169`); `reset --client` rewriting that file beside a
running invocation (`cli.rs:423`).

## Proofs

Every safety property of the passing runs is a theorem, for every value of the
constants that satisfies the module's `ASSUME`s: any number of jobs, processes,
keys, cells, threads, phones and any bound on faults. So is the refinement of
HeldCache. The `ASSUME`s say that bounds are naturals, that model values such as
`NoJob` are not among what they stand beside, and (PlanRunner) that threads, boxes
and shards are assigned by functions; `LeftoversExplained` and
`ImplementsHeldCache` have one hypothesis more, given below.

Every module has the same outline. `IInv` collects the types, what each place of a
process entitles it to, and the properties that are needed to keep themselves. One
lemma per conjunct (`...Step`) has one step per action; `InitInv` and `Inductive`
collect them; each theorem follows from `Invariance`. TLC checks each `IInv` on the
instances of the runs (put it in the place of a run's invariants). The parts of a `TypeOK`
that hold Booleans or sequences have lemmas of their own, because neither Zenon nor
the SMT solver handles all of it.

**WorkerProofs**: `TypeCorrect`, `RebootReportsAreSound`, `LostLeasesNeverPost`,
`SettledIsAnswered`, `CutJobsNotRerun`, and the action property `CheckpointsKept`.
`Scopes` says what threads and guards exist at each point of the main thread (a
marker refresh only within a marked run, a heartbeat only while a run is in scope,
`lost` only until the submit reads it); `Evidence`, that a marker on disk belongs to
the run in flight or to one that was cut off; `Recorded`, that a job cut off while
marked still has its marker, unless it was answered for, replaced or aged. With
`Evidence`, a marker that makes `decide` answer "Rebooted" names a job of `cut`; with
`Scopes` no thread can add or remove a marker behind a report's back.

**TeardownProofs**: `TypeCorrect`, `EveryChildAccounted`, `SignalsEndStarts`,
`WhatIsLeftIsNoted`, and the action property `GracefulStopsAreIdle`. The invariant
adds `RunsInPhase` (a session runs only between spawn and reap, so `Finish` drops the
guard of a dead one), `TakenByDrainers` (a selection overwrites nothing),
`OwedInHand` (what ran at the selection is dead or with a drainer, and no later spawn
is one of them) and `NotedOnceStarted`. With STARTS free no child is between spawn
and registration, so by `AliveAccounted` all that runs is in the registry the handler
takes, or with the closed-output thread.

**ArtifactStoreProofs**: `TypeCorrect`, `RunsFromWhole`, `FetchesUndisturbed`,
`NoSecondFetch`, `OrphansFound`, and the refinement `ImplementsHeldCache`. Its
invariant is about who holds which lock: `FetchLocked` (from the second look to the
publish the entry's lock is the fetcher's), `MissingStays` (so what it found missing
stays missing until it publishes), `StagingKept` and `LockNamed` (a fetch keeps its
staged directory with the lock beside it, and a staging lock belongs to whoever works
under its name), `StagingApart` (a sweep that shares its name is only removing a lock
file that the fetch has not locked yet: the fetch then fails to lock and takes another
name), `UseLocked` against `MoveLocked` (an entry is in use under a shared lock taken
before the last look; a sweep moves it out under an exclusive one). `NoSecondFetch`
has no hypothesis on deletes by hand: they take from an entry and never complete
one. `ImplementsHeldCache` assumes `MaxDeletes = 0`, as an operator's
`delete` takes an entry without asking for its lock; a publish is the abstract `Publish`, a
move-out `Evict`, a process entering or leaving its run `Use` and `Release`, and
every other step a stutter (`StoredKept`, `UsersMove`).

**PlanRunnerProofs**: `TypeCorrect`, `NothingLostNorDoubled`, `ShardsDisjoint`,
`BoxesWithinBudget`, `LeftoversExplained`, and the action properties
`AffinityRespected` and `DoneStaysDone`. `Once` (no cell is twice in a queue, in two
queues, in a queue and a hand) and `Owed` give that each cell owed has one place;
`Sharded`, that what an invocation took on is of its residue however the file has
grown; `Loaded` and `IndexFresh`, that what it loaded is still the beginning of the
file and that no event of a cell it has yet to route came since; `NotDone`, that
without `--include-done` no such cell is known to have succeeded; `Slots`, that a
box's free slots and its commands in flight add up to its capacity; `Pinned`, that a
cell is only in the queue or hand of the client its `Binding` events name: the last
event loaded under its key and the cell's own since. `CellKey` is any function from
cells to keys. `LeftoversExplained` assumes `FullCrews`: a plan has a transport and
each transport a thread, which `run_matrix` and the type of `parallelism` ensure
(`run.rs:421`, `run.rs:217`). Its invariant `Attended` finds for every queue a thread
that may take from it and has not passed it over since a cell was put there, or one
that stopped for a fault.

**ResultSyncProofs**: `TypeCorrect`, `OnePost`, `NeverLostNorTwice`,
`OnlyTheServersJobs`, `LockFilesUnlinked`. The heart is `Exclusive`: while the result
is there, a process between its recheck and its move holds the lock of the file that
is *now* at the lock path, so that two processes with locks of two files of one name
never both work; the file goes only after the result has moved. `Accounted` then counts the
server's jobs: one more than the posts that were cut off from their marker, and not even
that while no job is on record.

**CatalogProofs**: `TypeCorrect`, `ClaimsRunServed`, `PullsHeal`. For a claim,
`ClaimSound`: it asks with the tag of the body it read or with none, and stores what
it was served, so a 304 speaks of the bytes in its hand and of nothing on disk. For a
pull, `Solo` (nothing runs beside one that is `alone`) reduces every step to its own,
and `Healing` follows it through its places: its requests carry tags of bodies it has
(`AsksHonest`), so a 304 means that the disk is right (`AnswersTrue`); what it has not
stored yet is on its list (`Storing`); what it has not removed yet is on its list
(`Pruning`). Nothing is assumed of what it found.

**ProxyPhoneProofs**: `TypeCorrect`, `RecordsAreHonest`, `ClaimsPostTheirOwn`,
`MeasurementsKept`, `LeaseSettledFirst`. `Chosen` and `PoolFirst` say that a record is
dropped before the app is replaced and that the pool is read before any thread chooses
from it; `OwnRun`, that once the list of results is taken the app runs for the claim
its thread has, also past its launch, or not at all, so that what is not on the list
is the claim's own; `UploadsAccepted`, that what is marked as uploaded was accepted.

Only model-checked: liveness (`StopEnds` of Worker and ProxyPhone, `CommandsEnd`,
`RunEnds`, `SignalAnswered`, `DrainEnds`), as the prover has no rule for fairness or
ENABLED. The refuted claims are TLC's alone by nature.

## What is abstracted or left out

Worker: message wording, the exact backoff and jitter, ISO 8601 durations,
benchmark download before a run (one of the ways a run fails), an I/O failure
while removing a marker, a marker write whose rename succeeded and whose
directory sync failed, clocks that jump backwards, and the `Err` outcomes of a
job that are only logged.

ArtifactStore: one store root, with entries of size one; the survey is one step
(what matters, its staleness, is kept between it and the removals), and so is
the `try_lock` probe it makes; a delete of a moved-out entry that another sweep
removes at the same time never fails (in the code it costs one more round);
file systems without locks, read-only stores, the pre-fetch refusal of an
artifact larger than the quota, and manifests that parse but fail a check.

Teardown: pids, start times and tokens (a kill reaches the session it names and
no other, which is what `session.rs` spends them on), the members of a session,
the container the docker daemon runs, the session of a `docker kill`, output
readers, graces and other time, teardowns that are not a child's (Worker has the
marker's), a second live process beside this one, and Windows.

PlanRunner: parsing and validation of a plan, the order of the matrix, the command of
a cell and what it prints, attempt numbers (nothing branches on them), the durations
of the waits, `status`, `commands`, `reset` and `kill`. An append to `state.jsonl` is
one step.

ResultSync: what a payload holds, file systems without locks (the code then goes on
without one), the clearing of remote state when the server changes.

Catalog: what a definition holds, bundled and local benchmarks, the concurrency limit of
the fetch (every order of answers is there), a detail's redirects.

ProxyPhone: version mode (`version.rs`: builds downloaded from releases), the GPU
pin, device facts, the register, scan and uninstall verbs, bundles that leave the
pool, what a failure's cause is called, the wording of the console protocol.

Not modelled at all: see `components` in `PROJECT.json`. Most of the repository's
194,000 lines are engine runners, output parsers, format conversions, sensors, user
interfaces and tests: sequential code whose correctness is that of its formats, which
a model of states and interleavings says nothing about. The map therefore covers a
small share of the lines, and the parts with concurrency, persistence and failure.

## Plan

1. All seven components are modelled and checked, and their safety properties proved.
2. Prove next: that the runs' liveness has its safety half for every instance (the
   measures that bound `CommandsEnd` and `RunEnds`: every round of a sweep, a retry or
   a give-back spends something that is bounded); that Teardown's registry implements
   the coarser one Worker uses.
3. Model further: the quota plan with byte sizes against a reference definition, the
   proxy's version mode, a second live process beside `reap_orphans`, the eval
   checkpoint's resume.
