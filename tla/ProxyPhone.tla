----------------------------- MODULE ProxyPhone -----------------------------
(***************************************************************************)
(* pipette-ios-proxy in pool mode: one process that claims jobs for        *)
(* several phones, one thread each (tools/pipette-ios-proxy: worker/,      *)
(* pool/, state.rs, server/, app/console.rs).                              *)
(*                                                                         *)
(* A claimed job runs inside the app on the phone.  The thread installs    *)
(* the build of the pool that provides the job's runtime, remembers it in  *)
(* installed.json, takes a list of the results already there, launches     *)
(* the app with a heartbeat beside it, and afterwards submits what the app *)
(* did not upload itself.  The lease may be lost, the process killed, the  *)
(* app left running, at any step.  Every call to the app launches it anew, *)
(* ending the one that runs (--terminate-existing).                        *)
(*                                                                         *)
(* A claim is known by its number, and so are its run of the app and the   *)
(* result that run leaves.  The bundle at a path of the pool is a number   *)
(* that grows when it is rebuilt in place.                                 *)
(***************************************************************************)
EXTENDS Naturals, FiniteSets

CONSTANTS
    Phones,     \* the configured devices
    First,      \* the one that reads the pool
    Paths,      \* bundles of the pool
    MaxBuild,   \* path -> bound on its builds
    Provides,   \* path -> bundle -> the runtimes it provides
    Jobs,       \* jobs of the server
    Needs,      \* job -> its runtime
    MaxJobs,    \* the max_jobs setting, 0 for no limit
    MaxClaims,  \* bound on claims
    MaxLapses,  \* bound on leases the server takes back
    MaxFaults,  \* bound on kills of the process and apps deleted by hand
    None        \* no job, no app, no record

ASSUME SetsAssumption ==
    /\ First \in Phones
    /\ None \notin Phones \cup Paths \cup Jobs
ASSUME BoundsAssumption ==
    /\ MaxBuild \in [Paths -> Nat \ {0}]
    /\ MaxJobs \in Nat
    /\ MaxClaims \in Nat
    /\ MaxLapses \in Nat
    /\ MaxFaults \in Nat

VARIABLES
    \* the server
    open,     \* jobs not closed
    holder,   \* job -> the phone with its lease
    \* the Mac's disk
    disk,     \* path -> the bundle there
    index,    \* builds.json: path -> the stamp and the bundle that was read
    record,   \* installed.json: phone -> the path installed
    \* the phones
    app,      \* phone -> path and bundle of its app
    runner,   \* phone -> the headless run in progress
    results,  \* phone -> results the app keeps
    \* the process
    proc,     \* what the process does
    unread,   \* paths of the pool the refresh has not come to
    reading,  \* the build being read: its path, and its stamp as found
    last,     \* the last build read
    stop,     \* whether the stop signal came
    pc,       \* phone -> what its thread does next
    job,      \* phone -> the job it has claimed
    num,      \* phone -> the number of that claim
    taken,    \* phone -> jobs claimed by this process
    before,   \* phone -> results listed before the run
    beating,  \* phones with a heartbeat thread
    lost,     \* phones whose heartbeat found the lease gone
    halt,     \* phones a failed job takes out of service
    todo,     \* phone -> results to settle
    claims, lapses, faults,
    \* History, read by the properties and by no action:
    made,     \* runs that left a result
    accepted, \* runs whose result the server accepted
    wiped,    \* runs whose result went with an app deleted by hand
    posted    \* <<run, claim>> of each result the proxy posted

serverVars == <<open, holder>>
diskVars == <<disk, index>>
phoneVars == <<app, runner, results>>
procVars == <<proc, unread, reading, last, stop>>
claimVars == <<job, num, taken>>
runVars == <<before, beating, lost, halt, todo>>
counts == <<claims, lapses, faults>>
history == <<made, accepted, wiped, posted>>
vars == <<serverVars, diskVars, record, phoneVars, procVars, pc, claimVars, runVars, counts,
          history>>

Go(p, to) == pc' = [pc EXCEPT ![p] = to]
Set(f, p, v) == [f EXCEPT ![p] = v]

-----------------------------------------------------------------------------
(* The claim loop. *)

\* connect and wait_until_claimable, which a stop ends.
Connect(p) ==
    /\ pc[p] = "start"
    /\ \E to \in {"claim"} \cup (IF stop THEN {"done"} ELSE {}) : Go(p, to)
    /\ UNCHANGED <<serverVars, diskVars, record, phoneVars, procVars, claimVars, runVars,
                   counts, history>>

\* A call outside a job fails: for a 4xx the thread stops, else it starts
\* again unless told to stop.
Refused(p) ==
    /\ pc[p] \in {"start", "claim", "poll"}
    /\ \E to \in {"dead", IF stop THEN "done" ELSE "start"} : Go(p, to)
    /\ UNCHANGED <<serverVars, diskVars, record, phoneVars, procVars, claimVars, runVars,
                   counts, history>>

\* Mutant: the loop does not look at the stop flag.
MutLooks(p) ==
    /\ pc[p] = "claim"
    /\ Go(p, "poll")
    /\ UNCHANGED <<serverVars, diskVars, record, phoneVars, procVars, claimVars, runVars,
                   counts, history>>

\* The head of claim_loop.
Looks(p) ==
    /\ pc[p] = "claim"
    /\ Go(p, IF stop THEN "done" ELSE "poll")
    /\ UNCHANGED <<serverVars, diskVars, record, phoneVars, procVars, claimVars, runVars,
                   counts, history>>

\* The phone cannot be reached, or there is no work, or the claim fails for now.
Idle(p) ==
    /\ pc[p] = "poll"
    /\ Go(p, "claim")
    /\ UNCHANGED <<serverVars, diskVars, record, phoneVars, procVars, claimVars, runVars,
                   counts, history>>

\* poll_claim: the server leases a job.
Claim(p, j) ==
    /\ pc[p] = "poll"
    /\ claims < MaxClaims
    /\ claims' = claims + 1
    /\ j \in open
    /\ holder[j] = None
    /\ holder' = Set(holder, j, p)
    /\ job' = Set(job, p, j)
    /\ num' = Set(num, p, claims + 1)
    /\ taken' = Set(taken, p, taken[p] + 1)
    /\ Go(p, "check")
    /\ UNCHANGED <<open, diskVars, record, phoneVars, procVars, runVars, lapses, faults,
                   history>>

\* launch_plan and known_benchmark: the claim reads, and its benchmark exists,
\* or the job fails.
Check(p) ==
    /\ pc[p] = "check"
    /\ \E to \in {"install", "report"} : Go(p, to)
    /\ UNCHANGED <<serverVars, diskVars, record, phoneVars, procVars, claimVars, runVars,
                   counts, history>>

-----------------------------------------------------------------------------
(* ensure_installed. *)

\* The builds that provide a job's runtime, by what the index says of them.
Providers(ix, j) == {b \in Paths : ix[b] # None /\ Needs[j] \in Provides[b][ix[b].read]}
Build(ix, j) == CHOOSE b \in Providers(ix, j) : TRUE

\* No build provides the runtime; or the one that does is on record, and the
\* phone's apps cannot be listed.
NoBuild(p) ==
    /\ pc[p] = "install"
    /\ Providers(index, job[p]) # {} => record[p] = Build(index, job[p])
    /\ Go(p, "report")
    /\ UNCHANGED <<serverVars, diskVars, record, phoneVars, procVars, claimVars, runVars,
                   counts, history>>

\* The record names the build, and the phone has the app.
Present(p) ==
    /\ pc[p] = "install"
    /\ Providers(index, job[p]) # {}
    /\ record[p] = Build(index, job[p])
    /\ app[p] # None
    /\ Go(p, "snapshot")
    /\ UNCHANGED <<serverVars, diskVars, record, phoneVars, procVars, claimVars, runVars,
                   counts, history>>

\* Mutant: the record is left until the install is done.
MutForget(p) ==
    /\ pc[p] = "install"
    /\ Providers(index, job[p]) # {}
    /\ record[p] # Build(index, job[p]) \/ app[p] = None
    /\ Go(p, "installing")
    /\ UNCHANGED <<serverVars, diskVars, record, phoneVars, procVars, claimVars, runVars,
                   counts, history>>

\* set_installed(None), ahead of the install.
Forget(p) ==
    /\ pc[p] = "install"
    /\ Providers(index, job[p]) # {}
    /\ record[p] # Build(index, job[p]) \/ app[p] = None
    /\ record' = Set(record, p, None)
    /\ Go(p, "installing")
    /\ UNCHANGED <<serverVars, diskVars, phoneVars, procVars, claimVars, runVars, counts,
                   history>>

Bundle(b) == [path |-> b, bundle |-> disk[b]]

\* The install ends the app that runs, and puts the bundle on the phone as it
\* is now.
Install(p) ==
    /\ pc[p] = "installing"
    /\ app' = Set(app, p, Bundle(Build(index, job[p])))
    /\ runner' = Set(runner, p, None)
    /\ Go(p, "verify")
    /\ UNCHANGED <<serverVars, diskVars, record, results, procVars, claimVars, runVars,
                   counts, history>>

\* It is refused, or fails; it may have gone through all the same.
InstallFails(p) ==
    /\ pc[p] = "installing"
    /\ \/ UNCHANGED <<app, runner>>
       \/ /\ app' = Set(app, p, Bundle(Build(index, job[p])))
          /\ runner' = Set(runner, p, None)
    /\ Go(p, "report")
    /\ UNCHANGED <<serverVars, diskVars, record, results, procVars, claimVars, runVars,
                   counts, history>>

\* A call that fails may have ended the app that ran, or not.
FailedCall(p) == runner' \in {runner, Set(runner, p, None)}

\* check_after finds the configured client, and the build is remembered; or it
\* fails; or the phone has another identity, and is driven no further.
Verify(p) ==
    /\ pc[p] = "verify"
    /\ \/ /\ runner' = Set(runner, p, None)
          /\ record' = Set(record, p, Build(index, job[p]))
          /\ Go(p, "snapshot")
          /\ UNCHANGED halt
       \/ /\ FailedCall(p)
          /\ halt' \in {halt, halt \cup {p}}
          /\ Go(p, "report")
          /\ UNCHANGED record
    /\ UNCHANGED <<serverVars, diskVars, app, results, procVars, claimVars, before, beating,
                   lost, todo, counts, history>>

-----------------------------------------------------------------------------
(* The run: results_before, the lease's heartbeat, run_and_submit. *)

\* Mutant: the list is read without ending the app that runs.
MutSnapshot(p) ==
    /\ pc[p] = "snapshot"
    /\ \/ /\ before' = Set(before, p, {r.run : r \in results[p]})
          /\ beating' = beating \cup {p}
          /\ Go(p, "launch")
       \/ /\ Go(p, "report")
          /\ UNCHANGED <<before, beating>>
    /\ UNCHANGED <<serverVars, diskVars, record, phoneVars, procVars, claimVars, lost, halt,
                   todo, counts, history>>

\* `results list` ends what runs on the phone, an orphan of a killed process
\* too; then the heartbeat starts.  Or the list fails.
Snapshot(p) ==
    /\ pc[p] = "snapshot"
    /\ \/ /\ runner' = Set(runner, p, None)
          /\ before' = Set(before, p, {r.run : r \in results[p]})
          /\ beating' = beating \cup {p}
          /\ Go(p, "launch")
       \/ /\ FailedCall(p)
          /\ Go(p, "report")
          /\ UNCHANGED <<before, beating>>
    /\ UNCHANGED <<serverVars, diskVars, record, app, results, procVars, claimVars, lost,
                   halt, todo, counts, history>>

\* The app gets the cell; or the launch fails, or is silent twice.
Launch(p) ==
    /\ pc[p] = "launch"
    /\ \/ /\ app[p] # None
          /\ runner' = Set(runner, p, [run |-> num[p], job |-> job[p], at |-> "working"])
       \/ runner' = Set(runner, p, None)
    /\ Go(p, "run")
    /\ UNCHANGED <<serverVars, diskVars, record, app, results, procVars, claimVars, runVars,
                   counts, history>>

\* One heartbeat that does not just renew the lease.  A lease that is gone is
\* reclaimed once; one taken away or closed is lost.
Beat(p) ==
    /\ p \in beating
    /\ holder[job[p]] # p
    /\ \/ /\ job[p] \in open
          /\ holder[job[p]] = None
          /\ holder' = Set(holder, job[p], p)
          /\ UNCHANGED <<beating, lost>>
       \/ /\ lost' = lost \cup {p}
          /\ beating' = beating \ {p}
          /\ UNCHANGED holder
    /\ UNCHANGED <<open, diskVars, record, phoneVars, procVars, pc, claimVars, before, halt,
                   todo, counts, history>>

\* Mutant: whether the lease was lost is read before the heartbeat is joined.
MutRunEnds(p) ==
    /\ pc[p] = "run"
    /\ IF p \in lost
       THEN Go(p, "settle")
       ELSE \E to \in {"collect", "report"} \cup (IF stop THEN {"between"} ELSE {}) :
                Go(p, to)
    /\ UNCHANGED <<serverVars, diskVars, record, phoneVars, procVars, claimVars, runVars,
                   counts, history>>

\* The launch is over: its output closed, whether or not the app lives on.  The
\* heartbeat is joined first; then a lost lease, a stop, a failed run and a good
\* one part ways.
RunEnds(p) ==
    /\ pc[p] = "run"
    /\ beating' = beating \ {p}
    /\ IF p \in lost
       THEN Go(p, "settle")
       ELSE \E to \in {"collect", "report"} \cup (IF stop THEN {"between"} ELSE {}) :
                Go(p, to)
    /\ UNCHANGED <<serverVars, diskVars, record, phoneVars, procVars, claimVars, before,
                   lost, halt, todo, counts, history>>

Fresh(p) == {r \in results[p] : r.run \notin before[p]}

\* settle_uploaded: after a lost lease, what the app uploaded leaves the phone,
\* as far as the calls succeed.
SettleUploaded(p) ==
    /\ pc[p] = "settle"
    /\ \/ /\ runner' = Set(runner, p, None)
          /\ \E D \in SUBSET {r \in Fresh(p) : r.sub} :
                results' = Set(results, p, results[p] \ D)
       \/ FailedCall(p) /\ UNCHANGED results
    /\ Go(p, "between")
    /\ UNCHANGED <<serverVars, diskVars, record, app, procVars, claimVars, runVars, counts,
                   history>>

\* collect_payloads: the results that were not there before, read off the
\* phone.  None, or one that does not read, fails the job.
Collect(p) ==
    /\ pc[p] = "collect"
    /\ \/ /\ runner' = Set(runner, p, None)
          /\ Fresh(p) # {}
          /\ todo' = Set(todo, p, Fresh(p))
          /\ Go(p, "submit")
       \/ /\ FailedCall(p)
          /\ Go(p, "report")
          /\ UNCHANGED todo
    /\ UNCHANGED <<serverVars, diskVars, record, app, results, procVars, claimVars, before,
                   beating, lost, halt, counts, history>>

Holds(p) == job[p] \in open /\ holder[job[p]] \in {p, None}

\* One result leaves the phone; or deleting it fails.
Delete(p, r) ==
    \/ results' = Set(results, p, results[p] \ {r})
    \/ UNCHANGED results

\* Mutant: the phone's copy goes whatever the server answered.
MutSettle(p, r) ==
    /\ pc[p] = "submit"
    /\ r \in todo[p]
    /\ todo' = Set(todo, p, todo[p] \ {r})
    /\ runner' = Set(runner, p, None)
    /\ posted' = IF r.sub THEN posted ELSE posted \cup {<<r.run, num[p]>>}
    /\ Delete(p, r)
    /\ UNCHANGED <<serverVars, accepted, diskVars, record, app, procVars, pc, claimVars,
                   before, beating, lost, halt, counts, made, wiped>>

\* settle_collected: one the app uploaded is deleted.  Any other is posted
\* under the claim, reclaiming a lease that is gone, and deleted if it is
\* accepted; an answer that is lost leaves it, as a refusal does.
Settle(p, r) ==
    /\ pc[p] = "submit"
    /\ r \in todo[p]
    /\ todo' = Set(todo, p, todo[p] \ {r})
    /\ runner' = Set(runner, p, None)
    /\ posted' = IF r.sub THEN posted ELSE posted \cup {<<r.run, num[p]>>}
    /\ \/ /\ r.sub
          /\ Delete(p, r)
          /\ UNCHANGED <<serverVars, accepted>>
       \/ /\ ~ r.sub /\ Holds(p)
          /\ open' = open \ {job[p]}
          /\ holder' = Set(holder, job[p], None)
          /\ accepted' = accepted \cup {r.run}
          /\ Delete(p, r)
       \/ /\ ~ r.sub
          /\ UNCHANGED <<serverVars, accepted, results>>
    /\ UNCHANGED <<diskVars, record, app, procVars, pc, claimVars, before, beating, lost,
                   halt, counts, made, wiped>>

Settled(p) ==
    /\ pc[p] = "submit"
    /\ todo[p] = {}
    /\ Go(p, "between")
    /\ UNCHANGED <<serverVars, diskVars, record, phoneVars, procVars, claimVars, runVars,
                   counts, history>>

\* submit_failure: the job is closed or given back, unless the server dropped
\* the report or never had it; and a halted phone stops.
Report(p) ==
    /\ pc[p] = "report"
    /\ \/ /\ Holds(p)
          /\ holder' = Set(holder, job[p], None)
          /\ open' \in {open, open \ {job[p]}}
       \/ UNCHANGED serverVars
    /\ Go(p, IF p \in halt THEN "dead" ELSE "between")
    /\ UNCHANGED <<diskVars, record, phoneVars, procVars, claimVars, runVars, counts,
                   history>>

\* The job is over: the thread leaves at max_jobs, or reports the profile
\* again (which may fail and start it anew) and claims the next.
Between(p) ==
    /\ pc[p] = "between"
    /\ job' = Set(job, p, None)
    /\ num' = Set(num, p, 0)
    /\ before' = Set(before, p, {})
    /\ lost' = lost \ {p}
    /\ IF MaxJobs > 0 /\ taken[p] >= MaxJobs
       THEN Go(p, "done")
       ELSE \E to \in {"claim"} \cup (IF stop THEN {} ELSE {"start"}) : Go(p, to)
    /\ UNCHANGED <<serverVars, diskVars, record, phoneVars, procVars, taken, beating, halt,
                   todo, counts, history>>

-----------------------------------------------------------------------------
(* The app on the phone. *)

\* A result is written.
AppWrites(p) ==
    /\ runner[p] # None
    /\ runner[p].at = "working"
    /\ results' = Set(results, p,
                      results[p] \cup {[run |-> runner[p].run, job |-> runner[p].job,
                                        sub |-> FALSE]})
    /\ made' = made \cup {runner[p].run}
    /\ runner' = [runner EXCEPT ![p].at = "written"]
    /\ UNCHANGED <<serverVars, diskVars, record, app, procVars, pc, claimVars, runVars,
                   counts, accepted, wiped, posted>>

\* The app posts it under the claim, which closes the job.  The app may not
\* learn of it, or the server refuses.
AppUploads(p) ==
    /\ runner[p] # None
    /\ runner[p].at = "written"
    /\ LET j == runner[p].job
           r == [run |-> runner[p].run, job |-> j, sub |-> FALSE]
       IN  \/ /\ j \in open
              /\ holder[j] = p
              /\ open' = open \ {j}
              /\ holder' = Set(holder, j, None)
              /\ accepted' = accepted \cup {r.run}
              /\ \/ /\ results' = Set(results, p,
                                      (results[p] \ {r}) \cup {[r EXCEPT !.sub = TRUE]})
                    /\ runner' = [runner EXCEPT ![p].at = "uploaded"]
                 \/ /\ runner' = [runner EXCEPT ![p].at = "finished"]
                    /\ UNCHANGED results
           \/ /\ runner' = [runner EXCEPT ![p].at = "finished"]
              /\ UNCHANGED <<serverVars, accepted, results>>
    /\ UNCHANGED <<diskVars, record, app, procVars, pc, claimVars, runVars, counts, made,
                   wiped, posted>>

\* Its line about the upload reaches the thread that launched it, and stops
\* the heartbeat.
AppReports(p) ==
    /\ runner[p] # None
    /\ runner[p].at = "uploaded"
    /\ runner' = [runner EXCEPT ![p].at = "finished"]
    /\ beating' = IF pc[p] = "run" /\ num[p] = runner[p].run THEN beating \ {p} ELSE beating
    /\ UNCHANGED <<serverVars, diskVars, record, app, results, procVars, pc, claimVars,
                   before, lost, halt, todo, counts, history>>

\* The app exits, or iOS ends it, or the watchdog's one request to terminate
\* it reaches the phone.
AppExits(p) ==
    /\ runner[p] # None
    /\ runner' = Set(runner, p, None)
    /\ UNCHANGED <<serverVars, diskVars, record, app, results, procVars, pc, claimVars,
                   runVars, counts, history>>

-----------------------------------------------------------------------------
(* The process. *)

\* `run` starts, and has the phones' locks.
Start ==
    /\ proc = "down"
    /\ proc' = "scan"
    /\ unread' = Paths
    /\ stop' = FALSE
    /\ last' = None
    /\ UNCHANGED <<serverVars, diskVars, record, phoneVars, reading, pc, claimVars, runVars,
                   counts, history>>

Current(b) == index[b] # None /\ index[b].stamp = disk[b]

\* Pool::refresh passes over a build it knows.
Known(b) ==
    /\ proc = "scan"
    /\ b \in unread
    /\ Current(b)
    /\ unread' = unread \ {b}
    /\ UNCHANGED <<serverVars, diskVars, record, phoneVars, proc, reading, last, stop, pc,
                   claimVars, runVars, counts, history>>

\* It meets a build that is new or changed: its stamp is taken, and
\* the first phone's record forgotten.
ReadBegins(b) ==
    /\ proc = "scan"
    /\ b \in unread
    /\ ~ Current(b)
    /\ unread' = unread \ {b}
    /\ reading' = [path |-> b, stamp |-> disk[b]]
    /\ record' = Set(record, First, None)
    /\ proc' = "read"
    /\ UNCHANGED <<serverVars, diskVars, phoneVars, last, stop, pc, claimVars, runVars,
                   counts, history>>

\* read_build installs it ...
ReadInstalls ==
    /\ proc = "read"
    /\ app' = Set(app, First, Bundle(reading.path))
    /\ runner' = Set(runner, First, None)
    /\ proc' = "learn"
    /\ UNCHANGED <<serverVars, diskVars, record, results, unread, reading, last, stop, pc, claimVars,
                   runVars, counts, history>>

\* ... and asks it for its runtimes, which go into the index with the stamp.
ReadEnds ==
    /\ proc = "learn"
    /\ app[First] # None
    /\ index' = Set(index, reading.path,
                    [stamp |-> reading.stamp, read |-> app[First].bundle])
    /\ last' = reading.path
    /\ reading' = None
    /\ proc' = "scan"
    /\ UNCHANGED <<serverVars, disk, record, phoneVars, unread, stop, pc, claimVars, runVars, counts,
                   history>>

\* A step of the refresh fails, and `run` with it.
ReadFails ==
    /\ proc \in {"scan", "read", "learn"}
    /\ proc' = "down"
    /\ unread' = {}
    /\ reading' = None
    /\ last' = None
    /\ UNCHANGED <<serverVars, diskVars, record, phoneVars, stop, pc, claimVars, runVars,
                   counts, history>>

\* Every build is read: the last is on the first phone, and the threads start.
ScanEnds ==
    /\ proc = "scan"
    /\ unread = {}
    /\ record' = IF last = None THEN record ELSE Set(record, First, last)
    /\ proc' = "up"
    /\ last' = None
    /\ pc' = [p \in Phones |-> "start"]
    /\ UNCHANGED <<serverVars, diskVars, phoneVars, unread, reading, stop, claimVars, runVars,
                   counts, history>>

\* The process is gone, and with it all it held in memory.
Gone ==
    /\ proc' = "down"
    /\ unread' = {}
    /\ reading' = None
    /\ last' = None
    /\ pc' = [p \in Phones |-> "off"]
    /\ job' = [p \in Phones |-> None]
    /\ num' = [p \in Phones |-> 0]
    /\ taken' = [p \in Phones |-> 0]
    /\ before' = [p \in Phones |-> {}]
    /\ beating' = {}
    /\ lost' = {}
    /\ halt' = {}
    /\ todo' = [p \in Phones |-> {}]

\* Every thread has ended.
Ends ==
    /\ proc = "up"
    /\ \A p \in Phones : pc[p] \in {"done", "dead"}
    /\ Gone
    /\ UNCHANGED <<serverVars, diskVars, record, phoneVars, stop, counts, history>>

Fault == faults < MaxFaults /\ faults' = faults + 1

\* The process is killed; the app runs on.
Crash ==
    /\ proc # "down"
    /\ Fault
    /\ Gone
    /\ UNCHANGED <<serverVars, diskVars, record, phoneVars, stop, claims, lapses, history>>

\* The stop signal.  The handler is set before the phones are looked for.
Signal ==
    /\ proc # "down"
    /\ ~ stop
    /\ stop' = TRUE
    /\ UNCHANGED <<serverVars, diskVars, record, phoneVars, proc, unread, reading, last, pc,
                   claimVars, runVars, counts, history>>

-----------------------------------------------------------------------------
(* The server and the operator. *)

\* A lease runs out, or is relinquished.
LeaseLapses(j) ==
    /\ holder[j] # None
    /\ lapses < MaxLapses
    /\ lapses' = lapses + 1
    /\ holder' = Set(holder, j, None)
    /\ UNCHANGED <<open, diskVars, record, phoneVars, procVars, pc, claimVars, runVars,
                   claims, faults, history>>

\* A bundle is rebuilt in place.
Rebuild(b) ==
    /\ disk[b] < MaxBuild[b]
    /\ disk' = Set(disk, b, disk[b] + 1)
    /\ UNCHANGED <<serverVars, index, record, phoneVars, procVars, pc, claimVars, runVars,
                   counts, history>>

\* The app is deleted by hand, with what it kept.
DeleteApp(p) ==
    /\ app[p] # None
    /\ Fault
    /\ app' = Set(app, p, None)
    /\ runner' = Set(runner, p, None)
    /\ results' = Set(results, p, {})
    /\ wiped' = wiped \cup {r.run : r \in results[p]}
    /\ UNCHANGED <<serverVars, diskVars, record, procVars, pc, claimVars, runVars, claims,
                   lapses, made, accepted, posted>>

-----------------------------------------------------------------------------

Init ==
    /\ open = Jobs
    /\ holder = [j \in Jobs |-> None]
    /\ disk = [b \in Paths |-> 1]
    /\ index = [b \in Paths |-> None]
    /\ record = [p \in Phones |-> None]
    /\ app = [p \in Phones |-> None]
    /\ runner = [p \in Phones |-> None]
    /\ results = [p \in Phones |-> {}]
    /\ proc = "down"
    /\ unread = {}
    /\ reading = None
    /\ last = None
    /\ stop = FALSE
    /\ pc = [p \in Phones |-> "off"]
    /\ job = [p \in Phones |-> None]
    /\ num = [p \in Phones |-> 0]
    /\ taken = [p \in Phones |-> 0]
    /\ before = [p \in Phones |-> {}]
    /\ beating = {}
    /\ lost = {}
    /\ halt = {}
    /\ todo = [p \in Phones |-> {}]
    /\ claims = 0
    /\ lapses = 0
    /\ faults = 0
    /\ made = {}
    /\ accepted = {}
    /\ wiped = {}
    /\ posted = {}

\* What a thread does that is over when its calls to the server and to the
\* phone are.
Calls(p) ==
    \/ Connect(p) \/ Refused(p) \/ Looks(p) \/ Idle(p) \/ Check(p)
    \/ \E j \in Jobs : Claim(p, j)
    \/ NoBuild(p) \/ Present(p) \/ Forget(p) \/ Install(p) \/ InstallFails(p) \/ Verify(p)
    \/ Snapshot(p) \/ Launch(p) \/ SettleUploaded(p) \/ Collect(p)
    \/ \E r \in todo[p] : Settle(p, r)
    \/ Settled(p) \/ Report(p) \/ Between(p)

Thread(p) == Calls(p) \/ RunEnds(p)

App(p) == AppWrites(p) \/ AppUploads(p) \/ AppReports(p)

Process == Start \/ ReadInstalls \/ ReadEnds \/ ReadFails \/ ScanEnds \/ Ends
           \/ \E b \in Paths : Known(b) \/ ReadBegins(b)

Outside ==
    \/ Crash
    \/ Signal
    \/ \E j \in Jobs : LeaseLapses(j)
    \/ \E b \in Paths : Rebuild(b)
    \/ \E p \in Phones : DeleteApp(p)

Next ==
    \/ \E p \in Phones : Thread(p) \/ Beat(p) \/ App(p) \/ AppExits(p)
    \/ Process
    \/ Outside

Spec == Init /\ [][Next]_vars

\* Assumed of the server and of the phone: a call is answered or breaks off.
\* The code does not see to it.  The proxy's HTTP client has no timeout for a
\* request, "matching the CLI"; and a call to the phone that is past its deadline
\* is told to end, and then waited for without one.
CallsEnd == \A p \in Phones : WF_vars(Calls(p))

\* Assumed of devicectl and the phone: a launch ends, at the latest once it was
\* told to.  The watchdog sends one SIGTERM and one request to the phone, at the
\* deadline, a lost lease or a stop; if neither helps it goes on waiting.
LaunchesEnd == \A p \in Phones : WF_vars(RunEnds(p))

\* A process whose threads are all done exits.
FairSpec == Spec /\ CallsEnd /\ LaunchesEnd /\ WF_vars(Ends)

-----------------------------------------------------------------------------
(* Properties. *)

Threads == {"off", "start", "claim", "poll", "check", "install", "installing", "verify",
            "snapshot", "launch", "run", "settle", "collect", "submit", "report", "between",
            "done", "dead"}
Kept == [run : 1 .. MaxClaims, job : Jobs, sub : BOOLEAN]

\* The type invariant: the server, the Mac's disk, the phones, the process and
\* its threads, and what is counted.
ServerOK ==
    /\ open \subseteq Jobs
    /\ holder \in [Jobs -> Phones \cup {None}]

DiskOK ==
    /\ disk \in [Paths -> Nat \ {0}]
    /\ index \in [Paths -> {None} \cup [stamp : Nat \ {0}, read : Nat \ {0}]]
    /\ record \in [Phones -> Paths \cup {None}]

PhonesOK ==
    /\ app \in [Phones -> {None} \cup [path : Paths, bundle : Nat \ {0}]]
    /\ runner \in [Phones -> {None} \cup
                    [run : 1 .. MaxClaims, job : Jobs,
                     at : {"working", "written", "uploaded", "finished"}]]
    /\ results \in [Phones -> SUBSET Kept]

ProcOK ==
    /\ proc \in {"down", "scan", "read", "learn", "up"}
    /\ unread \subseteq Paths
    /\ reading \in {None} \cup [path : Paths, stamp : Nat \ {0}]
    /\ last \in Paths \cup {None}
    /\ stop \in BOOLEAN

ThreadsOK ==
    /\ pc \in [Phones -> Threads]
    /\ job \in [Phones -> Jobs \cup {None}]
    /\ num \in [Phones -> 0 .. MaxClaims]
    /\ taken \in [Phones -> Nat]
    /\ before \in [Phones -> SUBSET (1 .. MaxClaims)]
    /\ beating \subseteq Phones
    /\ lost \subseteq Phones
    /\ halt \subseteq Phones
    /\ todo \in [Phones -> SUBSET Kept]

CountsOK ==
    /\ claims \in 0 .. MaxClaims
    /\ lapses \in 0 .. MaxLapses
    /\ faults \in 0 .. MaxFaults

TypeOK == ServerOK /\ DiskOK /\ PhonesOK /\ ProcOK /\ ThreadsOK /\ CountsOK

\* A record names the build that is on the phone, or the phone has no app: no
\* kill, failed install or pool read leaves the name of a build that is not
\* there, which the next job would trust.
RecordHonest ==
    \A p \in Phones : record[p] # None => app[p] = None \/ app[p].path = record[p]

\* What the proxy posts under a claim is what that claim's run measured, though
\* a result's own id says nothing of it and an app left by a killed process may
\* write one at any time.
PostsOwnRun == \A q \in posted : q[1] = q[2]

\* A result stays on the phone until the server has it: no refusal, lost lease,
\* lost answer or kill loses a measurement.
KeptUntilAccepted ==
    \A n \in made :
        n \in accepted \cup wiped \/ \E p \in Phones : \E r \in results[p] : r.run = n

\* Once a thread decides to post a result or a failure, its heartbeat cannot
\* find the lease lost under it.
SettledBeforePost ==
    \A p \in Phones : pc[p] \in {"collect", "submit", "report"} => p \notin lost \cup beating

\* A stop ends the process, whatever the phones are in the middle of, if the
\* calls and launches in progress end: no wait misses the flag, and no thread
\* starts work that keeps the others from being joined.
StopEnds == [](stop /\ proc = "up" => <>(proc = "down"))

\* "the build providing it is the one that can run it": the app a job is
\* launched on is the bundle the pool read, when the pool has not changed since.
LaunchesWhatWasRead ==
    \A p \in Phones :
        pc[p] = "launch" /\ app[p] # None =>
            LET b == Build(index, job[p])
            IN  index[b].stamp # disk[b] \/ index[b].read # disk[b]
                \/ app[p] = Bundle(b)

-----------------------------------------------------------------------------
(* The inductive invariant behind the safety properties. *)

Idling == {"off", "start", "claim", "poll", "between", "done", "dead"}
Busy == Threads \ Idling

HasBuild(p, b) == app[p] = None \/ app[p].path = b

\* What a thread has in its hands at each of its steps: a job from the claim on,
\* a heartbeat only while the app is launched and runs, no lost lease it has not
\* acted on.
InHand ==
    \A p \in Phones :
        /\ pc[p] \in Busy => job[p] \in Jobs /\ num[p] \in 1 .. MaxClaims
        /\ p \in beating => pc[p] \in {"launch", "run"}
        /\ p \in lost => pc[p] \in {"launch", "run", "settle", "between"}

\* While a thread changes the app there is no record, and the build it chose is
\* on the phone before it is put on record.
Chosen ==
    \A p \in Phones :
        /\ pc[p] \in {"installing", "verify"}
            => Providers(index, job[p]) # {} /\ record[p] = None
        /\ pc[p] = "verify" => HasBuild(p, Build(index, job[p]))

\* The pool is read before any thread starts, so the index the threads choose
\* from does not change under them; the build read last is on the first phone.
PoolFirst ==
    /\ proc # "up" => \A p \in Phones : pc[p] = "off"
    /\ proc \in {"read", "learn"} => /\ reading \in [path : Paths, stamp : Nat \ {0}]
                                     /\ record[First] = None
    /\ proc = "learn" => HasBuild(First, reading.path)
    /\ proc = "scan" /\ last # None => HasBuild(First, last)

\* Once the list of results is taken the app runs for the claim its thread has,
\* also when it outlives its launch, or not at all; so what is not on the list
\* is the claim's own.
OwnRun ==
    \A p \in Phones :
        /\ pc[p] \in {"launch", "submit"} => runner[p] = None
        /\ pc[p] \in {"run", "settle", "collect"} /\ runner[p] # None
            => runner[p].run = num[p]
        /\ pc[p] \in {"launch", "run", "settle", "collect"}
            => \A r \in Fresh(p) : r.run = num[p]
        /\ pc[p] = "submit" => \A r \in todo[p] : r.run = num[p]

\* What is marked as uploaded was accepted.
UploadsAccepted ==
    \A p \in Phones :
        \A r \in results[p] \cup (IF pc[p] = "submit" THEN todo[p] ELSE {}) :
            r.sub => r.run \in accepted

IInv ==
    /\ TypeOK
    /\ InHand
    /\ Chosen
    /\ PoolFirst
    /\ RecordHonest
    /\ OwnRun
    /\ PostsOwnRun
    /\ UploadsAccepted
    /\ KeptUntilAccepted

=============================================================================
