------------------------------- MODULE Worker -------------------------------
(***************************************************************************)
(* `pipette worker`: the planner claim loop of pipette-cli                 *)
(* (commands/worker.rs, client/worker/{protocol,in_flight,timing}.rs) with *)
(* everything that runs beside the main thread:                            *)
(*                                                                         *)
(*   - the lease heartbeat thread of the job (spawn_heartbeat);            *)
(*   - the in-flight marker, its refresh thread and its teardown           *)
(*     (InFlightRun), the record that survives a reboot;                   *)
(*   - the signal handler and the closed-output watcher                    *)
(*     (pipette-subprocess/cleanup.rs), which run registered teardowns on  *)
(*     their own thread while the main thread goes on;                     *)
(*   - SIGKILL, power loss and the restart of the worker;                  *)
(*   - the management server (external: modelled from the answers the code *)
(*     distinguishes), whose leases lapse and pass to other clients.       *)
(*                                                                         *)
(* One action is one stretch of the code between two points where another  *)
(* thread, the server or a crash can get in.                               *)
(***************************************************************************)
EXTENDS Naturals, FiniteSets

CONSTANTS
    Jobs,          \* job ids the server can hand out
    NoJob,         \* not a job id
    Attempts,      \* ATTEMPTS of submit_plan_result_with_backoff (32)
    MaxJobs,       \* --max-jobs, 0 for no limit
    RebootWindow,  \* REBOOT_WINDOW, in clock units
    BootIdKnown,   \* whether the host has a readable boot id (Linux, Android)
    MarkerFaults,  \* whether reading or writing the marker may fail
    OtherClients,  \* whether other clients take jobs from the same queue
    MaxClock,      \* bound on the wall clock
    MaxBoot        \* bound on the number of boots

ASSUME NoJobAssumption == NoJob \notin Jobs
ASSUME BoundsAssumption ==
    /\ Attempts \in Nat \ {0}
    /\ MaxJobs \in Nat
    /\ RebootWindow \in Nat
    /\ MaxClock \in Nat
    /\ MaxBoot \in Nat \ {0}
ASSUME FlagsAssumption ==
    /\ BootIdKnown \in BOOLEAN
    /\ MarkerFaults \in BOOLEAN
    /\ OtherClients \in BOOLEAN

VARIABLES
    srv,        \* job -> where the server has it
    held,       \* jobs whose result from this worker the server accepted
    marker,     \* in-flight.json, NoMarker when there is none
    filed,      \* jobs with a RemoteSynced result in the workspace
    ckpt,       \* jobs with an eval checkpoint in the workspace
    clock,      \* wall clock
    boot,       \* current boot
    bootAt,     \* when the current boot started
    pc,         \* where the worker's main thread is, "off" without a process
    job,        \* the claimed job
    stop,       \* the stop flag the signal handler sets
    completed,  \* jobs answered by this process
    inflight,   \* the InFlightRun of the job
    closing,    \* its `closing` mutex
    beat,       \* its refresh thread runs
    child,      \* an engine is up, its unbounded teardown registered
    result,     \* outcome of execute_job
    hb,         \* lease heartbeat thread
    lost,       \* the lease_lost flag
    body,       \* what is being posted
    tries,      \* submit attempts made
    draining,   \* who took the teardowns before an exit
    pending,    \* teardowns taken and not yet run
    killed,     \* the run's engine was killed by a teardown
    \* History, read by the properties and by no action:
    answered,   \* jobs whose success post the server answered for good
    cut,        \* jobs whose marked run died with its process
    cutAlive    \* the job a power loss interrupted within the window

serverVars == <<srv, held>>
diskVars   == <<marker, filed, ckpt>>
clockVars  == <<clock, boot, bootAt>>
loopVars   == <<pc, job, completed>>
markVars   == <<inflight, closing, beat>>
runVars    == <<child, result>>
leaseVars  == <<hb, lost>>
postVars   == <<body, tries>>
drainVars  == <<stop, draining, pending>>
historyVars == <<answered, cut, cutAlive, killed>>
vars == <<serverVars, diskVars, clockVars, loopVars, markVars, runVars,
          leaseVars, postVars, drainVars, historyVars>>

-----------------------------------------------------------------------------
(* Types                                                                   *)

Where == {"queued", "leased", "other", "closed"}
PC == {"off", "profile", "loop", "claim", "cwait", "idle", "decide",
       "register", "mark", "gate", "bench", "join", "disarm", "submit",
       "post", "reclaim", "pwait", "file", "retire"}
Results == {"none", "ok", "retry", "fatal", "touch", "cancelled"}
Bodies == {"none", "success", "retry", "fatal", "reboot", "refused"}
Teardowns == {"marker", "oldmarker", "child"}

Clock == 0 .. MaxClock
Boots == 1 .. MaxBoot
NoMarker == [job |-> NoJob, boot |-> 1, alive |-> 0]
Markers == [job : Jobs \cup {NoJob}, boot : Boots, alive : Clock]

StateOK ==
    /\ srv \in [Jobs -> Where]
    /\ held \in SUBSET Jobs
    /\ marker \in Markers
    /\ filed \in SUBSET Jobs
    /\ ckpt \in SUBSET Jobs
    /\ clock \in Clock
    /\ boot \in Boots
    /\ bootAt \in Clock
    /\ pc \in PC
    /\ job \in Jobs \cup {NoJob}
    /\ completed \in 0 .. MaxJobs
    /\ inflight \in {"none", "registered", "live"}
    /\ result \in Results
    /\ hb \in {"none", "wait", "reclaim", "ended"}
    /\ body \in Bodies
    /\ tries \in 0 .. Attempts
    /\ draining \in {"no", "signal", "output"}
    /\ pending \in SUBSET Teardowns
    /\ answered \in SUBSET Jobs
    /\ cut \in SUBSET Jobs
    /\ cutAlive \in Jobs \cup {NoJob}

FlagsOK ==
    /\ stop \in BOOLEAN
    /\ closing \in BOOLEAN
    /\ beat \in BOOLEAN
    /\ child \in BOOLEAN
    /\ lost \in BOOLEAN
    /\ killed \in BOOLEAN

TypeOK == StateOK /\ FlagsOK

Init ==
    /\ srv = [j \in Jobs |-> "queued"]
    /\ held = {}
    /\ marker = NoMarker /\ filed = {} /\ ckpt = {}
    /\ clock = 0 /\ boot = 1 /\ bootAt = 0
    /\ pc = "off" /\ job = NoJob /\ completed = 0
    /\ inflight = "none" /\ closing = FALSE /\ beat = FALSE
    /\ child = FALSE /\ result = "none"
    /\ hb = "none" /\ lost = FALSE
    /\ body = "none" /\ tries = 0
    /\ stop = FALSE /\ draining = "no" /\ pending = {}
    /\ answered = {} /\ cut = {} /\ cutAlive = NoJob /\ killed = FALSE

-----------------------------------------------------------------------------
(* Helpers                                                                 *)

\* The process is gone: everything it kept in memory goes with it.
ProcessEnds ==
    /\ pc' = "off" /\ job' = NoJob /\ completed' = 0
    /\ inflight' = "none" /\ closing' = FALSE /\ beat' = FALSE
    /\ child' = FALSE /\ result' = "none"
    /\ hb' = "none" /\ lost' = FALSE
    /\ body' = "none" /\ tries' = 0
    /\ stop' = FALSE /\ draining' = "no" /\ pending' = {}
    /\ killed' = FALSE

\* The main thread returns from the claim loop, Ok or Err, between jobs.
Leave ==
    /\ ProcessEnds
    /\ UNCHANGED <<serverVars, diskVars, clockVars, answered, cut, cutAlive>>

\* A run that held its marker dies with it: the marker is left as evidence.
Abandoned == IF inflight = "live" /\ ~closing THEN cut \cup {job} ELSE cut

\* A stop or a teardown of the job's own InFlightRun retires that evidence.
Retired == cut \ {job}

\* Jobs a claim may hand out: a live lease hands the same job back.
Claimable ==
    LET mine == {j \in Jobs : srv[j] = "leased"}
    IN  IF mine # {} THEN mine ELSE {j \in Jobs : srv[j] = "queued"}

\* An off-by-one at the edge of the window.
MutDecide(seen) ==
    IF seen = NoMarker THEN "Run"
    ELSE IF seen.job # job THEN "StaleJob"
    ELSE IF ~BootIdKnown \/ seen.boot = boot THEN "SameBoot"
    ELSE IF seen.alive + RebootWindow > bootAt THEN "Rebooted"
    ELSE "EarlierBoot"

decide(seen) ==
    IF seen = NoMarker THEN "Run"
    ELSE IF seen.job # job THEN "StaleJob"
    ELSE IF ~BootIdKnown \/ seen.boot = boot THEN "SameBoot"
    ELSE IF seen.alive + RebootWindow >= bootAt THEN "Rebooted"
    ELSE "EarlierBoot"

\* The outcome of a claimed job was Ok: count it, leave at --max-jobs.
Reached == MaxJobs > 0 /\ completed + 1 >= MaxJobs
NextJob ==
    /\ pc' = "loop" /\ job' = NoJob
    /\ completed' = IF MaxJobs > 0 THEN completed + 1 ELSE completed
    /\ body' = "none" /\ tries' = 0 /\ result' = "none" /\ lost' = FALSE
    /\ UNCHANGED <<markVars, child, hb, drainVars, killed>>
JobDone == IF Reached THEN ProcessEnds ELSE NextJob

-----------------------------------------------------------------------------
(* The main thread: startup and the claim                                  *)

\* WorkerArgs::execute registers a fresh stop flag.
StartWorker ==
    /\ pc = "off"
    /\ pc' = "profile"
    /\ UNCHANGED <<serverVars, diskVars, clockVars, job, completed, markVars,
                   runVars, leaseVars, postVars, drainVars, historyVars>>

\* The startup profile gate: ready or skipped, or the worker leaves because a
\* wait read the stop flag, or because the client may not claim.
ProfileReady ==
    /\ pc = "profile"
    /\ pc' = "loop"
    /\ UNCHANGED <<serverVars, diskVars, clockVars, job, completed, markVars,
                   runVars, leaseVars, postVars, drainVars, historyVars>>

ProfileStops == pc = "profile" /\ Leave

LoopTop ==
    /\ pc = "loop"
    /\ IF stop
       THEN Leave
       ELSE /\ pc' = "claim"
            /\ UNCHANGED <<serverVars, diskVars, clockVars, job, completed,
                           markVars, runVars, leaseVars, postVars, drainVars,
                           historyVars>>

ClaimJob ==
    /\ pc = "claim"
    /\ \E j \in Claimable :
        /\ srv' = [srv EXCEPT ![j] = "leased"]
        /\ job' = j
    /\ pc' = "decide"
    /\ UNCHANGED <<held, diskVars, clockVars, completed, markVars, runVars,
                   leaseVars, postVars, drainVars, historyVars>>

\* 204: nothing this device matches. A live lease is always handed back.
ClaimIdle ==
    /\ pc = "claim"
    /\ \A j \in Jobs : srv[j] # "leased"
    /\ pc' = "idle"
    /\ UNCHANGED <<serverVars, diskVars, clockVars, job, completed, markVars,
                   runVars, leaseVars, postVars, drainVars, historyVars>>

\* 403, or an answer the loop cannot act on.
ClaimRefused == pc = "claim" /\ Leave

\* 5xx or network; the server may have granted a lease nobody heard of.
ClaimTransient ==
    /\ pc = "claim"
    /\ \/ srv' = srv
       \/ \E j \in Claimable : srv' = [srv EXCEPT ![j] = "leased"]
    /\ pc' = "cwait"
    /\ UNCHANGED <<held, diskVars, clockVars, job, completed, markVars,
                   runVars, leaseVars, postVars, drainVars, historyVars>>

\* A backoff that does not look at the stop flag.
MutClaimBackoff ==
    /\ pc \in {"cwait", "idle"}
    /\ pc' = IF pc = "cwait" THEN "claim" ELSE "loop"
    /\ UNCHANGED <<serverVars, diskVars, clockVars, job, completed, markVars,
                   runVars, leaseVars, postVars, drainVars, historyVars>>

\* The interruptible waits of claim_with_retry and of an idle round.
ClaimBackoff ==
    /\ pc \in {"cwait", "idle"}
    /\ IF stop
       THEN Leave
       ELSE /\ pc' = IF pc = "cwait" THEN "claim" ELSE "loop"
            /\ UNCHANGED <<serverVars, diskVars, clockVars, job, completed,
                           markVars, runVars, leaseVars, postVars, drainVars,
                           historyVars>>

\* Read the marker and decide what the claim is: a job that a reboot
\* interrupted is reported, any other is run.
DecideClaim ==
    /\ pc = "decide"
    /\ \E seen \in IF MarkerFaults THEN {marker, NoMarker} ELSE {marker} :
        IF decide(seen) = "Rebooted"
        THEN pc' = "post" /\ body' = "reboot" /\ tries' = 1
        ELSE pc' = "register" /\ UNCHANGED <<body, tries>>
    /\ UNCHANGED <<serverVars, diskVars, clockVars, job, completed, markVars,
                   runVars, leaseVars, drainVars, historyVars>>

-----------------------------------------------------------------------------
(* The main thread: one run                                                *)

\* InFlightRun::start registers its bounded teardown before it writes.
RegisterTeardown ==
    /\ pc = "register"
    /\ pc' = "mark"
    /\ inflight' = "registered" /\ closing' = FALSE
    /\ UNCHANGED <<serverVars, diskVars, clockVars, job, completed, beat,
                   runVars, leaseVars, postVars, drainVars, historyVars>>

\* The closure of a run that went away still removes the marker by its path.
Disowned == IF "marker" \in pending
            THEN (pending \ {"marker"}) \cup {"oldmarker"} ELSE pending

\* Under the `closing` lock: a teardown or a stop that came first leaves the
\* run without a marker, as a failed write does.
MarkerWritten ==
    /\ ~closing /\ ~stop
    /\ marker' = [job |-> job, boot |-> boot, alive |-> clock]
    /\ inflight' = "live" /\ beat' = TRUE
    /\ cutAlive' = IF cutAlive = job THEN cutAlive ELSE NoJob
    /\ UNCHANGED pending

\* The first form keeps a marker the refused start found; a refresh thread
\* that does not start drops the InFlightRun, which removes what it wrote.
MarkerRefused ==
    /\ \/ (closing \/ stop \/ MarkerFaults) /\ UNCHANGED marker
       \/ MarkerFaults /\ ~closing /\ ~stop /\ marker' = NoMarker
    /\ inflight' = "none" /\ beat' = FALSE
    /\ pending' = Disowned
    /\ UNCHANGED cutAlive

\* Then run_claimed_job starts the lease heartbeat and the run.
MarkRun ==
    /\ pc = "mark"
    /\ MarkerWritten \/ MarkerRefused
    /\ pc' = "gate"
    /\ hb' = "wait" /\ lost' = FALSE
    /\ killed' = FALSE
    /\ UNCHANGED <<serverVars, filed, ckpt, clockVars, job, completed, closing,
                   runVars, postVars, stop, draining, answered, cut>>

\* The engine starts, its teardown registered with it; an eval's completions
\* reach its checkpoint from here on.
StartEngine ==
    /\ pc = "gate"
    /\ pc' = "bench"
    /\ child' = TRUE
    /\ ckpt' \in {ckpt, ckpt \cup {job}}
    /\ UNCHANGED <<serverVars, marker, filed, clockVars, job, completed,
                   markVars, result, leaseVars, postVars, drainVars,
                   historyVars>>

\* execute_job returns. Before the engine is up it can fail, or be cancelled by
\* the readiness gate that reads the stop flag; an engine a teardown killed
\* ends the run in an error.
RunOutcomes ==
    IF pc = "gate" THEN {"retry", "fatal", "touch"}
    ELSE IF killed THEN {"retry", "fatal"}
    ELSE {"ok", "retry", "fatal", "touch"}

FinishRun ==
    /\ pc \in {"gate", "bench"}
    /\ result' \in RunOutcomes \cup (IF stop THEN {"cancelled"} ELSE {})
    /\ child' = FALSE
    /\ pending' = pending \ {"child"}
    /\ pc' = "join"
    /\ UNCHANGED <<serverVars, diskVars, clockVars, job, completed, markVars,
                   leaseVars, postVars, stop, draining, answered, cut,
                   cutAlive, killed>>

\* The guard is dropped without the join.
MutJoinHeartbeat ==
    /\ pc = "join"
    /\ pc' = "disarm"
    /\ UNCHANGED <<serverVars, diskVars, clockVars, job, completed, markVars,
                   runVars, hb, lost, postVars, drainVars, historyVars>>

\* drop(hb): disconnect, then wait for a call in flight.
JoinHeartbeat ==
    /\ pc = "join"
    /\ hb \in {"wait", "ended"}
    /\ hb' = "none"
    /\ pc' = "disarm"
    /\ UNCHANGED <<serverVars, diskVars, clockVars, job, completed, markVars,
                   runVars, lost, postVars, drainVars, historyVars>>

\* Mutant: the run's end stops the refresh and keeps the record.
MutDisarm ==
    /\ pc = "disarm"
    /\ cut' = IF inflight = "live" THEN Retired ELSE cut
    /\ inflight' = "none" /\ beat' = FALSE
    /\ pending' = Disowned
    /\ pc' = "submit"
    /\ UNCHANGED <<serverVars, diskVars, clockVars, job, completed, closing, runVars,
                   leaseVars, postVars, stop, draining, answered, cutAlive, killed>>

\* drop(in_flight), before the submit: stop the refresh thread, remove the
\* marker, deregister the teardown.
Disarm ==
    /\ pc = "disarm"
    /\ IF inflight = "live"
       THEN marker' = NoMarker /\ cut' = Retired
       ELSE UNCHANGED <<marker, cut>>
    /\ inflight' = "none" /\ beat' = FALSE
    /\ pending' = Disowned
    /\ pc' = "submit"
    /\ UNCHANGED <<serverVars, filed, ckpt, clockVars, job, completed,
                   closing, runVars, leaseVars, postVars, stop, draining,
                   answered, cutAlive, killed>>

-----------------------------------------------------------------------------
(* The main thread: the submit                                             *)

\* What a finished run owes the server, in the order submit_finished_run
\* tests it: a held touch stops the worker, a lost lease and a cancelled run
\* report nothing, a result or a failure is posted.
HeldTouch == pc = "submit" /\ result = "touch" /\ Leave

SkipSubmit ==
    /\ pc = "submit"
    /\ result # "touch"
    /\ lost \/ (result = "cancelled" /\ stop)
    /\ JobDone
    /\ UNCHANGED <<serverVars, diskVars, clockVars, answered, cut, cutAlive>>

SubmitFinishedRun ==
    /\ pc = "submit"
    /\ result # "touch"
    /\ ~lost
    /\ ~(result = "cancelled" /\ stop)
    /\ body' = CASE result = "ok" -> "success"
                 [] result = "fatal" -> "fatal"
                 [] OTHER -> "retry"
    /\ tries' = 1
    /\ pc' = "post"
    /\ UNCHANGED <<serverVars, diskVars, clockVars, job, completed, markVars,
                   runVars, leaseVars, drainVars, historyVars>>

\* What the server does with a body it accepts (202).
Accept ==
    /\ srv' = [srv EXCEPT ![job] = IF body \in {"retry", "refused"}
                                   THEN "queued" ELSE "closed"]
    /\ held' = IF body = "success" THEN held \cup {job} ELSE held

\* post_completion answers Ok(true): a result is filed next, a delivered
\* reboot report removes its marker.
Delivered ==
    IF body = "success"
    THEN /\ pc' = "file"
         /\ answered' = answered \cup {job}
         /\ UNCHANGED <<job, completed, markVars, runVars, leaseVars, postVars,
                        drainVars, killed, marker, cutAlive>>
    ELSE /\ JobDone
         /\ IF body = "reboot"
            THEN marker' = NoMarker /\ cutAlive' = NoJob
            ELSE UNCHANGED <<marker, cutAlive>>
         /\ UNCHANGED answered

\* An undelivered result is filed as if the server held it.
MutUndelivered ==
    IF body = "success"
    THEN /\ pc' = "file"
         /\ UNCHANGED <<job, completed, markVars, runVars, leaseVars, postVars,
                        drainVars, killed, marker, cutAlive, answered>>
    ELSE JobDone /\ UNCHANGED <<marker, cutAlive, answered>>

\* An undelivered reboot report forgets its marker.
MutUndeliveredReboot ==
    /\ JobDone
    /\ marker' = IF body = "reboot" THEN NoMarker ELSE marker
    /\ UNCHANGED <<cutAlive, answered>>

\* Ok(false): the outcome is dropped, the marker of a reboot report kept.
Undelivered == JobDone /\ UNCHANGED <<marker, cutAlive, answered>>

PostAccepted ==
    /\ pc = "post"
    /\ srv[job] = "leased"
    /\ Accept
    /\ Delivered
    /\ UNCHANGED <<filed, ckpt, clockVars, cut>>

\* 409: another client holds the job or it is settled.
PostSuperseded ==
    /\ pc = "post"
    /\ srv[job] \in {"other", "closed"}
    /\ Delivered
    /\ UNCHANGED <<serverVars, filed, ckpt, clockVars, cut>>

\* 404: no live lease, so reclaim once.
PostNotFound ==
    /\ pc = "post"
    /\ srv[job] # "leased"
    /\ pc' = "reclaim"
    /\ UNCHANGED <<serverVars, diskVars, clockVars, job, completed, markVars,
                   runVars, leaseVars, postVars, drainVars, historyVars>>

\* 5xx or network, before or after the server took the body.
PostTransient ==
    /\ pc = "post"
    /\ \/ UNCHANGED serverVars
       \/ srv[job] = "leased" /\ Accept
    /\ pc' = "pwait"
    /\ UNCHANGED <<diskVars, clockVars, job, completed, markVars, runVars,
                   leaseVars, postVars, drainVars, historyVars>>

\* A definitive refusal: a result is reported again as a retriable failure; a
\* refused report stops the worker.
PostRefused ==
    /\ pc = "post"
    /\ IF body = "success"
       THEN /\ body' = "refused" /\ tries' = 1
            /\ UNCHANGED <<loopVars, markVars, runVars, leaseVars, drainVars,
                           historyVars>>
       ELSE /\ ProcessEnds
            /\ UNCHANGED <<answered, cut, cutAlive>>
    /\ UNCHANGED <<serverVars, diskVars, clockVars>>

\* The reclaim after a 404.
ReclaimOk ==
    /\ pc = "reclaim"
    /\ srv[job] = "queued"
    /\ srv' = [srv EXCEPT ![job] = "leased"]
    /\ pc' = "pwait"
    /\ UNCHANGED <<held, diskVars, clockVars, job, completed, markVars,
                   runVars, leaseVars, postVars, drainVars, historyVars>>

ReclaimTransient ==
    /\ pc = "reclaim"
    /\ \/ srv' = srv
       \/ srv[job] = "queued" /\ srv' = [srv EXCEPT ![job] = "leased"]
    /\ pc' = "pwait"
    /\ UNCHANGED <<held, diskVars, clockVars, job, completed, markVars,
                   runVars, leaseVars, postVars, drainVars, historyVars>>

\* 404, 409 or any other refusal: the report is dropped, and counts as
\* delivered.
ReclaimRefused ==
    /\ pc = "reclaim"
    /\ Delivered
    /\ UNCHANGED <<serverVars, filed, ckpt, clockVars, cut>>

\* One attempt too many.
MutSubmitBackoff ==
    /\ pc = "pwait"
    /\ IF stop \/ tries > Attempts
       THEN /\ Undelivered
            /\ UNCHANGED <<serverVars, filed, ckpt, clockVars, cut>>
       ELSE /\ pc' = "post" /\ tries' = tries + 1
            /\ UNCHANGED <<serverVars, diskVars, clockVars, job, completed,
                           markVars, runVars, leaseVars, body, drainVars,
                           historyVars>>

\* The wait after an attempt without an answer: a stop or the last attempt
\* gives up.
SubmitBackoff ==
    /\ pc = "pwait"
    /\ IF stop \/ tries = Attempts
       THEN /\ Undelivered
            /\ UNCHANGED <<serverVars, filed, ckpt, clockVars, cut>>
       ELSE /\ pc' = "post" /\ tries' = tries + 1
            /\ UNCHANGED <<serverVars, diskVars, clockVars, job, completed,
                           markVars, runVars, leaseVars, body, drainVars,
                           historyVars>>

\* store_completed_result, best effort.
StoreResult ==
    /\ pc = "file"
    /\ pc' = "retire"
    /\ filed' \in {filed, filed \cup {job}}
    /\ UNCHANGED <<serverVars, marker, ckpt, clockVars, job, completed,
                   markVars, runVars, leaseVars, postVars, drainVars,
                   historyVars>>

\* finalize_eval_checkpoint.
RetireCheckpoint ==
    /\ pc = "retire"
    /\ ckpt' = ckpt \ {job}
    /\ JobDone
    /\ UNCHANGED <<serverVars, marker, filed, clockVars, answered, cut,
                   cutAlive>>

-----------------------------------------------------------------------------
(* The in-flight refresh thread                                            *)

\* Every heartbeat, under the `closing` lock; the write creates the file anew.
BeatRefresh ==
    /\ beat /\ ~closing /\ ~stop
    /\ marker' = [job |-> job, boot |-> boot, alive |-> clock]
    /\ UNCHANGED <<serverVars, filed, ckpt, clockVars, loopVars, markVars,
                   runVars, leaseVars, postVars, drainVars, historyVars>>

\* A stop request removes the marker while the job runs on; a teardown that
\* came first ends the thread.
BeatStops ==
    /\ beat
    /\ closing \/ stop
    /\ IF closing
       THEN UNCHANGED <<marker, closing, cut>>
       ELSE closing' = TRUE /\ marker' = NoMarker /\ cut' = Retired
    /\ beat' = FALSE
    /\ UNCHANGED <<serverVars, filed, ckpt, clockVars, loopVars, inflight,
                   runVars, leaseVars, postVars, drainVars, answered, cutAlive,
                   killed>>

-----------------------------------------------------------------------------
(* The lease heartbeat thread                                              *)

\* keepalive_lease; a renewed lease and a transient change nothing. Once the
\* guard is being dropped the channel is disconnected and no call starts.
HeartbeatNotFound ==
    /\ hb = "wait" /\ pc # "join"
    /\ srv[job] # "leased"
    /\ hb' = "reclaim"
    /\ UNCHANGED <<serverVars, diskVars, clockVars, loopVars, markVars,
                   runVars, lost, postVars, drainVars, historyVars>>

HeartbeatSuperseded ==
    /\ hb = "wait" /\ pc # "join"
    /\ srv[job] \in {"other", "closed"}
    /\ hb' = "ended" /\ lost' = TRUE
    /\ UNCHANGED <<serverVars, diskVars, clockVars, loopVars, markVars,
                   runVars, postVars, drainVars, historyVars>>

\* Ok, or a transient whose effect may have reached the server.
HeartbeatReclaim ==
    /\ hb = "reclaim"
    /\ \/ srv[job] = "queued" /\ srv' = [srv EXCEPT ![job] = "leased"]
       \/ srv' = srv
    /\ hb' = "wait"
    /\ UNCHANGED <<held, diskVars, clockVars, loopVars, markVars, runVars,
                   lost, postVars, drainVars, historyVars>>

HeartbeatAborts ==
    /\ hb = "reclaim"
    /\ hb' = "ended" /\ lost' = TRUE
    /\ UNCHANGED <<serverVars, diskVars, clockVars, loopVars, markVars,
                   runVars, postVars, drainVars, historyVars>>

-----------------------------------------------------------------------------
(* Signals and the closed output                                           *)

\* Registered and not already taken.
Registered ==
    (IF inflight # "none" /\ "marker" \notin pending /\ ~closing
     THEN {"marker"} ELSE {})
    \cup (IF child /\ "child" \notin pending /\ ~killed THEN {"child"} ELSE {})

\* handle_signal (its thread is serial): the first one, while every registered
\* teardown is bounded, only sets the stop flag.
SignalGraceful ==
    /\ pc # "off"
    /\ draining # "signal"
    /\ "child" \notin Registered
    /\ ~stop
    /\ stop' = TRUE
    /\ UNCHANGED <<serverVars, diskVars, clockVars, loopVars, markVars,
                   runVars, leaseVars, postVars, draining, pending,
                   historyVars>>

\* Any other takes the teardowns. After a closed output it does not wait for
\* the teardowns that thread took, which may be cut short by the exit.
SignalForced ==
    /\ pc # "off"
    /\ draining # "signal"
    /\ stop \/ "child" \in Registered
    /\ draining' = "signal"
    /\ \E still \in SUBSET pending : pending' = still \cup Registered
    /\ UNCHANGED <<serverVars, diskVars, clockVars, loopVars, markVars,
                   runVars, leaseVars, postVars, stop, historyVars>>

\* output_closed: a thread that finds stderr without a reader.
OutputClosed ==
    /\ pc # "off"
    /\ draining = "no"
    /\ draining' = "output"
    /\ pending' = Registered
    /\ UNCHANGED <<serverVars, diskVars, clockVars, loopVars, markVars,
                   runVars, leaseVars, postVars, stop, historyVars>>

\* One taken teardown, while the main thread goes on.
TearDownMarker ==
    /\ "marker" \in pending
    /\ closing' = TRUE
    /\ marker' = NoMarker
    /\ cut' = Retired /\ cutAlive' = NoJob
    /\ pending' = pending \ {"marker"}
    /\ UNCHANGED <<serverVars, filed, ckpt, clockVars, loopVars, inflight,
                   beat, runVars, leaseVars, postVars, stop, draining,
                   answered, killed>>

TearDownOldMarker ==
    /\ "oldmarker" \in pending
    /\ marker' = NoMarker
    /\ cutAlive' = NoJob
    /\ pending' = pending \ {"oldmarker"}
    /\ UNCHANGED <<serverVars, filed, ckpt, clockVars, loopVars, markVars,
                   runVars, leaseVars, postVars, stop, draining, answered,
                   cut, killed>>

TearDownEngine ==
    /\ "child" \in pending
    /\ killed' = TRUE
    /\ pending' = pending \ {"child"}
    /\ UNCHANGED <<serverVars, diskVars, clockVars, loopVars, markVars,
                   runVars, leaseVars, postVars, stop, draining, answered,
                   cut, cutAlive>>

\* run_and_exit, once what it took has run.
ForcedExit ==
    /\ draining # "no"
    /\ pending = {}
    /\ ProcessEnds
    /\ cut' = Abandoned
    /\ UNCHANGED <<serverVars, diskVars, clockVars, answered, cutAlive>>

-----------------------------------------------------------------------------
(* The device and the other clients                                        *)

\* SIGKILL, the OOM killer or an abort.
Kill ==
    /\ pc # "off"
    /\ ProcessEnds
    /\ cut' = Abandoned
    /\ UNCHANGED <<serverVars, diskVars, clockVars, answered, cutAlive>>

\* Power loss, a panic, or a reboot of a device whose worker is gone.
PowerCycle ==
    /\ boot < MaxBoot
    /\ ProcessEnds
    /\ boot' = boot + 1
    /\ \E now \in clock .. MaxClock : clock' = now /\ bootAt' = now
    /\ cut' = Abandoned
    /\ cutAlive' = IF /\ inflight = "live" /\ ~closing
                      /\ marker.job = job
                      /\ marker.alive + RebootWindow >= bootAt'
                   THEN job ELSE NoJob
    /\ UNCHANGED <<serverVars, diskVars, answered>>

Tick ==
    /\ clock < MaxClock
    /\ clock' = clock + 1
    /\ UNCHANGED <<serverVars, diskVars, boot, bootAt, loopVars, markVars,
                   runVars, leaseVars, postVars, drainVars, historyVars>>

\* The server: a lease lapses into the queue, another client takes the job,
\* returns it or settles it.
LeaseLapses ==
    /\ \E j \in Jobs : srv[j] = "leased" /\ srv' = [srv EXCEPT ![j] = "queued"]
    /\ UNCHANGED <<held, diskVars, clockVars, loopVars, markVars, runVars,
                   leaseVars, postVars, drainVars, historyVars>>

OtherClaims ==
    /\ OtherClients
    /\ \E j \in Jobs : srv[j] = "queued" /\ srv' = [srv EXCEPT ![j] = "other"]
    /\ UNCHANGED <<held, diskVars, clockVars, loopVars, markVars, runVars,
                   leaseVars, postVars, drainVars, historyVars>>

OtherSettles ==
    /\ \E j \in Jobs, w \in {"queued", "closed"} :
        srv[j] = "other" /\ srv' = [srv EXCEPT ![j] = w]
    /\ UNCHANGED <<held, diskVars, clockVars, loopVars, markVars, runVars,
                   leaseVars, postVars, drainVars, historyVars>>

-----------------------------------------------------------------------------
ClaimStep == \/ ProfileReady \/ ProfileStops \/ LoopTop \/ ClaimJob
             \/ ClaimIdle \/ ClaimRefused \/ ClaimTransient \/ ClaimBackoff
             \/ DecideClaim
RunStep == \/ RegisterTeardown \/ MarkRun \/ StartEngine \/ FinishRun
           \/ JoinHeartbeat \/ Disarm
SubmitStep == \/ HeldTouch \/ SkipSubmit \/ SubmitFinishedRun
              \/ PostAccepted \/ PostSuperseded \/ PostNotFound
              \/ PostTransient \/ PostRefused
              \/ ReclaimOk \/ ReclaimTransient \/ ReclaimRefused
              \/ SubmitBackoff \/ StoreResult \/ RetireCheckpoint
MainStep == ClaimStep \/ RunStep \/ SubmitStep
BeatStep == BeatRefresh \/ BeatStops
HeartbeatStep == \/ HeartbeatNotFound \/ HeartbeatSuperseded
                 \/ HeartbeatReclaim \/ HeartbeatAborts
DrainStep == \/ TearDownMarker \/ TearDownOldMarker \/ TearDownEngine
             \/ ForcedExit
Environment == \/ StartWorker \/ SignalGraceful \/ SignalForced \/ OutputClosed
               \/ Kill \/ PowerCycle \/ Tick
               \/ LeaseLapses \/ OtherClaims \/ OtherSettles

Next == MainStep \/ BeatStep \/ HeartbeatStep \/ DrainStep \/ Environment

Spec == Init /\ [][Next]_vars

\* Where the main thread waits for the server: an answer to one of its own
\* calls, or the end of the heartbeat's call that is joined.
Answered == \/ ProfileReady \/ ProfileStops
            \/ ClaimJob \/ ClaimIdle \/ ClaimRefused \/ ClaimTransient
            \/ PostAccepted \/ PostSuperseded \/ PostNotFound
            \/ PostTransient \/ PostRefused
            \/ ReclaimOk \/ ReclaimTransient \/ ReclaimRefused
            \/ JoinHeartbeat
LocalStep == \/ LoopTop \/ ClaimBackoff \/ DecideClaim
             \/ RegisterTeardown \/ MarkRun \/ Disarm
             \/ HeldTouch \/ SkipSubmit \/ SubmitFinishedRun
             \/ SubmitBackoff \/ StoreResult \/ RetireCheckpoint

\* Assumed of the server and the network: a call that was sent is answered or
\* breaks off.  The code does not see to it.  The worker's HTTP client has a
\* timeout for connecting and none for the request, so that a server which
\* accepts a connection and then stays silent holds the worker for ever.
ServerAnswers == /\ WF_vars(Answered)
                 /\ WF_vars(HeartbeatReclaim \/ HeartbeatAborts)

\* Assumed of the engine and of what a run fetches: the run ends.  Some
\* benchmarks have a time limit, others run until they are done.
RunsEnd == WF_vars(FinishRun)

\* What the process does by itself goes on: its waits have deadlines, and the
\* thread that drains the teardowns takes them one after the other.
ProcessRuns == WF_vars(LocalStep) /\ WF_vars(DrainStep)

Fairness == ServerAnswers /\ RunsEnd /\ ProcessRuns

FairSpec == Spec /\ Fairness

-----------------------------------------------------------------------------
(* Which thread may exist where the main thread is: what the guards a run   *)
(* holds in scope amount to, and part of the inductive invariant.           *)

Unclaimed == {"off", "profile", "loop", "claim", "cwait", "idle"}
Running == {"gate", "bench", "join"}

Scopes ==
    /\ pc \notin Unclaimed => job \in Jobs
    /\ inflight = "registered" => pc = "mark"
    /\ inflight = "live" => pc \in Running \cup {"disarm"}
    /\ beat => inflight = "live"
    /\ "marker" \in pending => inflight # "none"
    /\ hb # "none" => pc \in Running
    /\ lost => pc \in Running \cup {"disarm", "submit"}

\* A marker on disk belongs to the run in flight or to a run that was cut off.
Evidence ==
    marker.job # NoJob =>
        \/ marker.job \in cut
        \/ inflight = "live" /\ ~closing /\ marker.job = job

\* A record that a reboot within the window left stays as it was, of an earlier
\* boot, until something forgets it; and its job does not get past decide.
Recorded ==
    /\ marker.boot <= boot
    /\ BootIdKnown /\ ~MarkerFaults /\ cutAlive # NoJob =>
        /\ marker.job = cutAlive
        /\ marker.boot # boot
        /\ marker.alive + RebootWindow >= bootAt
        /\ inflight # "live"
        /\ ~(pc \in {"register", "mark"} \cup Running /\ job = cutAlive)

-----------------------------------------------------------------------------
(* Properties                                                              *)

Posting == {"post", "reclaim", "pwait"}

\* A job is reported as interrupted by a reboot only if a marked run of it died
\* with its process, and the device has booted since: a run whose marker was
\* removed, by its end, a stop or a teardown, is never reported (module docs of
\* commands/worker.rs, "Reboot detection").
RebootReportSound ==
    (pc \in Posting /\ body = "reboot") =>
        /\ job \in cut
        /\ marker.job = job => marker.boot # boot

\* Once a heartbeat has learned that the lease is gone, the run posts nothing,
\* and no heartbeat of the job is still in flight when a post is made.
LostLeaseNeverPosts ==
    pc \in Posting => ~lost /\ hb = "none"

\* A result is filed as synced, and an eval checkpoint given up, only for a job
\* whose success post the server answered for good: never after a lost lease,
\* an exhausted backoff, a stop or a refusal (submit_success).
SettledOnlyIfAnswered ==
    /\ filed \subseteq answered
    /\ pc \in {"file", "retire"} => job \in answered

\* A job that was running, marked, when the power went within the window is
\* not run again by the worker that is handed it back, until its failure was
\* delivered, another job's run replaced or removed the record, or a second
\* reboot aged it (in_flight::decide, and the kept marker of an undelivered report).
CutJobNotRerun ==
    (BootIdKnown /\ ~MarkerFaults /\ cutAlive # NoJob) =>
        ~(pc \in {"register", "mark", "gate", "bench"} /\ job = cutAlive)

\* An eval checkpoint goes only when the server answered its job's result.
CheckpointKept ==
    [][\A j \in Jobs : (j \in ckpt /\ j \notin ckpt') => j \in answered]_vars

\* A requested stop and a forced exit end the process, wherever its main
\* thread is: no wait misses the flag, no join or lock holds the exit up.
StopEnds == (stop \/ draining # "no") ~> pc = "off"

\* What the docs say and the code does not do; TLC refutes each (MCWorker_filed, MCWorker_stopped).

\* "only one the server holds is filed locally (`RemoteSynced`)".
FiledOnlyIfHeld == filed \subseteq held

\* "A run the operator stopped is not a cell that failed": a failure posted for
\* a run is never the killing of its engine by the worker's own teardown.
StoppedRunNotFailed ==
    (pc \in Posting /\ body \in {"retry", "fatal"}) => ~killed

=============================================================================
