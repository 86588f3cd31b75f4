----------------------------- MODULE PlanRunner -----------------------------
(***************************************************************************)
(* `pipette-ctl run`: a plan's cells driven over its transports            *)
(* (pipette-ctl: runner/run.rs, runner/probe.rs, runner/host_semaphore.rs, *)
(* runner/shard.rs, runner/state_io.rs, state.rs).                         *)
(*                                                                         *)
(* An invocation loads state.jsonl, selects and routes the cells still to  *)
(* run, syncs every transport, runs one thread per unit of a transport's   *)
(* parallelism until the queues are empty, and syncs again.  It may be     *)
(* killed at any step; the next one resumes from the file.  Invocations    *)
(* with different shards run side by side and share only that file.        *)
(*                                                                         *)
(* A cell is its position in the ordered matrix.  The state file knows it  *)
(* by its key, which leaves out what only routes it: variants that differ  *)
(* only by their clients are several cells with one key.  A client is a    *)
(* `[[transports]]` entry, named by its client_id.  A queue is named by    *)
(* the clients that may take from it: one for a pinned queue, several for  *)
(* a restricted one, none for the pool every client takes from.  The       *)
(* attempt number of an event is left out: nothing branches on it.         *)
(***************************************************************************)
EXTENDS Naturals, Sequences, FiniteSets

CONSTANTS
    NumCells,       \* cells of the plan
    CellKeys,       \* the keys state events match on
    CellKey,        \* cell -> build_cell_key, which may be another cell's too
    Runs,           \* invocations that may be alive at once
    Threads,        \* the worker threads an invocation may have
    Clients,        \* every client a plan revision names
    Boxes,          \* physical machines
    RunOf,          \* thread -> its invocation
    ClientOf,       \* thread -> its transport
    BoxOf,          \* client -> physical_id
    ShardIndex,     \* invocation -> --shard INDEX
    ShardCount,     \* --shard COUNT
    Plans,          \* plan revisions: which clients are there, and who may run a cell
    Options,        \* RunOptions an operator may give
    SyncTargets,    \* clients that are not iOS
    MaxConsecutive, \* [retry] max_consecutive_failures, 0 for never
    MaxRetries,     \* RejoinPolicy::max_retries
    MaxStarts,      \* bound on invocations
    MaxFaults       \* bound on failed probes, transport errors and writes

Cells == 1 .. NumCells
NoClient == "none"

ASSUME SizesAssumption ==
    /\ NumCells \in Nat \ {0}
    /\ ShardCount \in Nat \ {0}
    /\ MaxConsecutive \in Nat
    /\ MaxRetries \in Nat
    /\ MaxStarts \in Nat
    /\ MaxFaults \in Nat
ASSUME KeyAssumption == CellKey \in [Cells -> CellKeys]
ASSUME CrewAssumption ==
    /\ RunOf \in [Threads -> Runs]
    /\ ClientOf \in [Threads -> Clients]
    /\ BoxOf \in [Clients -> Boxes]
    /\ SyncTargets \subseteq Clients
    /\ IsFiniteSet(Threads)
    /\ IsFiniteSet(Clients)
    /\ NoClient \notin Clients
\* Invocations alive at once are shards of one count.
ASSUME ShardAssumption ==
    /\ ShardIndex \in [Runs -> 0 .. ShardCount - 1]
    /\ \A r, s \in Runs : r # s => ShardIndex[r] # ShardIndex[s]
ASSUME PlansAssumption ==
    Plans \subseteq [fleet : SUBSET Clients, allowed : [Cells -> SUBSET Clients]]
ASSUME OptionsAssumption ==
    Options \subseteq [done : BOOLEAN, failed : BOOLEAN, reassign : BOOLEAN,
                       ignorePins : BOOLEAN, limit : Nat]

VARIABLES
    log,       \* cell key -> its events in state.jsonl, in file order
    phase,     \* invocation -> how far run_matrix is
    plan,      \* invocation -> the plan revision it loaded
    opts,      \* invocation -> its RunOptions
    index,     \* invocation -> the StateIndex it routes by
    route,     \* invocation -> cells it has still to route
    queue,     \* invocation -> clients -> cells waiting for one of them
    pass,      \* invocation -> client -> its sync in the current pass
    free,      \* invocation -> box -> free slots of its HostSemaphore
    pc,        \* thread -> what it does next
    cell,      \* thread -> the cell in its hand, 0 for none
    from,      \* thread -> the queue that cell came from
    seen,      \* thread -> queues pop_next found empty
    fails,     \* thread -> consecutive_failures
    tries,     \* thread -> probes of the current rejoin wait
    starts,    \* invocations so far
    faults,    \* faults so far
    \* History, read by the properties and by no action:
    loaded,    \* invocation -> cell key -> how many events it loaded
    owed,      \* invocation -> cells it routed and has not ended
    synced     \* invocation -> clients it has run `sync` on

runVars == <<phase, plan, opts, index, loaded, route, queue, pass, free>>
threadVars == <<pc, cell, from, seen, fails, tries>>
vars == <<log, runVars, threadVars, starts, faults, owed, synced>>

NoPlan == [fleet |-> {}, allowed |-> [c \in Cells |-> {}]]
NoOpts == [done |-> FALSE, failed |-> FALSE, reassign |-> FALSE,
           ignorePins |-> FALSE, limit |-> 0]
NoIndex == [k \in CellKeys |-> [state |-> "missing", pin |-> NoClient]]
NothingLoaded == [k \in CellKeys |-> 0]
Keys == SUBSET Clients
NoQueue == [k \in Keys |-> <<>>]
NoPass == [t \in Clients |-> "done"]
NoSlots == [b \in Boxes |-> 0]

\* The threads of one invocation's current plan.
Crew(r) == {w \in Threads : RunOf[w] = r /\ ClientOf[w] \in plan[r].fleet}

-----------------------------------------------------------------------------
(* The state file. *)

\* Mutant: the newest event decides before an older success does.
MutCellState(events) ==
    IF events = <<>> THEN "missing"
    ELSE IF events[Len(events)].status = "started" THEN "missing"
    ELSE IF \E i \in DOMAIN events : events[i].status = "success" THEN "done"
    ELSE "failed"

\* StateIndex::load and state_for: what the events under a key say of its cells.
CellState(events) ==
    IF \E i \in DOMAIN events : events[i].status = "success" THEN "done"
    ELSE IF events = <<>> THEN "missing"
    ELSE IF events[Len(events)].status = "started" THEN "missing"
    ELSE "failed"

\* pinned_transport_for: every event records a client, the last one is the pin.
Pin(events) == IF events = <<>> THEN NoClient ELSE events[Len(events)].client

\* load_state_index: one entry per key, whichever cell wrote its events.
StateIndex ==
    [k \in CellKeys |-> [state |-> CellState(log[k]), pin |-> Pin(log[k])]]

\* Shard::contains: a matrix position counts from zero.
InShard(r, c) == (c - 1) % ShardCount = ShardIndex[r]

\* The state filter of select_runnable.
Wanted(entry, o) ==
    \/ entry.state = "missing"
    \/ entry.state = "done" /\ o.done
    \/ entry.state = "failed" /\ o.failed

\* Mutant: asking for the done cells back asks for the other shards' too.
MutSelected(r, idx, o) ==
    {c \in Cells : (o.done \/ InShard(r, c)) /\ Wanted(idx[CellKey[c]], o)}

\* select_runnable, by matrix position before state.
Selected(r, idx, o) == {c \in Cells : InShard(r, c) /\ Wanted(idx[CellKey[c]], o)}

\* --limit keeps the first cells of the selection, 0 standing for no limit.
Limited(S, limit) ==
    {c \in S : limit = 0 \/ Cardinality({d \in S : d <= c}) <= limit}

\* route_cell: the queue a cell goes to; NoRoute is the stranded outcome.  With
\* a queue named by its clients, route_unpinned is the set of usable ones.
NoRoute == {NoClient}
RouteCell(r, c) ==
    LET allowed == plan[r].allowed[c]
        usable == allowed \cap plan[r].fleet
        pin == IF opts[r].ignorePins THEN NoClient ELSE index[r][CellKey[c]].pin
    IN  IF allowed # {} /\ usable = {} THEN NoRoute
        ELSE IF pin = NoClient THEN usable
        ELSE IF pin \in plan[r].fleet /\ (usable = {} \/ pin \in usable) THEN {pin}
        ELSE IF opts[r].reassign THEN usable
        ELSE NoRoute

\* physical_id_capacities: the largest parallelism among a box's transports.
Parallelism(r, t) == Cardinality({w \in Crew(r) : ClientOf[w] = t})
\* Mutant: a box's transports add up.
MutCapacity(r, b) == Cardinality({w \in Crew(r) : BoxOf[ClientOf[w]] = b})

Capacity(r, b) ==
    LET ps == {Parallelism(r, t) : t \in {u \in Clients : BoxOf[u] = b}} \cup {0}
    IN  CHOOSE n \in ps : \A m \in ps : m <= n
Capacities(r) == [b \in Boxes |-> Capacity(r, b)]

\* StateEvent::new and append_local_state of one event, under the state lock.
\* The event goes to the cell's key; `cell` stands for the fields that tell the
\* cells of a key apart, which the index does not read.
Record(c, status, w) ==
    log' = [log EXCEPT ![CellKey[c]] =
                Append(@, [status |-> status, client |-> ClientOf[w], cell |-> c])]

\* The hands of r's threads are empty.
Cleared(r) ==
    /\ cell' = [w \in Threads |-> IF RunOf[w] = r THEN 0 ELSE cell[w]]
    /\ from' = [w \in Threads |-> IF RunOf[w] = r THEN {} ELSE from[w]]
    /\ seen' = [w \in Threads |-> IF RunOf[w] = r THEN {} ELSE seen[w]]
    /\ fails' = [w \in Threads |-> IF RunOf[w] = r THEN 0 ELSE fails[w]]
    /\ tries' = [w \in Threads |-> IF RunOf[w] = r THEN 0 ELSE tries[w]]

\* An invocation that is over, by its own end or by a kill, leaves the file.
Gone(r) ==
    /\ phase' = [phase EXCEPT ![r] = "off"]
    /\ plan' = [plan EXCEPT ![r] = NoPlan]
    /\ opts' = [opts EXCEPT ![r] = NoOpts]
    /\ index' = [index EXCEPT ![r] = NoIndex]
    /\ loaded' = [loaded EXCEPT ![r] = NothingLoaded]
    /\ route' = [route EXCEPT ![r] = {}]
    /\ queue' = [queue EXCEPT ![r] = NoQueue]
    /\ pass' = [pass EXCEPT ![r] = NoPass]
    /\ free' = [free EXCEPT ![r] = NoSlots]
    /\ pc' = [w \in Threads |-> IF RunOf[w] = r THEN "off" ELSE pc[w]]
    /\ Cleared(r)
    /\ owed' = [owed EXCEPT ![r] = {}]
    /\ synced' = [synced EXCEPT ![r] = {}]
    /\ UNCHANGED <<log, starts, faults>>

-----------------------------------------------------------------------------
(* The invocation. *)

\* run_matrix up to the routing loop: load the state, select, apply --limit.
Launch(r) ==
    /\ phase[r] = "off"
    /\ starts < MaxStarts
    /\ starts' = starts + 1
    /\ \E p \in Plans, o \in Options :
        /\ phase' = [phase EXCEPT ![r] = "routing"]
        /\ plan' = [plan EXCEPT ![r] = p]
        /\ opts' = [opts EXCEPT ![r] = o]
        /\ index' = [index EXCEPT ![r] = StateIndex]
        /\ loaded' = [loaded EXCEPT ![r] = [k \in CellKeys |-> Len(log[k])]]
        /\ route' = [route EXCEPT ![r] = Limited(Selected(r, StateIndex, o), o.limit)]
    /\ UNCHANGED <<log, queue, pass, free, threadVars, faults, owed, synced>>

\* One turn of the routing loop, in matrix order.
RouteNext(r) ==
    /\ phase[r] = "routing"
    /\ \E c \in route[r] :
        /\ \A d \in route[r] : c <= d
        /\ route' = [route EXCEPT ![r] = @ \ {c}]
        /\ IF RouteCell(r, c) = NoRoute
           THEN UNCHANGED <<queue, owed>>
           ELSE /\ queue' = [queue EXCEPT ![r][RouteCell(r, c)] = Append(@, c)]
                /\ owed' = [owed EXCEPT ![r] = @ \cup {c}]
    /\ UNCHANGED <<log, phase, plan, opts, index, loaded, pass, free, threadVars,
                   starts, faults, synced>>

\* run_sync_pass: one sync per target, under a budget of the pass's own.
StartPass(r, name) ==
    /\ phase' = [phase EXCEPT ![r] = name]
    /\ pass' = [pass EXCEPT ![r] = [t \in Clients |->
                    IF t \in plan[r].fleet \cap SyncTargets THEN "todo" ELSE "done"]]
    /\ free' = [free EXCEPT ![r] = Capacities(r)]

\* The routing loop is over and nothing is queued.
NothingToRun(r) ==
    /\ phase[r] = "routing"
    /\ route[r] = {}
    /\ \A k \in Keys : queue[r][k] = <<>>
    /\ Gone(r)

\* It is over and the initial pass begins.  The index is not read again.
FirstPass(r) ==
    /\ phase[r] = "routing"
    /\ route[r] = {}
    /\ \E k \in Keys : queue[r][k] # <<>>
    /\ StartPass(r, "initial")
    /\ index' = [index EXCEPT ![r] = NoIndex]
    /\ UNCHANGED <<log, plan, opts, loaded, route, queue, threadVars, starts, faults,
                   owed, synced>>

Routed(r) == NothingToRun(r) \/ FirstPass(r)

\* A sync thread takes a slot of its box.
PassAcquire(r, t) ==
    /\ pass[r][t] = "todo"
    /\ free[r][BoxOf[t]] > 0
    /\ pass' = [pass EXCEPT ![r][t] = "held"]
    /\ free' = [free EXCEPT ![r][BoxOf[t]] = @ - 1]
    /\ UNCHANGED <<log, phase, plan, opts, index, loaded, route, queue, threadVars,
                   starts, faults, owed, synced>>

\* It syncs, whatever comes of that, or skips a box that does not answer the
\* initial pass's probe.
PassRelease(r, t) ==
    /\ pass[r][t] = "held"
    /\ \/ /\ synced' = [synced EXCEPT ![r] = @ \cup {t}]
          /\ UNCHANGED faults
       \/ /\ phase[r] = "initial"
          /\ faults < MaxFaults
          /\ faults' = faults + 1
          /\ UNCHANGED synced
    /\ pass' = [pass EXCEPT ![r][t] = "done"]
    /\ free' = [free EXCEPT ![r][BoxOf[t]] = @ + 1]
    /\ UNCHANGED <<log, phase, plan, opts, index, loaded, route, queue, threadVars,
                   starts, owed>>

PassOver(r) == \A t \in Clients : pass[r][t] = "done"

\* execute_queue: fresh semaphores and one thread per unit of parallelism.
StartCells(r) ==
    /\ phase[r] = "initial"
    /\ PassOver(r)
    /\ phase' = [phase EXCEPT ![r] = "cells"]
    /\ free' = [free EXCEPT ![r] = Capacities(r)]
    /\ pc' = [w \in Threads |-> IF w \in Crew(r) THEN "pop" ELSE pc[w]]
    /\ UNCHANGED <<log, plan, opts, index, loaded, route, queue, pass, cell, from,
                   seen, fails, tries, starts, faults, owed, synced>>

\* Every thread is joined, and the final pass begins.
EndCells(r) ==
    /\ phase[r] = "cells"
    /\ \A w \in Crew(r) : pc[w] \in {"drained", "stopped"}
    /\ StartPass(r, "final")
    /\ UNCHANGED <<log, plan, opts, index, loaded, route, queue, threadVars, starts,
                   faults, owed, synced>>

\* The summary is printed and the invocation exits.
EndRun(r) ==
    /\ phase[r] = "final"
    /\ PassOver(r)
    /\ Gone(r)

\* The invocation is killed.
Crash(r) ==
    /\ phase[r] # "off"
    /\ Gone(r)

-----------------------------------------------------------------------------
(* A worker thread of execute_queue. *)

\* Mutant: a thread does not look at the restricted queues.
MutEligible(w) == {{ClientOf[w]}, {}}

\* The queues a thread may take from, in pop_next's order: its own pinned
\* queue, the restricted ones narrowest first, the pool.  Queues of one width
\* are ordered by label in the code; here any of them may come first.
Eligible(w) ==
    LET t == ClientOf[w]
    IN  {k \in SUBSET plan[RunOf[w]].fleet : t \in k} \cup {{}}
Before(k, l) == IF l = {} THEN k # {} ELSE k # {} /\ Cardinality(k) < Cardinality(l)

\* pop_next looks at one queue at a time, each under its own lock.
Looks(w, k) ==
    /\ pc[w] = "pop"
    /\ k \in Eligible(w) \ seen[w]
    /\ \A l \in Eligible(w) \ seen[w] : ~ Before(l, k)

\* The first queue with a cell gives it up.
Pop(w, k) ==
    /\ Looks(w, k)
    /\ queue[RunOf[w]][k] # <<>>
    /\ queue' = [queue EXCEPT ![RunOf[w]][k] = Tail(@)]
    /\ cell' = [cell EXCEPT ![w] = Head(queue[RunOf[w]][k])]
    /\ from' = [from EXCEPT ![w] = k]
    /\ seen' = [seen EXCEPT ![w] = {}]
    /\ pc' = [pc EXCEPT ![w] = "probe"]
    /\ UNCHANGED <<log, phase, plan, opts, index, loaded, route, pass, free, fails,
                   tries, starts, faults, owed, synced>>

\* An empty queue is passed over; when all were empty the thread ends.
PassOverQueue(w, k) ==
    /\ Looks(w, k)
    /\ queue[RunOf[w]][k] = <<>>
    /\ IF seen[w] \cup {k} = Eligible(w)
       THEN /\ pc' = [pc EXCEPT ![w] = "drained"]
            /\ seen' = [seen EXCEPT ![w] = {}]
       ELSE /\ seen' = [seen EXCEPT ![w] = @ \cup {k}]
            /\ UNCHANGED pc
    /\ UNCHANGED <<log, runVars, cell, from, fails, tries, starts, faults, owed,
                   synced>>

\* The cell leaves the thread's hand.
Drop(w) ==
    /\ cell' = [cell EXCEPT ![w] = 0]
    /\ from' = [from EXCEPT ![w] = {}]

\* A fault of the box or of the disk.
Fault == faults < MaxFaults /\ faults' = faults + 1

\* The thread gives its cell back and begins a rejoin wait.
GiveBack(w, k) ==
    /\ queue' = [queue EXCEPT ![RunOf[w]][k] = Append(@, cell[w])]
    /\ Drop(w)
    /\ pc' = [pc EXCEPT ![w] = "wait"]

\* Mutant: the cell is not put back.
MutProbeFails(w) ==
    /\ pc[w] = "probe"
    /\ Fault
    /\ Drop(w)
    /\ pc' = [pc EXCEPT ![w] = "wait"]
    /\ UNCHANGED <<log, runVars, seen, fails, tries, starts, owed, synced>>

\* probe_device fails: the cell goes back where it came from.
ProbeFails(w) ==
    /\ pc[w] = "probe"
    /\ Fault
    /\ GiveBack(w, from[w])
    /\ UNCHANGED <<log, phase, plan, opts, index, loaded, route, pass, free, seen,
                   fails, tries, starts, owed, synced>>

\* The box answers and the claim is recorded.
ProbeAnswers(w) ==
    /\ pc[w] = "probe"
    /\ Record(cell[w], "started", w)
    /\ pc' = [pc EXCEPT ![w] = "acquire"]
    /\ UNCHANGED <<runVars, cell, from, seen, fails, tries, starts, faults, owed,
                   synced>>

\* write_event fails: the thread stops, and its cell is in no queue.
WriteFails(w) ==
    /\ pc[w] = "probe"
    /\ Fault
    /\ pc' = [pc EXCEPT ![w] = "stopped"]
    /\ owed' = [owed EXCEPT ![RunOf[w]] = @ \ {cell[w]}]
    /\ Drop(w)
    /\ UNCHANGED <<log, runVars, seen, fails, tries, starts, synced>>

\* HostSemaphore::acquire, for a cell or for a rejoin sync.
Acquire(w) ==
    /\ pc[w] \in {"acquire", "rejoin"}
    /\ free[RunOf[w]][BoxOf[ClientOf[w]]] > 0
    /\ free' = [free EXCEPT ![RunOf[w]][BoxOf[ClientOf[w]]] = @ - 1]
    /\ pc' = [pc EXCEPT ![w] = IF pc[w] = "acquire" THEN "exec" ELSE "sync"]
    /\ UNCHANGED <<log, phase, plan, opts, index, loaded, route, queue, pass, cell,
                   from, seen, fails, tries, starts, faults, owed, synced>>

\* Dropping the guard.
Release(w) == free' = [free EXCEPT ![RunOf[w]][BoxOf[ClientOf[w]]] = @ + 1]

\* Mutant: the cell goes back to the queue it came from.
MutExecErrs(w) ==
    /\ pc[w] = "exec"
    /\ Fault
    /\ Release(w)
    /\ GiveBack(w, from[w])
    /\ UNCHANGED <<log, phase, plan, opts, index, loaded, route, pass, seen, fails,
                   tries, starts, owed, synced>>

\* Mutant: the slot is not given back with the cell.
MutExecErrsHolding(w) ==
    /\ pc[w] = "exec"
    /\ Fault
    /\ GiveBack(w, {ClientOf[w]})
    /\ UNCHANGED <<log, phase, plan, opts, index, loaded, route, pass, free, seen,
                   fails, tries, starts, owed, synced>>

\* transport.exec fails: the cell has started here, so it stays on this client.
ExecErrs(w) ==
    /\ pc[w] = "exec"
    /\ Fault
    /\ Release(w)
    /\ GiveBack(w, {ClientOf[w]})
    /\ UNCHANGED <<log, phase, plan, opts, index, loaded, route, pass, seen, fails,
                   tries, starts, owed, synced>>

\* The cell exits, its result is recorded, and a run of failures stops the thread.
ExecExits(w) ==
    /\ pc[w] = "exec"
    /\ Release(w)
    /\ \E status \in {"success", "failed"} :
        LET n == IF status = "success" THEN 0 ELSE fails[w] + 1
            broken == status = "failed" /\ MaxConsecutive > 0 /\ n >= MaxConsecutive
        IN  /\ Record(cell[w], status, w)
            /\ fails' = [fails EXCEPT ![w] = IF MaxConsecutive = 0 THEN 0 ELSE n]
            /\ pc' = [pc EXCEPT ![w] = IF broken THEN "stopped" ELSE "pop"]
    /\ owed' = [owed EXCEPT ![RunOf[w]] = @ \ {cell[w]}]
    /\ Drop(w)
    /\ UNCHANGED <<phase, plan, opts, index, loaded, route, queue, pass, seen, tries,
                   starts, faults, synced>>

\* The cell exits and its result cannot be recorded: the thread stops.
ResultLost(w) ==
    /\ pc[w] = "exec"
    /\ Fault
    /\ Release(w)
    /\ pc' = [pc EXCEPT ![w] = "stopped"]
    /\ owed' = [owed EXCEPT ![RunOf[w]] = @ \ {cell[w]}]
    /\ Drop(w)
    /\ UNCHANGED <<log, phase, plan, opts, index, loaded, route, queue, pass, seen,
                   fails, tries, starts, synced>>

\* wait_loop: one probe of a box that stopped answering.
WaitProbe(w) ==
    /\ pc[w] = "wait"
    /\ tries[w] < MaxRetries
    /\ \/ /\ pc' = [pc EXCEPT ![w] = "rejoin"]
          /\ tries' = [tries EXCEPT ![w] = 0]
          /\ UNCHANGED faults
       \/ /\ Fault
          /\ tries' = [tries EXCEPT ![w] = @ + 1]
          /\ UNCHANGED pc
    /\ UNCHANGED <<log, runVars, cell, from, seen, fails, starts, owed, synced>>

\* The retries ran out: the thread stops.
GiveUp(w) ==
    /\ pc[w] = "wait"
    /\ tries[w] >= MaxRetries
    /\ pc' = [pc EXCEPT ![w] = "stopped"]
    /\ tries' = [tries EXCEPT ![w] = 0]
    /\ UNCHANGED <<log, runVars, cell, from, seen, fails, starts, faults, owed,
                   synced>>

\* sync_transport under the slot, then back to the queues.
RejoinSync(w) ==
    /\ pc[w] = "sync"
    /\ Release(w)
    /\ synced' = [synced EXCEPT ![RunOf[w]] = @ \cup {ClientOf[w]}]
    /\ pc' = [pc EXCEPT ![w] = "pop"]
    /\ UNCHANGED <<log, phase, plan, opts, index, loaded, route, queue, pass, cell,
                   from, seen, fails, tries, starts, faults, owed>>

-----------------------------------------------------------------------------

Init ==
    /\ log = [k \in CellKeys |-> <<>>]
    /\ phase = [r \in Runs |-> "off"]
    /\ plan = [r \in Runs |-> NoPlan]
    /\ opts = [r \in Runs |-> NoOpts]
    /\ index = [r \in Runs |-> NoIndex]
    /\ loaded = [r \in Runs |-> NothingLoaded]
    /\ route = [r \in Runs |-> {}]
    /\ queue = [r \in Runs |-> NoQueue]
    /\ pass = [r \in Runs |-> NoPass]
    /\ free = [r \in Runs |-> NoSlots]
    /\ pc = [w \in Threads |-> "off"]
    /\ cell = [w \in Threads |-> 0]
    /\ from = [w \in Threads |-> {}]
    /\ seen = [w \in Threads |-> {}]
    /\ fails = [w \in Threads |-> 0]
    /\ tries = [w \in Threads |-> 0]
    /\ starts = 0
    /\ faults = 0
    /\ owed = [r \in Runs |-> {}]
    /\ synced = [r \in Runs |-> {}]

\* What run_matrix itself does, in order.
RunStep(r) ==
    \/ RouteNext(r)
    \/ Routed(r)
    \/ StartCells(r)
    \/ EndCells(r)
    \/ EndRun(r)

\* What one client's thread of a sync pass does.
PassStep(r, t) == PassAcquire(r, t) \/ PassRelease(r, t)

\* What a worker thread does.
WorkerStep(w) ==
    \/ \E k \in Keys : Pop(w, k) \/ PassOverQueue(w, k)
    \/ ProbeFails(w)
    \/ ProbeAnswers(w)
    \/ WriteFails(w)
    \/ Acquire(w)
    \/ ExecErrs(w)
    \/ ExecExits(w)
    \/ ResultLost(w)
    \/ WaitProbe(w)
    \/ GiveUp(w)
    \/ RejoinSync(w)

Next ==
    \/ \E r \in Runs : Launch(r) \/ Crash(r) \/ RunStep(r)
    \/ \E r \in Runs, t \in Clients : PassStep(r, t)
    \/ \E w \in Threads : WorkerStep(w)

\* Every thread of a live invocation is scheduled; a command on a box ends,
\* as long as no client is an iOS one whose rejoin sync opens the app's UI.
Fairness ==
    /\ \A r \in Runs : WF_vars(RunStep(r))
    /\ \A r \in Runs, t \in Clients : WF_vars(PassStep(r, t))
    /\ \A w \in Threads : WF_vars(WorkerStep(w))

Spec == Init /\ [][Next]_vars
FairSpec == Spec /\ Fairness

-----------------------------------------------------------------------------
(* Properties. *)

Event == [status : {"started", "success", "failed"}, client : Clients, cell : Cells]

\* The type invariant, in parts.
FileOK == log \in [CellKeys -> Seq(Event)]

InvocationsOK ==
    /\ phase \in [Runs -> {"off", "routing", "initial", "cells", "final"}]
    /\ plan \in [Runs -> Plans \cup {NoPlan}]
    /\ opts \in [Runs -> Options \cup {NoOpts}]
    /\ index \in [Runs -> [CellKeys -> [state : {"missing", "done", "failed"},
                                        pin : Clients \cup {NoClient}]]]
    /\ loaded \in [Runs -> [CellKeys -> Nat]]
    /\ route \in [Runs -> SUBSET Cells]
    /\ owed \in [Runs -> SUBSET Cells]
    /\ synced \in [Runs -> SUBSET Clients]

QueuesOK == queue \in [Runs -> [Keys -> Seq(Cells)]]

SlotsOK ==
    /\ pass \in [Runs -> [Clients -> {"todo", "held", "done"}]]
    /\ free \in [Runs -> [Boxes -> Nat]]

ThreadsOK ==
    /\ pc \in [Threads -> {"off", "pop", "probe", "acquire", "exec", "wait", "rejoin",
                           "sync", "drained", "stopped"}]
    /\ cell \in [Threads -> Cells \cup {0}]
    /\ from \in [Threads -> Keys]
    /\ seen \in [Threads -> SUBSET Keys]

CountsOK ==
    /\ fails \in [Threads -> 0 .. MaxConsecutive]
    /\ tries \in [Threads -> 0 .. MaxRetries]
    /\ starts \in 0 .. MaxStarts
    /\ faults \in 0 .. MaxFaults

TypeOK == FileOK /\ InvocationsOK /\ QueuesOK /\ SlotsOK /\ ThreadsOK /\ CountsOK

\* Where an invocation keeps a cell: a place in a queue, or a thread's hand.
Places(r, c) ==
    (UNION {{<<k,
    i>> : i \in {j \in DOMAIN queue[r][k] : queue[r][k][j] = c}} : k \in Keys})
    \cup {w \in Threads : RunOf[w] = r /\ cell[w] = c}

\* A cell an invocation took on is in exactly one place until its attempt is
\* over, and in none after: no path out of a probe, a transport error or a
\* rejoin wait loses it or lets two threads run it.  A write to the state file
\* that fails ends the attempt: the code drops that cell with its thread.
CellsConserved ==
    \A r \in Runs, c \in Cells :
        Cardinality(Places(r, c)) = IF c \in owed[r] THEN 1 ELSE 0

\* Shards of one plan that run side by side never hold the same cell, though
\* each selects from a file the other is appending to and may be restarted
\* when some of its cells are done.
ShardsApart ==
    \A r, s \in Runs : r # s => owed[r] \cap owed[s] = {}

LastEvent(events) == events[Len(events)]

\* The invocation was not told to move cells between clients.
Strict(r) == ~ opts[r].reassign /\ ~ opts[r].ignorePins

\* An event of this cell is appended to the file.
Attempts(c) ==
    /\ log'[CellKey[c]] # log[CellKey[c]]
    /\ LastEvent(log'[CellKey[c]]).cell = c

\* What an invocation knows of a cell: the events it loaded under the cell's
\* key, whoever wrote them, and the cell's own.  What it has not read since is
\* what another cell of the key wrote in the meantime.
Known(r, c) ==
    {i \in 1 .. Len(log[CellKey[c]]) :
        i <= loaded[r][CellKey[c]] \/ log[CellKey[c]][i].cell = c}
Latest(S) == {i \in S : \A j \in S : j <= i}

\* Device affinity: an attempt is on the client of the last event the invocation
\* knows of the cell, across transport errors, give-backs, kills and other
\* clients' hunger for work, unless it was told to reassign or to ignore pins.
\* (Cells of one key that run at once may well be on different clients.)
AffinityKept ==
    [][\A c \in Cells : Attempts(c) =>
        \E r \in Runs :
            /\ c \in owed[r]
            /\ Strict(r) => \A i \in Latest(Known(r, c)) :
                    LastEvent(log'[CellKey[c]]).client = log[CellKey[c]][i].client]_vars

\* A cell that has a success is not started again without --include-done, even
\* when a later re-run of it was killed and left a started event on top; nor is
\* one whose key had a success, by any cell, when the invocation loaded the file.
DoneNotRerun ==
    [][\A c \in Cells : Attempts(c) =>
        \E r \in Runs :
            /\ c \in owed[r]
            /\ opts[r].done \/ \A i \in Known(r, c) :
                    log[CellKey[c]][i].status # "success"]_vars

\* "two cells with one key: recording either as done takes both out of the queue":
\* no cell is started under a key that has a success.
KeyDoneTakesAllOut ==
    [][\A c \in Cells : Attempts(c) =>
        \E r \in Runs :
            /\ c \in owed[r]
            /\ opts[r].done \/ \A i \in DOMAIN log[CellKey[c]] :
                    log[CellKey[c]][i].status # "success"]_vars

\* Commands in flight on a box, of the passes and of the worker threads.
Syncing(r, b) == {t \in Clients : BoxOf[t] = b /\ pass[r][t] = "held"}
Working(r, b) == {w \in Threads : /\ RunOf[w] = r
                                  /\ BoxOf[ClientOf[w]] = b
                                  /\ pc[w] \in {"exec", "sync"}}
Busy(r, b) == Cardinality(Syncing(r, b)) + Cardinality(Working(r, b))

\* A box never runs more of an invocation's cells and syncs at once than its
\* most parallel transport allows, however many transports reach it.
BoxWithinBudget ==
    \A r \in Runs, b \in Boxes :
        Busy(r, b) > 0 => \E t \in Clients : BoxOf[t] = b /\ Busy(r, b) <= Parallelism(r, t)

\* A cell is left in a queue at the end of the cell run only when a thread that
\* could have taken it stopped: threads that found nothing left behind nothing.
LeftoverHasCause ==
    \A r \in Runs, k \in Keys :
        phase[r] = "final" /\ queue[r][k] # <<>>
        => \E w \in Crew(r) : pc[w] = "stopped" /\ k \in Eligible(w)

\* Every invocation ends: no thread waits for a slot, a cell or a box for ever.
RunEnds == \A r \in Runs : phase[r] # "off" ~> phase[r] = "off"

\* "initial: before the first cell, so cells benchmark current definitions, not
\* the ones the device last pulled": no cell runs on a client this invocation
\* has not synced.
CellAfterSync ==
    \A w \in Threads :
        pc[w] = "exec" /\ ClientOf[w] \in SyncTargets => ClientOf[w] \in synced[RunOf[w]]

\* "syncs every transport (iOS excepted) at three points": an invocation runs
\* `sync` on no iOS client, where it "opens the UI and never exits".
IosNotSynced == \A r \in Runs : synced[r] \subseteq SyncTargets

-----------------------------------------------------------------------------
(* The inductive invariant the proofs rest on. *)

\* A thread works only for an invocation whose plan has its client, while the
\* cells run; the join that ends them leaves no thread in the middle.
Crewed ==
    \A w \in Threads :
        /\ pc[w] # "off" => /\ ClientOf[w] \in plan[RunOf[w]].fleet
                            /\ phase[RunOf[w]] \in {"cells", "final"}
        /\ phase[RunOf[w]] \in {"cells", "final"} /\ w \in Crew(RunOf[w]) => pc[w] # "off"
        /\ phase[RunOf[w]] = "final" => pc[w] \in {"off", "drained", "stopped"}

\* A thread has a cell in its hand from pop_next to the end of its attempt, out
\* of a queue it may take from.
HandOK ==
    \A w \in Threads :
        /\ cell[w] # 0 <=> pc[w] \in {"probe", "acquire", "exec"}
        /\ cell[w] # 0 => from[w] \in Eligible(w)
        /\ seen[w] # {} => pc[w] = "pop"

\* A run of failures that is long enough has stopped the thread.
Unbroken ==
    \A w \in Threads :
        MaxConsecutive > 0 /\ pc[w] # "stopped" => fails[w] < MaxConsecutive

\* What an invocation has still to route it has not taken on, and before and
\* after the routing loop there is nothing to route.
Fresh ==
    \A r \in Runs :
        /\ phase[r] # "routing" => route[r] = {}
        /\ phase[r] = "off" => owed[r] = {}
        /\ route[r] \cap owed[r] = {}

\* The cells an invocation has to do with are its shard's.
Sharded == \A r \in Runs : \A c \in route[r] \cup owed[r] : InShard(r, c)

\* What an invocation loaded is still the beginning of the file.
Loaded == \A r \in Runs, k \in CellKeys : loaded[r][k] <= Len(log[k])

\* The index an invocation routes by pins a key to the last client it loaded,
\* and a cell it has still to route has no event since: nobody else writes
\* about its shard's cells.
IndexFresh ==
    /\ \A r \in Runs : phase[r] = "routing" => \A k \in CellKeys :
        index[r][k].pin = IF loaded[r][k] = 0 THEN NoClient ELSE log[k][loaded[r][k]].client
    /\ \A r \in Runs : \A c \in route[r] : \A i \in 1 .. Len(log[CellKey[c]]) :
        i > loaded[r][CellKey[c]] => log[CellKey[c]][i].cell # c

\* Without --include-done an invocation has no business with a done cell.
NotDone ==
    \A r \in Runs : ~ opts[r].done =>
        \A c \in route[r] \cup owed[r] : \A i \in Known(r, c) :
            log[CellKey[c]][i].status # "success"

\* The cells of a queue, and that none is in it twice.
Elements(q) == {q[i] : i \in 1 .. Len(q)}
NoRepeat(q) == \A i, j \in 1 .. Len(q) : q[i] = q[j] => i = j

\* What an invocation owes is in its queues and in its threads' hands, and
\* nothing else is.
Owed ==
    /\ \A r \in Runs, k \in Keys : Elements(queue[r][k]) \subseteq owed[r]
    /\ \A w \in Threads : cell[w] # 0 => cell[w] \in owed[RunOf[w]]
    /\ \A r \in Runs : \A c \in owed[r] :
        \/ \E k \in Keys : c \in Elements(queue[r][k])
        \/ \E w \in Threads : RunOf[w] = r /\ cell[w] = c

\* And it is in one place.
Once ==
    /\ \A r \in Runs, k \in Keys : NoRepeat(queue[r][k])
    /\ \A r \in Runs, k, l \in Keys :
        k # l => Elements(queue[r][k]) \cap Elements(queue[r][l]) = {}
    /\ \A v, w \in Threads :
        RunOf[v] = RunOf[w] /\ cell[v] = cell[w] /\ cell[v] # 0 => v = w
    /\ \A w \in Threads, k \in Keys : cell[w] \notin Elements(queue[RunOf[w]][k])

\* The events that bind a cell to a client: the last one loaded under its key,
\* and the cell's own since.
Binding(r, c) ==
    {i \in 1 .. Len(log[CellKey[c]]) :
        \/ i = loaded[r][CellKey[c]]
        \/ i > loaded[r][CellKey[c]] /\ log[CellKey[c]][i].cell = c}
Bound(r, c, t) == \A i \in Binding(r, c) : log[CellKey[c]][i].client = t
Waits(r, c, k) == Binding(r, c) # {} => \E t \in Clients : k = {t} /\ Bound(r, c, t)

\* A cell waits for the client it is bound to only, unless the invocation was
\* told otherwise, and a thread that recorded its claim is on that client.
Pinned ==
    /\ \A r \in Runs, k \in Keys : Strict(r) =>
        \A c \in Elements(queue[r][k]) : Waits(r, c, k)
    /\ \A w \in Threads : Strict(RunOf[w]) =>
        /\ pc[w] = "probe" => Waits(RunOf[w], cell[w], from[w])
        /\ pc[w] \in {"acquire", "exec"} => Bound(RunOf[w], cell[w], ClientOf[w])

\* A sync thread belongs to a pass.
Passing ==
    \A r \in Runs, t \in Clients : pass[r][t] # "done" => phase[r] \in {"initial", "final"}

\* Every slot of a box is free or taken by a command in flight.
Slots ==
    \A r \in Runs, b \in Boxes : phase[r] \in {"initial", "cells", "final"} =>
        free[r][b] + Busy(r, b) = Capacity(r, b)

IInv == /\ TypeOK /\ Crewed /\ HandOK /\ Unbroken /\ Fresh /\ Sharded /\ Loaded
        /\ IndexFresh /\ NotDone /\ Owed /\ Once /\ Pinned /\ Passing /\ Slots

\* Every plan has a transport, and every transport a thread (run_matrix refuses
\* a plan without transports, and `parallelism` is a NonZeroUsize).
FullCrews ==
    \A p \in Plans, r \in Runs :
        /\ p.fleet # {}
        /\ \A t \in p.fleet : \E w \in Threads : RunOf[w] = r /\ ClientOf[w] = t

\* A queue is the plan's, and while the cells run it has a thread that may take
\* from it, has not ended empty-handed and has not passed it over.
Attends(r, k) ==
    /\ phase[r] # "off"
    /\ k \subseteq plan[r].fleet
    /\ phase[r] \in {"cells", "final"} =>
        \E w \in Crew(r) : k \in Eligible(w) /\ pc[w] # "drained" /\ k \notin seen[w]

\* Every queue that holds a cell is attended to.
Attended ==
    /\ \A r \in Runs : phase[r] # "off" => plan[r] \in Plans
    /\ \A r \in Runs, k \in Keys : queue[r][k] # <<>> => Attends(r, k)

=============================================================================
