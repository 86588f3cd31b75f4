------------------------------ MODULE Teardown ------------------------------
(***************************************************************************)
(* The children a pipette process starts and how they end                  *)
(* (pipette-subprocess: cleanup.rs, spawned.rs, output.rs, orphans.rs).    *)
(*                                                                         *)
(* A start holds the STARTS read lock from spawn until the child's         *)
(* teardown is registered.  Two threads tear down before an exit: the      *)
(* signal handler, which selects under the STARTS write lock, and the      *)
(* thread that finds stderr closed, which does not.  Neither stops the     *)
(* threads that start and stop children.  A session also has a note on     *)
(* disk, from which the next run kills it if this process died.            *)
(*                                                                         *)
(* A child is one start: a service (Stop::Kill, Stop::Terminate), a        *)
(* container's docker CLI (Stop::Docker) or a short command                *)
(* (output_within).  What runs is its session; the container the daemon    *)
(* runs is not modelled.                                                   *)
(***************************************************************************)
EXTENDS Naturals, FiniteSets

CONSTANTS
    Services,    \* starts with Stop::Kill or Stop::Terminate
    Containers,  \* starts with Stop::Docker
    Shorts,      \* output_within calls
    Watcher,     \* the stderr-watch thread, not a child
    HasStopFlag, \* whether the command registered a stop flag
    Armed,       \* whether it called stop_on_closed_output
    NoteFaults   \* whether writing a note may fail

Children == Services \cup Containers \cup Shorts

ASSUME KindsAssumption ==
    /\ Services \cap Containers = {}
    /\ Services \cap Shorts = {}
    /\ Containers \cap Shorts = {}
    /\ Watcher \notin Children
ASSUME SwitchesAssumption ==
    /\ HasStopFlag \in BOOLEAN
    /\ Armed \in BOOLEAN
    /\ NoteFaults \in BOOLEAN

VARIABLES
    phase,     \* child -> how far its owning thread is with it
    alive,     \* children whose session runs
    registry,  \* children with a registered teardown
    notes,     \* children with a note on disk
    sig,       \* the signal handler's thread
    out,       \* the thread that found stderr closed
    outBy,     \* which thread that is
    taken,     \* drainer -> teardowns it took and has not run
    cli,       \* drainer -> whether it is starting a `docker kill`
    draining,  \* DRAINING
    stop,      \* the stop flag
    closed,    \* stderr has lost its reader
    code,      \* exit status, "none" while the process runs
    \* History, read by the properties and by no action:
    owed,      \* sessions that ran when the handler took the teardowns
    unnoted    \* children whose note could not be written

childVars == <<phase, alive>>
drainVars == <<sig, out, outBy, taken, cli, draining, stop>>
vars == <<childVars, registry, notes, drainVars, closed, code, owed, unnoted>>

Drainers == {"signal", "output"}

\* What the owner does next: "starting" holds the lock and has not spawned,
\* "spawned" and "between" have the first and the second of register and note
\* to do, "ready" has the lock to release, "up" has a running child, "reaped"
\* has a guard and a note to drop.
Phases == {"none", "starting", "spawned", "between", "ready", "up", "reaped",
           "done"}
MidStart == {"starting", "spawned", "between", "ready"}

TypeOK ==
    /\ phase \in [Children -> Phases]
    /\ alive \subseteq Children
    /\ registry \subseteq Children
    /\ notes \subseteq Children
    /\ sig \in {"idle", "waiting", "draining"}
    /\ out \in {"idle", "swapped", "draining"}
    /\ outBy \in Children \cup {Watcher}
    /\ outBy # Watcher => phase[outBy] \in {"spawned", "between"}
    /\ taken \in [Drainers -> SUBSET Children]
    /\ cli \in [Drainers -> BOOLEAN]
    /\ draining \in BOOLEAN
    /\ stop \in BOOLEAN
    /\ closed \in BOOLEAN
    /\ code \in {"none", "0", "130", "141", "killed"}
    /\ owed \subseteq Children
    /\ unnoted \subseteq Children

Init ==
    /\ phase = [c \in Children |-> "none"]
    /\ alive = {} /\ registry = {} /\ notes = {}
    /\ sig = "idle" /\ out = "idle" /\ outBy = Watcher
    /\ taken = [d \in Drainers |-> {}]
    /\ cli = [d \in Drainers |-> FALSE]
    /\ draining = FALSE /\ stop = FALSE
    /\ closed = FALSE /\ code = "none"
    /\ owed = {} /\ unnoted = {}

-----------------------------------------------------------------------------
(* STARTS, a std RwLock: shared by the starts, exclusive to the handler,   *)
(* and closed to new readers while the handler waits for it.               *)

Up == code = "none"

\* As if a start took no lock.
MutReaders == {d \in Drainers : cli[d]}

\* As if a start kept the lock while its child runs.
MutReadersLong ==
    {c \in Children : phase[c] \in MidStart \cup {"up"}} \cup
    {d \in Drainers : cli[d]}

Readers ==
    {c \in Children : phase[c] \in MidStart} \cup {d \in Drainers : cli[d]}

\* As if the handler kept the lock while it runs the teardowns.
MutReadable == sig = "idle"

Readable == sig # "waiting"

-----------------------------------------------------------------------------
(* Starts: Spawned::start and output_within                                *)

\* As if output_closed handed the drain to another thread and returned.
MutMoves(c) == Up

\* A thread that found stderr closed while it held the lock goes no further
\* with its own start.
Moves(c) == Up /\ outBy # c

\* hold_off_teardown.
BeginStart(c) ==
    /\ Moves(c) /\ phase[c] = "none"
    /\ Readable
    /\ phase' = [phase EXCEPT ![c] = "starting"]
    /\ UNCHANGED <<alive, registry, notes, drainVars, closed, code, owed,
                   unnoted>>

\* command.spawn: an error returns, which drops the lock.
Spawn(c) ==
    /\ Moves(c) /\ phase[c] = "starting"
    /\ \/ /\ phase' = [phase EXCEPT ![c] = "spawned"]
          /\ alive' = alive \cup {c}
       \/ /\ phase' = [phase EXCEPT ![c] = "done"]
          /\ UNCHANGED alive
    /\ UNCHANGED <<registry, notes, drainVars, closed, code, owed, unnoted>>

\* Guard::register, Guard::register_bounded: first in Spawned::start, after
\* the note in output_within.
Register(c) ==
    /\ Moves(c)
    /\ phase[c] = IF c \in Shorts THEN "between" ELSE "spawned"
    /\ registry' = registry \cup {c}
    /\ phase' = [phase EXCEPT ![c] = IF c \in Services THEN "between"
                                                       ELSE "ready"]
    /\ UNCHANGED <<alive, notes, drainVars, closed, code, owed, unnoted>>

Noting(c) ==
    /\ Moves(c)
    /\ phase[c] = IF c \in Shorts THEN "spawned" ELSE "between"

AfterNote(c) ==
    phase' = [phase EXCEPT ![c] = IF c \in Shorts THEN "between" ELSE "ready"]

\* Record::write.  A container has none: it goes from Register to "ready".
WriteNote(c) ==
    /\ Noting(c)
    /\ AfterNote(c)
    /\ notes' = notes \cup {c}
    /\ UNCHANGED <<alive, registry, drainVars, closed, code, owed, unnoted>>

\* A failed write is logged, and a log line on a closed stderr is
\* output_closed: the first thread there drains, with the lock it holds.
NoteFails(c) ==
    /\ NoteFaults
    /\ Noting(c)
    /\ unnoted' = unnoted \cup {c}
    /\ \/ /\ AfterNote(c)
          /\ UNCHANGED drainVars
       \/ /\ closed /\ Armed /\ ~draining
          /\ draining' = TRUE
          /\ out' = "swapped" /\ outBy' = c
          /\ UNCHANGED <<phase, sig, taken, cli, stop>>
    /\ UNCHANGED <<alive, registry, notes, closed, code, owed>>

\* drop(starting).
EndStart(c) ==
    /\ Moves(c) /\ phase[c] = "ready"
    /\ phase' = [phase EXCEPT ![c] = "up"]
    /\ UNCHANGED <<alive, registry, notes, drainVars, closed, code, owed,
                   unnoted>>

-----------------------------------------------------------------------------
(* Ends: the child exits, or its owner stops or drops it                   *)

\* The session ends by itself; its owner has not polled it yet.
ChildExits(c) ==
    /\ c \in alive
    /\ alive' = alive \ {c}
    /\ UNCHANGED <<phase, registry, notes, drainVars, closed, code, owed,
                   unnoted>>

\* As if stop gave up once the grace has passed.
MutStopChild(c) ==
    /\ Moves(c) /\ phase[c] = "up"
    /\ phase' = [phase EXCEPT ![c] = "reaped"]
    /\ UNCHANGED <<alive, registry, notes, drainVars, closed, code, owed,
                   unnoted>>

\* stop, poll, lost, a start whose streams cannot be read, and the end of
\* output_within: each kills what is left of the session and reaps it.
StopChild(c) ==
    /\ Moves(c) /\ phase[c] = "up"
    /\ alive' = alive \ {c}
    /\ phase' = [phase EXCEPT ![c] = "reaped"]
    /\ UNCHANGED <<registry, notes, drainVars, closed, code, owed, unnoted>>

\* finish: only now the guard and the note go.
Finish(c) ==
    /\ Moves(c) /\ phase[c] = "reaped"
    /\ registry' = registry \ {c}
    /\ notes' = notes \ {c}
    /\ phase' = [phase EXCEPT ![c] = "done"]
    /\ UNCHANGED <<alive, drainVars, closed, code, owed, unnoted>>

-----------------------------------------------------------------------------
(* The signal handler                                                      *)

\* ctrlc runs the handler on one thread: a signal during it starts no second.
Signal ==
    /\ Up /\ sig = "idle"
    /\ sig' = "waiting"
    /\ UNCHANGED <<childVars, registry, notes, out, outBy, taken, cli,
                   draining, stop, closed, code, owed, unnoted>>

\* As if a container's teardown were registered as bounded.
MutIdle == registry \subseteq Shorts \cup Containers

\* teardowns_idle.
Idle == registry \subseteq Shorts

\* request_graceful_stop finds a flag unset.
CanAbsorb == HasStopFlag /\ ~stop

\* handle_signal with STARTS held: the graceful stop ...
SignalAbsorbed ==
    /\ Up /\ sig = "waiting" /\ Readers = {}
    /\ Idle /\ CanAbsorb
    /\ stop' = TRUE
    /\ sig' = "idle"
    /\ UNCHANGED <<childVars, registry, notes, out, outBy, taken, cli,
                   draining, closed, code, owed, unnoted>>

\* ... or take_teardowns.
SignalTakes ==
    /\ Up /\ sig = "waiting" /\ Readers = {}
    /\ ~(Idle /\ CanAbsorb)
    /\ draining' = TRUE
    /\ taken' = [taken EXCEPT !["signal"] = registry]
    /\ registry' = {}
    /\ owed' = alive
    /\ sig' = "draining"
    /\ UNCHANGED <<childVars, notes, out, outBy, cli, stop, closed, code,
                   unnoted>>

-----------------------------------------------------------------------------
(* The closed output                                                       *)

\* The reader of stderr goes away.
CloseStderr ==
    /\ Up /\ Armed /\ ~closed
    /\ closed' = TRUE
    /\ UNCHANGED <<childVars, registry, notes, drainVars, code, owed, unnoted>>

\* output_closed on the watcher, or on a thread that logs and holds no lock.
OutputClosed ==
    /\ Up /\ closed /\ ~draining
    /\ draining' = TRUE
    /\ out' = "swapped" /\ outBy' = Watcher
    /\ UNCHANGED <<childVars, registry, notes, sig, taken, cli, stop, closed,
                   code, owed, unnoted>>

\* tear_down_and_exit: take_teardowns without STARTS.
OutputTakes ==
    /\ Up /\ out = "swapped"
    /\ taken' = [taken EXCEPT !["output"] = registry]
    /\ registry' = {}
    /\ out' = "draining"
    /\ UNCHANGED <<childVars, notes, sig, outBy, cli, draining, stop, closed,
                   code, owed, unnoted>>

-----------------------------------------------------------------------------
(* run_and_exit on either thread                                           *)

Draining(d) == IF d = "signal" THEN sig = "draining" ELSE out = "draining"

\* on_interrupt of a service, or the teardown of a short command.
TearDownSession(d, c) ==
    /\ Up /\ Draining(d) /\ ~cli[d]
    /\ c \in taken[d] \ Containers
    /\ alive' = alive \ {c}
    /\ taken' = [taken EXCEPT ![d] = @ \ {c}]
    /\ UNCHANGED <<phase, registry, notes, sig, out, outBy, cli, draining,
                   stop, closed, code, owed, unnoted>>

\* on_interrupt of a container runs `docker kill` first, a start of its own
\* that needs STARTS; its session is short-lived and not modelled.
StartDockerKill(d) ==
    /\ Up /\ Draining(d) /\ ~cli[d]
    /\ taken[d] \cap Containers # {}
    /\ Readable
    /\ cli' = [cli EXCEPT ![d] = TRUE]
    /\ UNCHANGED <<childVars, registry, notes, sig, out, outBy, taken,
                   draining, stop, closed, code, owed, unnoted>>

TearDownContainer(d, c) ==
    /\ Up /\ cli[d]
    /\ c \in taken[d] \cap Containers
    /\ cli' = [cli EXCEPT ![d] = FALSE]
    /\ alive' = alive \ {c}
    /\ taken' = [taken EXCEPT ![d] = @ \ {c}]
    /\ UNCHANGED <<phase, registry, notes, sig, out, outBy, draining, stop,
                   closed, code, owed, unnoted>>

\* process::exit, whatever the other threads are doing.
Exit(d) ==
    /\ Up /\ Draining(d)
    /\ taken[d] = {}
    /\ code' = IF d = "signal" THEN "130" ELSE "141"
    /\ UNCHANGED <<childVars, registry, notes, drainVars, closed, owed,
                   unnoted>>

-----------------------------------------------------------------------------
(* The other ends of the process, and the next run                         *)

\* main returns once its children are done.
MainReturns ==
    /\ Up
    /\ \A c \in Children : phase[c] \in {"none", "done"}
    /\ code' = "0"
    /\ UNCHANGED <<childVars, registry, notes, drainVars, closed, owed,
                   unnoted>>

\* SIGKILL, the OOM killer or an abort.
Kill ==
    /\ Up
    /\ code' = "killed"
    /\ UNCHANGED <<childVars, registry, notes, drainVars, closed, owed,
                   unnoted>>

\* reap_orphans in the next run's first start: the owner of every note here
\* is gone.
ReapOrphans ==
    /\ ~Up
    /\ alive' = alive \ notes
    /\ notes' = {}
    /\ UNCHANGED <<phase, registry, drainVars, closed, code, owed, unnoted>>

-----------------------------------------------------------------------------

StartStep(c) ==
    \/ Spawn(c)
    \/ Register(c)
    \/ WriteNote(c)
    \/ NoteFails(c)
    \/ EndStart(c)

Drain(d) ==
    \/ \E c \in Children : TearDownSession(d, c)
    \/ StartDockerKill(d)
    \/ \E c \in Children : TearDownContainer(d, c)
    \/ Exit(d)

Next ==
    \/ \E c \in Children :
          \/ BeginStart(c)
          \/ StartStep(c)
          \/ ChildExits(c)
          \/ StopChild(c)
          \/ Finish(c)
    \/ Signal
    \/ SignalAbsorbed
    \/ SignalTakes
    \/ CloseStderr
    \/ OutputClosed
    \/ OutputTakes
    \/ \E d \in Drainers : Drain(d)
    \/ MainReturns
    \/ Kill
    \/ ReapOrphans

\* What hold_off_teardown asks of the code that holds it (it finishes
\* promptly), and threads that go on running.
Fairness ==
    /\ \A c \in Children : WF_vars(StartStep(c))
    /\ WF_vars(SignalAbsorbed \/ SignalTakes)
    /\ WF_vars(OutputTakes)
    /\ \A d \in Drainers : WF_vars(Drain(d))

Spec == Init /\ [][Next]_vars
FairSpec == Spec /\ Fairness

-----------------------------------------------------------------------------
(* Properties                                                              *)

\* The steps of a start at which its child runs without a teardown.
Unregistered(c) == IF c \in Shorts THEN {"spawned", "between"} ELSE {"spawned"}

\* A running child always has someone who will end it: its teardown is
\* registered, or a drainer has it, or its start still holds STARTS.  A child
\* outside all three would survive ^C (cleanup.rs, spawned.rs).
AliveAccounted ==
    Up => \A c \in alive :
              \/ c \in registry \cup taken["signal"] \cup taken["output"]
              \/ phase[c] \in Unregistered(c)

\* "A signal that lands mid-start waits for that child's teardown and runs it
\* too" (STARTS): whatever ran when the handler selected, starts in flight
\* included, is dead when the process exits 130, except what the closed-output
\* thread had taken and not reached.
SignalEndsStarts == code = "130" => alive \cap owed \subseteq taken["output"]

\* "A child must not keep burning the machine while its parent finishes a
\* loop" (handle_signal): a signal is absorbed only when nothing runs but
\* short commands and what another thread is tearing down.
GracefulSparesNoChild ==
    [][SignalAbsorbed => alive \subseteq Shorts \cup taken["output"]]_vars

\* Whatever ends the process, a session it leaves is on disk for the next
\* run's reap_orphans, unless it is a container's or the end came before the
\* start could write the note (orphans.rs).
LeftNoted ==
    ~Up => \A c \in alive :
              \/ c \in notes \cup Containers \cup unnoted
              \/ phase[c] \in MidStart

\* A start that finds stderr closed while it logs a failed note drains with its
\* own STARTS read lock held: it and the handler may wait for each other.
DrainsInStart == outBy # Watcher

\* The handler gets STARTS from the starts it waits for, and a signal is
\* answered (handle_signal).
SignalAnswered == (sig = "waiting") ~> (sig # "waiting" \/ ~Up \/ DrainsInStart)

\* A teardown once begun ends the process: a teardown that starts a child of
\* its own gets STARTS after the handler ("run with the lock released",
\* handle_signal).
DrainEnds == draining ~> (~Up \/ DrainsInStart)

\* "When stderr loses its reader, the process runs every registered teardown
\* and then exits 141" (stop_on_closed_output).
ClosedOutputTearsDown == code \in {"130", "141"} => taken["output"] = {}

-----------------------------------------------------------------------------
(* The inductive invariant                                                 *)

\* A session runs only between its spawn and its reap.
RunsInPhase == \A c \in alive : phase[c] \in {"spawned", "between", "ready", "up"}

\* A drainer has teardowns only while it drains, and DRAINING is then set.
TakenByDrainers ==
    /\ ~draining => out = "idle"
    /\ sig # "draining" => taken["signal"] = {}
    /\ out # "draining" => taken["output"] = {}

\* What the handler owes is started, and is dead or still with a drainer.
OwedInHand ==
    /\ \A c \in owed : phase[c] \notin {"none", "starting"}
    /\ Up /\ sig = "draining" =>
          alive \cap owed \subseteq taken["signal"] \cup taken["output"]

\* A start past its note has one, or could not write it.
NotedOnceStarted ==
    Up => \A c \in Children :
              phase[c] \in {"ready", "up"} \cup
                          (IF c \in Shorts THEN {"between"} ELSE {})
                  => c \in notes \cup Containers \cup unnoted

IInv ==
    /\ TypeOK
    /\ RunsInPhase
    /\ TakenByDrainers
    /\ OwedInHand
    /\ NotedOnceStarted
    /\ AliveAccounted
    /\ SignalEndsStarts
    /\ LeftNoted

=============================================================================
