------------------------------- MODULE Catalog -------------------------------
(***************************************************************************)
(* The benchmark catalog a client keeps of its server's (pipette-cli:      *)
(* client/sync.rs pull_remote_benchmarks, benchmarks/store.rs,             *)
(* commands/worker.rs ensure_claim_benchmark_cached).                      *)
(*                                                                         *)
(* A `sync` pulls the list and the details it names; a worker's claim      *)
(* revalidates the one detail it runs.  Both write the same files, in      *)
(* steps a kill or another process may come between, and both ask the      *)
(* server conditionally, by the ETag they kept.  An ETag is a hash of the  *)
(* body, so it is modelled by the body: the list is the set of its rows,   *)
(* a detail is a version.                                                  *)
(*                                                                         *)
(* fs::write truncates and then writes.  Two writers of one file may       *)
(* leave a mix of both, which reads as an error; so does the empty file a  *)
(* kill leaves.  A tag file is written whole: an empty or a mixed one      *)
(* does not match its body's digest, and counts as none.                   *)
(***************************************************************************)
EXTENDS Naturals, FiniteSets

CONSTANTS
    Ids,       \* benchmark ids
    Known,     \* those of a type this build knows
    Versions,  \* bodies of a detail
    Start,     \* server -> id -> the detail it has at first
    Broken,    \* <<id, version>>: a body that does not convert
    Servers,   \* servers a `sync` may be aimed at
    Home,      \* the one the workspace is registered with
    Pullers,   \* `sync` commands
    Claimers,  \* worker claims
    MaxPulls,  \* bound on runs of `sync`
    MaxClaims, \* bound on claims
    MaxEdits,  \* bound on the servers' changes
    MaxFaults, \* bound on faults and failed writes
    None,      \* no file, no id, no tag
    Empty,     \* a file truncated and not yet written
    Torn       \* a file with two writers' bytes

Procs == Pullers \cup Claimers
Answers == Versions \cup {"current", "failed"}
Unreadable == {Empty, Torn}

ASSUME SetsAssumption ==
    /\ Known \subseteq Ids
    /\ Versions \cap {"current", "failed"} = {}
    /\ {None, Empty, Torn} \cap (Ids \cup Versions) = {}
    /\ Start \in [Servers -> [Ids -> Versions]]
    /\ Broken \subseteq Ids \X Versions
    /\ Home \in Servers
    /\ Pullers \cap Claimers = {}
ASSUME BoundsAssumption ==
    /\ MaxPulls \in Nat
    /\ MaxClaims \in Nat
    /\ MaxEdits \in Nat
    /\ MaxFaults \in Nat

VARIABLES
    list,     \* server -> the ids it lists
    detail,   \* server -> id -> its detail
    body,     \* id -> remote/detail/<id>.json
    tag,      \* id -> the body named by remote/detail/<id>.etag
    index,    \* remote/state/index.json
    state,    \* remote/state/sync.json: the server and its list tag
    pc,       \* process -> what it does next
    from,     \* process -> the server it asks
    known,    \* process -> the list tag it read, then the one it will keep
    rows,     \* process -> the index it read, then the rows it goes by
    fresh,    \* process -> whether it revalidates
    todo,     \* process -> ids left in this phase
    cur,      \* process -> the id at hand
    seen,     \* process -> the body it read
    sent,     \* process -> id -> the tag it asks with
    answer,   \* process -> id -> what the server answered
    cut,      \* processes whose open file was unlinked
    pulls, claims, edits, faults,
    \* History, read by the properties and by no action:
    alone,    \* the pull that no other process and no server change has met
    outcome,  \* claim -> how it ended
    ran,      \* claim -> the version it runs
    served    \* claim -> the server's version when it answered

serverVars == <<list, detail>>
detailVars == <<body, tag>>
stateVars == <<index, state>>
pullVars == <<from, known, rows, fresh>>
getVars == <<seen, sent, answer>>
counts == <<pulls, claims, edits, faults>>
claimVars == <<outcome, ran, served>>
vars == <<serverVars, detailVars, stateVars, pc, pullVars, todo, cur, getVars, cut, counts,
          alone, claimVars>>

Unsent == [i \in Ids |-> None]
Go(p, to) == pc' = [pc EXCEPT ![p] = to]

-----------------------------------------------------------------------------
(* The store. *)

\* Mutant: the digest beside the tag is not compared with the body.
MutHonored(i, b) == IF b \in Versions THEN tag[i] ELSE None

\* get_remote: a tag counts only for the body it was written with.
Honored(i, b) == IF b \in Versions /\ tag[i] = b THEN b ELSE None

\* What a write leaves in a file the process truncated: what it wrote, or a
\* mix if another's write came in between.
Written(now, v) == IF now \in {Empty, v} THEN {v} ELSE {v, Torn}

\* A process reads the detail of an id, and then the tag beside it.
ReadBody(p, i) ==
    /\ pc[p] = "read"
    /\ i \in todo[p]
    /\ cur' = [cur EXCEPT ![p] = i]
    /\ todo' = [todo EXCEPT ![p] = @ \ {i}]
    /\ seen' = [seen EXCEPT ![p] = body[i]]
    /\ Go(p, "tag")
    /\ UNCHANGED <<serverVars, detailVars, stateVars, pullVars, sent, answer, cut, counts,
                   alone, claimVars>>

\* A claim keeps the body it read, to run it.
ReadTag(p) ==
    /\ pc[p] = "tag"
    /\ sent' = [sent EXCEPT ![p][cur[p]] = Honored(cur[p], seen[p])]
    /\ IF p \in Pullers
       THEN /\ seen' = [seen EXCEPT ![p] = None]
            /\ cur' = [cur EXCEPT ![p] = None]
            /\ Go(p, "read")
       ELSE Go(p, "ask") /\ UNCHANGED <<seen, cur>>
    /\ UNCHANGED <<serverVars, detailVars, stateVars, pullVars, todo, answer, cut, counts,
                   alone, claimVars>>

\* The server's answer to GET /benchmarks/<id>: the detail, 304, or 404.
Detail(p, i) ==
    IF i \notin list[from[p]] THEN "failed"
    ELSE IF sent[p][i] = detail[from[p]][i] THEN "current" ELSE detail[from[p]][i]

\* put_remote: the tag goes first, ...
Untag(p) ==
    /\ pc[p] = "untag"
    /\ tag' = [tag EXCEPT ![cur[p]] = None]
    /\ Go(p, "truncate")
    /\ UNCHANGED <<serverVars, body, stateVars, pullVars, todo, cur, getVars, cut, counts,
                   alone, claimVars>>

\* ... then the body is truncated ...
Truncate(p) ==
    /\ pc[p] = "truncate"
    /\ body' = [body EXCEPT ![cur[p]] = Empty]
    /\ Go(p, "write")
    /\ UNCHANGED <<serverVars, tag, stateVars, pullVars, todo, cur, getVars, cut, counts,
                   alone, claimVars>>

\* ... and written, to nowhere when a prune has unlinked the open file, ...
WriteBody(p) ==
    /\ pc[p] = "write"
    /\ IF p \in cut
       THEN UNCHANGED body
       ELSE \E b \in Written(body[cur[p]], answer[p][cur[p]]) :
                body' = [body EXCEPT ![cur[p]] = b]
    /\ cut' = cut \ {p}
    /\ Go(p, "retag")
    /\ UNCHANGED <<serverVars, tag, stateVars, pullVars, todo, cur, getVars, counts, alone,
                   claimVars>>

\* put_remote ends: a pull goes on, a claim runs what it fetched.
Stored(p) ==
    /\ cur' = [cur EXCEPT ![p] = None]
    /\ IF p \in Pullers
       THEN Go(p, "store") /\ UNCHANGED <<outcome, ran, sent, answer>>
       ELSE /\ outcome' = [outcome EXCEPT ![p] = "fetched"]
            /\ ran' = [ran EXCEPT ![p] = answer[p][cur[p]]]
            /\ sent' = [sent EXCEPT ![p] = Unsent]
            /\ answer' = [answer EXCEPT ![p] = Unsent]
            /\ Go(p, "idle")

\* ... and the tag last, if the server sent one.
Retag(p) ==
    /\ pc[p] = "retag"
    /\ \/ tag' = [tag EXCEPT ![cur[p]] = answer[p][cur[p]]]
       \/ UNCHANGED tag
    /\ Stored(p)
    /\ UNCHANGED <<serverVars, body, stateVars, pullVars, todo, seen, cut, counts, alone,
                   served>>

\* A write of put_remote fails.  A claim runs its definition all the same (a
\* pull ends there, as when it is killed).
PutFails(p) ==
    /\ p \in Claimers
    /\ pc[p] \in {"untag", "truncate", "write", "retag"}
    /\ faults < MaxFaults
    /\ faults' = faults + 1
    /\ cut' = cut \ {p}
    /\ Stored(p)
    /\ UNCHANGED <<serverVars, detailVars, stateVars, pullVars, todo, seen, pulls, claims,
                   edits, alone, served>>

-----------------------------------------------------------------------------
(* A pull. *)

Active(p) == pc[p] # "idle"

\* get_sync_state, for the server this pull is aimed at.  A file that does not
\* parse ends the command, with nothing submitted.
PullStart(p, s) ==
    /\ ~ Active(p)
    /\ pulls < MaxPulls
    /\ pulls' = pulls + 1
    /\ alone' = {q \in {p} : \A o \in Procs : ~ Active(o)}
    /\ IF state \in Unreadable
       THEN UNCHANGED <<pc, pullVars>>
       ELSE LET mine == state # None /\ state.server = s
            IN  /\ from' = [from EXCEPT ![p] = s]
                /\ fresh' = [fresh EXCEPT ![p] = mine]
                /\ known' = [known EXCEPT ![p] = IF mine THEN state.rows ELSE None]
                /\ Go(p, "index")
                /\ UNCHANGED rows
    /\ UNCHANGED <<serverVars, detailVars, stateVars, todo, cur, getVars, cut, claims, edits,
                   faults, claimVars>>

\* The process ends and holds nothing.
PullEnds(p) ==
    /\ Go(p, "idle")
    /\ from' = [from EXCEPT ![p] = Home]
    /\ fresh' = [fresh EXCEPT ![p] = FALSE]
    /\ known' = [known EXCEPT ![p] = None]
    /\ rows' = [rows EXCEPT ![p] = {}]
    /\ todo' = [todo EXCEPT ![p] = {}]
    /\ cur' = [cur EXCEPT ![p] = None]
    /\ seen' = [seen EXCEPT ![p] = None]
    /\ sent' = [sent EXCEPT ![p] = Unsent]
    /\ answer' = [answer EXCEPT ![p] = Unsent]

\* list_remote_index, or its error.
ReadIndex(p) ==
    /\ pc[p] = "index"
    /\ IF index \in Unreadable
       THEN PullEnds(p)
       ELSE /\ rows' = [rows EXCEPT ![p] = IF index = None THEN {} ELSE index]
            /\ Go(p, "list")
            /\ UNCHANGED <<from, known, fresh, todo, cur, getVars>>
    /\ UNCHANGED <<serverVars, detailVars, stateVars, cut, counts, alone, claimVars>>

\* GET /benchmarks.  Not modified, the cached rows stand; else the server's.
\* The rows of a type this build knows have their details read or, from
\* another server, asked for outright.
List(p) ==
    /\ pc[p] = "list"
    /\ rows' = [rows EXCEPT ![p] = IF known[p] = list[from[p]] THEN @ ELSE list[from[p]]]
    /\ known' = [known EXCEPT ![p] = list[from[p]]]
    /\ todo' = [todo EXCEPT ![p] = rows'[p] \cap Known]
    /\ Go(p, IF fresh[p] THEN "read" ELSE "fetch")
    /\ UNCHANGED <<serverVars, detailVars, stateVars, from, fresh, cur, getVars, cut, counts,
                   alone, claimVars>>

\* The list request fails.
ListFails(p) ==
    /\ pc[p] = "list"
    /\ PullEnds(p)
    /\ UNCHANGED <<serverVars, detailVars, stateVars, cut, counts, alone, claimVars>>

\* Every tag is read: the requests go out.
Requests(p) ==
    /\ pc[p] = "read"
    /\ todo[p] = {}
    /\ todo' = [todo EXCEPT ![p] = rows[p] \cap Known]
    /\ Go(p, "fetch")
    /\ UNCHANGED <<serverVars, detailVars, stateVars, pullVars, cur, getVars, cut, counts,
                   alone, claimVars>>

\* One detail request, answered or failed.
Fetch(p, i) ==
    /\ pc[p] = "fetch"
    /\ i \in todo[p]
    /\ todo' = [todo EXCEPT ![p] = @ \ {i}]
    /\ \E a \in {"failed", Detail(p, i)} : answer' = [answer EXCEPT ![p][i] = a]
    /\ UNCHANGED <<serverVars, detailVars, stateVars, pc, pullVars, cur, seen, sent, cut,
                   counts, alone, claimVars>>

Fetchable(p) == rows[p] \cap Known
AllFailed(p) == Fetchable(p) # {} /\ \A i \in Fetchable(p) : answer[p][i] = "failed"

\* The responses to keep: modified, and of a body that converts.
Kept(p) == {i \in Fetchable(p) : answer[p][i] \in Versions /\ <<i, answer[p][i]>> \notin Broken}

\* Mutant: a detail is kept only where there is none yet.
MutFetched(p) ==
    /\ pc[p] = "fetch"
    /\ todo[p] = {}
    /\ IF AllFailed(p)
       THEN PullEnds(p)
       ELSE /\ todo' = [todo EXCEPT ![p] = {i \in Kept(p) : body[i] = None}]
            /\ Go(p, "store")
            /\ UNCHANGED <<pullVars, cur, getVars>>
    /\ UNCHANGED <<serverVars, detailVars, stateVars, cut, counts, alone, claimVars>>

\* All answered.  A server that failed every one is down, and the catalog stays.
Fetched(p) ==
    /\ pc[p] = "fetch"
    /\ todo[p] = {}
    /\ IF AllFailed(p)
       THEN PullEnds(p)
       ELSE /\ todo' = [todo EXCEPT ![p] = Kept(p)]
            /\ Go(p, "store")
            /\ UNCHANGED <<pullVars, cur, getVars>>
    /\ UNCHANGED <<serverVars, detailVars, stateVars, cut, counts, alone, claimVars>>

\* The next response to store.
Store(p, i) ==
    /\ pc[p] = "store"
    /\ i \in todo[p]
    /\ todo' = [todo EXCEPT ![p] = @ \ {i}]
    /\ cur' = [cur EXCEPT ![p] = i]
    /\ Go(p, "untag")
    /\ UNCHANGED <<serverVars, detailVars, stateVars, pullVars, getVars, cut, counts, alone,
                   claimVars>>

\* prune_remote_details lists the details on disk that the list does not name.
Prune(p) ==
    /\ pc[p] = "store"
    /\ todo[p] = {}
    /\ todo' = [todo EXCEPT ![p] = {i \in Ids \ rows[p] : body[i] # None}]
    /\ Go(p, "prune")
    /\ UNCHANGED <<serverVars, detailVars, stateVars, pullVars, cur, getVars, cut, counts,
                   alone, claimVars>>

\* Of each the tag goes first ...
PruneTag(p, i) ==
    /\ pc[p] = "prune"
    /\ i \in todo[p]
    /\ todo' = [todo EXCEPT ![p] = @ \ {i}]
    /\ cur' = [cur EXCEPT ![p] = i]
    /\ tag' = [tag EXCEPT ![i] = None]
    /\ Go(p, "unlink")
    /\ UNCHANGED <<serverVars, body, stateVars, pullVars, getVars, cut, counts, alone,
                   claimVars>>

\* ... then the body, under whoever is writing it.
PruneBody(p) ==
    /\ pc[p] = "unlink"
    /\ body' = [body EXCEPT ![cur[p]] = None]
    /\ cut' = cut \cup {q \in Procs : pc[q] = "write" /\ cur[q] = cur[p]}
    /\ cur' = [cur EXCEPT ![p] = None]
    /\ Go(p, "prune")
    /\ UNCHANGED <<serverVars, tag, stateVars, pullVars, todo, getVars, counts, alone,
                   claimVars>>

\* put_remote_index: truncated, then written.
IndexBegins(p) ==
    /\ pc[p] = "prune"
    /\ todo[p] = {}
    /\ index' = Empty
    /\ Go(p, "rows")
    /\ UNCHANGED <<serverVars, detailVars, state, pullVars, todo, cur, getVars, cut, counts,
                   alone, claimVars>>

PutIndex(p) ==
    /\ pc[p] = "rows"
    /\ \E v \in Written(index, rows[p]) : index' = v
    /\ Go(p, "state")
    /\ UNCHANGED <<serverVars, detailVars, state, pullVars, todo, cur, getVars, cut, counts,
                   alone, claimVars>>

\* put_sync_state, the same way; and the pull is done.
StateBegins(p) ==
    /\ pc[p] = "state"
    /\ state' = Empty
    /\ Go(p, "sync")
    /\ UNCHANGED <<serverVars, detailVars, index, pullVars, todo, cur, getVars, cut, counts,
                   alone, claimVars>>

PutState(p) ==
    /\ pc[p] = "sync"
    /\ \E v \in Written(state, [server |-> from[p], rows |-> known[p]]) : state' = v
    /\ PullEnds(p)
    /\ UNCHANGED <<serverVars, detailVars, index, cut, counts, alone, claimVars>>

-----------------------------------------------------------------------------
(* A claim: ensure_claim_benchmark_cached. *)

ClaimStart(p, i) ==
    /\ ~ Active(p)
    /\ claims < MaxClaims
    /\ claims' = claims + 1
    /\ alone' = {}
    /\ todo' = [todo EXCEPT ![p] = {i}]
    /\ outcome' = [outcome EXCEPT ![p] = "none"]
    /\ ran' = [ran EXCEPT ![p] = None]
    /\ served' = [served EXCEPT ![p] = None]
    /\ Go(p, "read")
    /\ UNCHANGED <<serverVars, detailVars, stateVars, pullVars, cur, getVars, cut, pulls,
                   edits, faults>>

\* The claim ends without a fetch to store.
ClaimEnds(p, how, v) ==
    /\ outcome' = [outcome EXCEPT ![p] = how]
    /\ ran' = [ran EXCEPT ![p] = v]
    /\ cur' = [cur EXCEPT ![p] = None]
    /\ seen' = [seen EXCEPT ![p] = None]
    /\ sent' = [sent EXCEPT ![p] = Unsent]
    /\ Go(p, "idle")

\* The server answers with a definition; one that does not convert fails the
\* claim.
ClaimModified(p) ==
    /\ pc[p] = "ask"
    /\ LET i == cur[p]
           v == Detail(p, i)
       IN  /\ v \in Versions
           /\ served' = [served EXCEPT ![p] = detail[Home][i]]
           /\ IF <<i, v>> \in Broken
              THEN ClaimEnds(p, "refused", None) /\ UNCHANGED answer
              ELSE /\ answer' = [answer EXCEPT ![p][i] = v]
                   /\ seen' = [seen EXCEPT ![p] = None]
                   /\ Go(p, "untag")
                   /\ UNCHANGED <<cur, sent, outcome, ran>>
    /\ UNCHANGED <<serverVars, detailVars, stateVars, pullVars, todo, cut, counts, alone>>

\* 304: the cached definition is current, and is run as it was read.
ClaimNotModified(p) ==
    /\ pc[p] = "ask"
    /\ Detail(p, cur[p]) = "current"
    /\ served' = [served EXCEPT ![p] = detail[Home][cur[p]]]
    /\ ClaimEnds(p, "current", seen[p])
    /\ UNCHANGED <<serverVars, detailVars, stateVars, pullVars, todo, answer, cut, counts,
                   alone>>

\* 404: the server dropped the benchmark, and would refuse its result.
ClaimGone(p) ==
    /\ pc[p] = "ask"
    /\ cur[p] \notin list[Home]
    /\ ClaimEnds(p, "refused", None)
    /\ UNCHANGED <<serverVars, detailVars, stateVars, pullVars, todo, answer, cut, counts,
                   alone, served>>

\* An outage: the cached definition is run unchecked, if it reads.
ClaimOutage(p) ==
    /\ pc[p] = "ask"
    /\ IF seen[p] \in Versions
       THEN ClaimEnds(p, "unchecked", seen[p])
       ELSE ClaimEnds(p, "refused", None)
    /\ UNCHANGED <<serverVars, detailVars, stateVars, pullVars, todo, answer, cut, counts,
                   alone, served>>

-----------------------------------------------------------------------------
(* The environment. *)

\* A process is killed.
Kill(p) ==
    /\ Active(p)
    /\ faults < MaxFaults
    /\ faults' = faults + 1
    /\ cut' = cut \ {p}
    /\ alone' = alone \ {p}
    /\ PullEnds(p)
    /\ UNCHANGED <<serverVars, detailVars, stateVars, pulls, claims, edits, claimVars>>

\* A server's catalog changes.
Edit(s, i) ==
    /\ edits < MaxEdits
    /\ edits' = edits + 1
    /\ alone' = {}
    /\ \/ /\ \E v \in Versions \ {detail[s][i]} : detail' = [detail EXCEPT ![s][i] = v]
          /\ UNCHANGED list
       \/ /\ list' = [list EXCEPT ![s] = IF i \in @ THEN @ \ {i} ELSE @ \cup {i}]
          /\ UNCHANGED detail
    /\ UNCHANGED <<detailVars, stateVars, pc, pullVars, todo, cur, getVars, cut, pulls,
                   claims, faults, claimVars>>

-----------------------------------------------------------------------------

\* A workspace that never synced.
Init ==
    /\ list = [s \in Servers |-> Ids]
    /\ detail = Start
    /\ body = [i \in Ids |-> None]
    /\ tag = [i \in Ids |-> None]
    /\ index = None
    /\ state = None
    /\ pc = [p \in Procs |-> "idle"]
    /\ from = [p \in Procs |-> Home]
    /\ known = [p \in Procs |-> None]
    /\ rows = [p \in Procs |-> {}]
    /\ fresh = [p \in Procs |-> FALSE]
    /\ todo = [p \in Procs |-> {}]
    /\ cur = [p \in Procs |-> None]
    /\ seen = [p \in Procs |-> None]
    /\ sent = [p \in Procs |-> Unsent]
    /\ answer = [p \in Procs |-> Unsent]
    /\ cut = {}
    /\ pulls = 0
    /\ claims = 0
    /\ edits = 0
    /\ faults = 0
    /\ alone = {}
    /\ outcome = [p \in Claimers |-> "none"]
    /\ ran = [p \in Claimers |-> None]
    /\ served = [p \in Claimers |-> None]

Put(p) == Untag(p) \/ Truncate(p) \/ WriteBody(p) \/ Retag(p) \/ PutFails(p)

Pull(p) ==
    \/ \E s \in Servers : PullStart(p, s)
    \/ ReadIndex(p)
    \/ List(p)
    \/ ListFails(p)
    \/ Requests(p)
    \/ \E i \in Ids : Fetch(p, i) \/ Store(p, i) \/ PruneTag(p, i)
    \/ Fetched(p)
    \/ Prune(p)
    \/ PruneBody(p)
    \/ IndexBegins(p)
    \/ PutIndex(p)
    \/ StateBegins(p)
    \/ PutState(p)

Claim(p) ==
    \/ \E i \in Known : ClaimStart(p, i)
    \/ ClaimModified(p)
    \/ ClaimNotModified(p)
    \/ ClaimGone(p)
    \/ ClaimOutage(p)

Next ==
    \/ \E p \in Procs : Put(p) \/ ReadTag(p) \/ Kill(p) \/ \E i \in Ids : ReadBody(p, i)
    \/ \E p \in Pullers : Pull(p)
    \/ \E p \in Claimers : Claim(p)
    \/ \E s \in Servers, i \in Ids : Edit(s, i)

Spec == Init /\ [][Next]_vars

-----------------------------------------------------------------------------
(* Properties. *)

\* The type invariant.
ServersOK ==
    /\ list \in [Servers -> SUBSET Ids]
    /\ detail \in [Servers -> [Ids -> Versions]]

DiskOK ==
    /\ body \in [Ids -> Versions \cup Unreadable \cup {None}]
    /\ tag \in [Ids -> Versions \cup {None}]
    /\ index \in {None} \cup Unreadable \cup SUBSET Ids
    /\ state \in {None} \cup Unreadable \cup [server : Servers, rows : SUBSET Ids]

PullsOK ==
    /\ pc \in [Procs -> {"idle", "index", "list", "read", "tag", "fetch", "store", "untag",
                         "truncate", "write", "retag", "prune", "unlink", "rows", "state",
                         "sync", "ask"}]
    /\ from \in [Procs -> Servers]
    /\ known \in [Procs -> {None} \cup SUBSET Ids]
    /\ rows \in [Procs -> SUBSET Ids]
    /\ fresh \in [Procs -> BOOLEAN]
    /\ todo \in [Procs -> SUBSET Ids]
    /\ cur \in [Procs -> Ids \cup {None}]

GetsOK ==
    /\ seen \in [Procs -> Versions \cup Unreadable \cup {None}]
    /\ sent \in [Procs -> [Ids -> Versions \cup {None}]]
    /\ answer \in [Procs -> [Ids -> Answers \cup {None}]]
    /\ cut \subseteq Procs

ClaimsOK ==
    /\ alone \subseteq Pullers
    /\ outcome \in [Claimers -> {"none", "fetched", "current", "unchecked", "refused"}]
    /\ ran \in [Claimers -> Versions \cup {None}]
    /\ served \in [Claimers -> Versions \cup {None}]

TypeOK == ServersOK /\ DiskOK /\ PullsOK /\ GetsOK /\ ClaimsOK

\* A claim the server answered runs the definition the server had at that
\* moment, whatever pulls, claims and kills left in the cache: never a 304 for
\* bytes that are not the cached ones, never a benchmark the server dropped.
ClaimRunsServed ==
    \A p \in Claimers :
        outcome[p] \in {"fetched", "current"} => ran[p] \in Versions /\ ran[p] = served[p]

\* A pull that nothing disturbs repairs whatever kills and races left before
\* it: when it records itself, each detail the server answered for is the
\* server's, and no detail outside its list is left.
PullHeals ==
    \A p \in alone :
        pc[p] = "sync" =>
            /\ index = rows[p]
            /\ \A i \in Fetchable(p) :
                answer[p][i] = "failed" \/ <<i, answer[p][i]>> \in Broken
                \/ body[i] = detail[from[p]][i]
            /\ \A i \in Ids \ rows[p] : body[i] = None

\* "Every row the server sent, so the list ETag in the sync state validates
\* exactly what is stored": at rest, with no command killed.
ListTagNamesIndex ==
    (\A p \in Procs : ~ Active(p)) /\ faults = 0
    => \/ index \in Unreadable
       \/ state \in Unreadable \cup {None}
       \/ index = state.rows

-----------------------------------------------------------------------------
(* The inductive invariant. *)

Putting == {"untag", "truncate", "write", "retag"}

\* A process has what its place calls for: an id and a body to store, a list
\* to record; a claim asks the home server.
Scoped(p) ==
    /\ pc[p] \in {"tag", "ask", "unlink"} \cup Putting => cur[p] \in Ids
    /\ pc[p] \in Putting => answer[p][cur[p]] \in Versions
    /\ p \in Pullers =>
        /\ pc[p] # "ask"
        /\ pc[p] \in {"store"} \cup Putting => \A i \in todo[p] : answer[p][i] \in Versions
        /\ pc[p] \in {"idle", "index", "list"} => sent[p] = Unsent
        /\ pc[p] \notin {"idle", "index", "list"} => known[p] \in SUBSET Ids
    /\ p \in Claimers =>
        /\ pc[p] \in {"idle", "read", "tag", "ask"} \cup Putting
        /\ from[p] = Home

Scopes == \A p \in Procs : Scoped(p)

\* A claim asks with the tag of the body it read, or with none, and stores what
\* the server answered.
ClaimSound ==
    \A p \in Claimers :
        /\ Active(p) => outcome[p] = "none"
        /\ pc[p] = "ask" => sent[p][cur[p]] \in {None, seen[p]}
        /\ pc[p] \in Putting => answer[p][cur[p]] = served[p]

\* Only an open file is cut off, and never one of a pull that is alone.
CutWriting == \A p \in cut : pc[p] = "write" /\ p \notin alone

\* Nothing runs beside a pull that is alone.
Solo == \A p \in alone : \A o \in Procs \ {p} : ~ Active(o)

\* An id is as the pull's server has it, as far as the server said.
Good(p, i) ==
    \/ answer[p][i] = "failed"
    \/ <<i, answer[p][i]>> \in Broken
    \/ body[i] = detail[from[p]][i]

\* A pull that is alone asks with tags of bodies it has, ...
AsksHonest(p) ==
    /\ pc[p] \in {"index", "list", "read", "tag", "fetch"} =>
        \A i \in Ids : sent[p][i] \in {None, body[i]}
    /\ pc[p] = "tag" => seen[p] = body[cur[p]]

\* ... believes answers that are the server's, ...
AnswersTrue(p) ==
    pc[p] = "fetch" =>
        \A i \in Fetchable(p) \ todo[p] :
            \/ answer[p][i] \in {"failed", detail[from[p]][i]}
            \/ answer[p][i] = "current" /\ body[i] = detail[from[p]][i]

\* ... stores each of them, ...
Storing(p) ==
    /\ pc[p] = "store" \/ pc[p] \in Putting =>
        /\ todo[p] \subseteq Fetchable(p)
        /\ \A i \in todo[p] : answer[p][i] = detail[from[p]][i]
        /\ \A i \in Fetchable(p) :
            Good(p, i) \/ i \in todo[p] \/ (pc[p] \in Putting /\ i = cur[p])
    /\ pc[p] \in Putting => cur[p] \in Fetchable(p) /\ answer[p][cur[p]] = detail[from[p]][cur[p]]
    /\ pc[p] = "write" => body[cur[p]] = Empty
    /\ pc[p] = "retag" => body[cur[p]] = answer[p][cur[p]]

\* ... and removes the others before it writes its list.
Pruning(p) ==
    pc[p] \in {"prune", "unlink", "rows", "state", "sync"} =>
        /\ \A i \in Fetchable(p) : Good(p, i)
        /\ \A i \in Ids \ rows[p] :
            \/ body[i] = None
            \/ pc[p] \in {"prune", "unlink"} /\ i \in todo[p]
            \/ pc[p] = "unlink" /\ i = cur[p]
        /\ pc[p] \in {"prune", "unlink"} => todo[p] \subseteq Ids \ rows[p]
        /\ pc[p] = "unlink" => cur[p] \in Ids \ rows[p]
        /\ pc[p] = "rows" => index = Empty
        /\ pc[p] \in {"state", "sync"} => index = rows[p]

Sound(p) == AsksHonest(p) /\ AnswersTrue(p) /\ Storing(p) /\ Pruning(p)

Healing == \A p \in alone : Sound(p)

IInv == TypeOK /\ Scopes /\ ClaimSound /\ ClaimRunsServed /\ CutWriting /\ Solo /\ Healing
=============================================================================
