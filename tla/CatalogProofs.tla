---------------------------- MODULE CatalogProofs ----------------------------
(***************************************************************************)
(* Theorems about Catalog, for any number of benchmarks, versions,         *)
(* servers, pulls and claims, and every bound on edits and faults.         *)
(***************************************************************************)
EXTENDS Catalog, TLAPS

USE SetsAssumption

\* What a server answers to a request for a detail.
LEMMA DetailFacts ==
    ASSUME TypeOK, NEW p \in Procs, NEW i \in Ids
    PROVE  /\ detail[from[p]][i] \in Versions
           /\ Detail(p, i) \in {"failed", "current", detail[from[p]][i]}
           /\ Detail(p, i) \in Answers
           /\ Detail(p, i) = "current" => sent[p][i] = detail[from[p]][i]
           /\ Detail(p, i) \in Versions => Detail(p, i) = detail[from[p]][i]
<1>1. detail[from[p]][i] \in Versions
  BY DEF TypeOK, ServersOK, PullsOK
<1> QED BY <1>1 DEF Detail, Answers

\* A process that ends keeps the types.
LEMMA PullEndsFacts ==
    ASSUME TypeOK, NEW p \in Procs, PullEnds(p)
    PROVE  /\ PullsOK'
           /\ seen' \in [Procs -> Versions \cup Unreadable \cup {None}]
           /\ sent' \in [Procs -> [Ids -> Versions \cup {None}]]
           /\ answer' \in [Procs -> [Ids -> Answers \cup {None}]]
<1>1. Unsent \in [Ids -> Versions \cup {None}] /\ Unsent \in [Ids -> Answers \cup {None}]
  BY DEF Unsent
<1>2. PullsOK'
  BY DEF PullEnds, Go, TypeOK, PullsOK
<1>3. seen' \in [Procs -> Versions \cup Unreadable \cup {None}]
  BY DEF PullEnds, TypeOK, GetsOK
<1>4. sent' \in [Procs -> [Ids -> Versions \cup {None}]]
  BY <1>1 DEF PullEnds, TypeOK, GetsOK
<1>5. answer' \in [Procs -> [Ids -> Answers \cup {None}]]
  BY <1>1 DEF PullEnds, TypeOK, GetsOK
<1> QED BY <1>2, <1>3, <1>4, <1>5

\* What a store that ends changes: nothing of a pull but its place.
LEMMA StoredFacts ==
    ASSUME TypeOK, NEW p \in Procs, Stored(p)
    PROVE  /\ cur' = [cur EXCEPT ![p] = None]
           /\ p \in Pullers =>
                pc' = [pc EXCEPT ![p] = "store"] /\ UNCHANGED <<outcome, ran, sent, answer>>
           /\ p \notin Pullers =>
                /\ pc' = [pc EXCEPT ![p] = "idle"]
                /\ sent' = [sent EXCEPT ![p] = Unsent]
                /\ answer' = [answer EXCEPT ![p] = Unsent]
           /\ sent' \in [Procs -> [Ids -> Versions \cup {None}]]
           /\ answer' \in [Procs -> [Ids -> Answers \cup {None}]]
<1>1. Unsent \in [Ids -> Versions \cup {None}] /\ Unsent \in [Ids -> Answers \cup {None}]
  BY DEF Unsent
<1>2. /\ cur' = [cur EXCEPT ![p] = None]
      /\ p \in Pullers =>
           pc' = [pc EXCEPT ![p] = "store"] /\ UNCHANGED <<outcome, ran, sent, answer>>
      /\ p \notin Pullers =>
           /\ pc' = [pc EXCEPT ![p] = "idle"]
           /\ sent' = [sent EXCEPT ![p] = Unsent]
           /\ answer' = [answer EXCEPT ![p] = Unsent]
  BY DEF Stored, Go
<1>3. sent' \in [Procs -> [Ids -> Versions \cup {None}]]
  BY <1>1, <1>2 DEF TypeOK, GetsOK
<1>4. answer' \in [Procs -> [Ids -> Answers \cup {None}]]
  BY <1>1, <1>2 DEF TypeOK, GetsOK
<1> QED BY <1>2, <1>3, <1>4

\* A request goes out or an outage is met: how the claim ends.
LEMMA ClaimOutageFacts ==
    ASSUME TypeOK, NEW p \in Claimers, ClaimOutage(p)
    PROVE  /\ outcome' \in [Claimers -> {"none", "fetched", "current", "unchecked", "refused"}]
           /\ ran' \in [Claimers -> Versions \cup {None}]
           /\ outcome'[p] \in {"unchecked", "refused"}
           /\ \A q \in Claimers \ {p} : outcome'[q] = outcome[q] /\ ran'[q] = ran[q]
           /\ cur' = [cur EXCEPT ![p] = None]
           /\ seen' = [seen EXCEPT ![p] = None]
           /\ sent' = [sent EXCEPT ![p] = Unsent]
           /\ pc' = [pc EXCEPT ![p] = "idle"]
           /\ pc[p] = "ask"
<1> PICK how \in {"unchecked", "refused"}, v \in Versions \cup {None} : ClaimEnds(p, how, v)
  BY DEF ClaimOutage
<1>1. outcome' = [outcome EXCEPT ![p] = how] /\ ran' = [ran EXCEPT ![p] = v]
  BY DEF ClaimEnds
<1>2. /\ cur' = [cur EXCEPT ![p] = None]
      /\ seen' = [seen EXCEPT ![p] = None]
      /\ sent' = [sent EXCEPT ![p] = Unsent]
      /\ pc' = [pc EXCEPT ![p] = "idle"]
  BY DEF ClaimEnds, Go
<1>3. pc[p] = "ask"
  BY DEF ClaimOutage
<1>4. /\ outcome' \in [Claimers -> {"none", "fetched", "current", "unchecked", "refused"}]
      /\ outcome'[p] \in {"unchecked", "refused"}
      /\ \A q \in Claimers \ {p} : outcome'[q] = outcome[q]
  BY <1>1 DEF TypeOK, ClaimsOK
<1>5. ran' \in [Claimers -> Versions \cup {None}] /\ \A q \in Claimers \ {p} : ran'[q] = ran[q]
  BY <1>1 DEF TypeOK, ClaimsOK
<1> QED BY <1>2, <1>3, <1>4, <1>5

\* A step that leaves the other processes alone leaves them in scope.
LEMMA ScopesFrame ==
    ASSUME Scopes, NEW p \in Procs, Scoped(p)',
           \A q \in Procs \ {p} :
             /\ pc'[q] = pc[q] /\ cur'[q] = cur[q] /\ answer'[q] = answer[q] /\ todo'[q] = todo[q]
             /\ sent'[q] = sent[q] /\ known'[q] = known[q] /\ from'[q] = from[q]
    PROVE  Scopes'
<1> SUFFICES ASSUME NEW q \in Procs, q # p PROVE Scoped(q)'
  BY DEF Scopes
<1> QED BY DEF Scopes, Scoped


\* Edits keep the servers' catalogs.
LEMMA ServersStep ==
    ASSUME TypeOK, [Next]_vars
    PROVE  ServersOK'
<1>1. ASSUME UNCHANGED <<list, detail>> PROVE ServersOK'
  BY <1>1 DEF TypeOK, ServersOK
<1>2. ASSUME NEW s \in Servers, NEW i \in Ids, Edit(s, i) PROVE ServersOK'
  <2>1. ASSUME NEW v \in Versions, detail' = [detail EXCEPT ![s][i] = v] PROVE ServersOK'
    BY <1>2, <2>1 DEF Edit, TypeOK, ServersOK
  <2>2. CASE UNCHANGED detail
    BY <1>2, <2>2 DEF Edit, TypeOK, ServersOK
  <2> QED BY <1>2, <2>1, <2>2 DEF Edit
<1>3. ASSUME NEW p \in Procs, Untag(p) \/ Truncate(p) \/ WriteBody(p) \/ Retag(p) \/
   PutFails(p) \/ ReadTag(p) \/ Kill(p) PROVE UNCHANGED <<list, detail>>
  BY <1>3 DEF Untag, serverVars, Truncate, WriteBody, Retag, PutFails, ReadTag, Kill
<1>4. ASSUME NEW p \in Procs, NEW i \in Ids, ReadBody(p, i) PROVE UNCHANGED <<list,
   detail>>
  BY <1>4 DEF ReadBody, Go, serverVars
<1>5. ASSUME NEW p \in Pullers, NEW s \in Servers, PullStart(p, s) PROVE UNCHANGED
   <<list, detail>>
  BY <1>5 DEF PullStart, Active, Go, serverVars
<1>6. ASSUME NEW p \in Pullers, ReadIndex(p) \/ List(p) \/ ListFails(p) \/
   Requests(p) \/ Fetched(p) \/ Prune(p) \/ PruneBody(p) \/ IndexBegins(p) \/
   PutIndex(p) \/ StateBegins(p) \/ PutState(p) PROVE UNCHANGED <<list, detail>>
  BY <1>6 DEF ReadIndex, serverVars, List, ListFails, Requests, Fetched, Prune,
     PruneBody, IndexBegins, PutIndex, StateBegins, PutState
<1>7. ASSUME NEW p \in Pullers, NEW i \in Ids, Fetch(p, i) \/ Store(p, i) \/
   PruneTag(p, i) PROVE UNCHANGED <<list, detail>>
  BY <1>7 DEF Fetch, serverVars, Store, Go, PruneTag
<1>8. ASSUME NEW p \in Claimers, NEW i \in Known, ClaimStart(p, i) PROVE UNCHANGED
   <<list, detail>>
  BY <1>8 DEF ClaimStart, Active, Go, serverVars
<1>9. ASSUME NEW p \in Claimers, ClaimModified(p) \/ ClaimNotModified(p) \/
   ClaimGone(p) \/ ClaimOutage(p) PROVE UNCHANGED <<list, detail>>
  BY <1>9 DEF ClaimModified, serverVars, ClaimNotModified, ClaimGone, ClaimOutage
<1>10. CASE UNCHANGED vars
  BY <1>1, <1>10 DEF vars, serverVars
<1> QED
  BY <1>1, <1>2, <1>3, <1>4, <1>5, <1>6, <1>7, <1>8, <1>9, <1>10 DEF Next, Put,
     Pull, Claim

\* What is written is a definition, a list, or unreadable.
LEMMA DiskStep ==
    ASSUME TypeOK, Scopes, [Next]_vars
    PROVE  DiskOK'
<1>1. ASSUME UNCHANGED <<body, tag, index, state>> PROVE DiskOK'
  BY <1>1 DEF TypeOK, DiskOK
<1>2. ASSUME NEW p \in Procs, Untag(p) PROVE DiskOK'
  BY <1>2 DEF Untag, stateVars, TypeOK, DiskOK
<1>3. ASSUME NEW p \in Procs, Truncate(p) PROVE DiskOK'
  BY <1>3 DEF Truncate, stateVars, TypeOK, DiskOK, Unreadable
<1>4. ASSUME NEW p \in Procs, WriteBody(p) PROVE DiskOK'
  BY <1>4 DEF WriteBody, Written, stateVars, TypeOK, DiskOK, Scopes, Scoped,
     Putting, Procs, Unreadable
<1>5. ASSUME NEW p \in Procs, Retag(p) PROVE DiskOK'
  BY <1>5 DEF Retag, stateVars, TypeOK, DiskOK, Scopes, Scoped, Putting
<1>6. ASSUME NEW p \in Pullers, PruneBody(p) PROVE DiskOK'
  BY <1>6 DEF PruneBody, stateVars, TypeOK, DiskOK
<1>7. ASSUME NEW p \in Pullers, IndexBegins(p) PROVE DiskOK'
  BY <1>7 DEF IndexBegins, detailVars, TypeOK, DiskOK, Unreadable
<1>8. ASSUME NEW p \in Pullers, PutIndex(p) PROVE DiskOK'
  BY <1>8 DEF PutIndex, Written, detailVars, TypeOK, DiskOK, PullsOK, Procs,
     Unreadable
<1>9. ASSUME NEW p \in Pullers, StateBegins(p) PROVE DiskOK'
  BY <1>9 DEF StateBegins, detailVars, TypeOK, DiskOK, Unreadable
<1>10. ASSUME NEW p \in Pullers, PutState(p) PROVE DiskOK'
  BY <1>10 DEF PutState, Written, detailVars, TypeOK, DiskOK, PullsOK, Scopes,
     Scoped, Procs, Unreadable
<1>11. ASSUME NEW p \in Pullers, NEW i \in Ids, PruneTag(p, i) PROVE DiskOK'
  BY <1>11 DEF PruneTag, stateVars, TypeOK, DiskOK
<1>12. ASSUME NEW p \in Procs, PutFails(p) \/ ReadTag(p) \/ Kill(p) PROVE UNCHANGED
   <<body, tag, index, state>>
  BY <1>12 DEF PutFails, detailVars, stateVars, ReadTag, Kill
<1>13. ASSUME NEW p \in Procs, NEW i \in Ids, ReadBody(p, i) PROVE UNCHANGED <<body,
   tag, index, state>>
  BY <1>13 DEF ReadBody, Go, detailVars, stateVars
<1>14. ASSUME NEW p \in Pullers, NEW s \in Servers, PullStart(p, s) PROVE UNCHANGED
   <<body, tag, index, state>>
  BY <1>14 DEF PullStart, Active, Go, detailVars, stateVars
<1>15. ASSUME NEW p \in Pullers, ReadIndex(p) \/ List(p) \/ ListFails(p) \/
   Requests(p) \/ Fetched(p) \/ Prune(p) PROVE UNCHANGED <<body, tag, index, state>>
  BY <1>15 DEF ReadIndex, detailVars, stateVars, List, ListFails, Requests, Fetched,
     Prune
<1>16. ASSUME NEW p \in Pullers, NEW i \in Ids, Fetch(p, i) \/ Store(p, i) PROVE
   UNCHANGED <<body, tag, index, state>>
  BY <1>16 DEF Fetch, detailVars, stateVars, Store, Go
<1>17. ASSUME NEW p \in Claimers, NEW i \in Known, ClaimStart(p, i) PROVE UNCHANGED
   <<body, tag, index, state>>
  BY <1>17 DEF ClaimStart, Active, Go, detailVars, stateVars
<1>18. ASSUME NEW p \in Claimers, ClaimModified(p) \/ ClaimNotModified(p) \/
   ClaimGone(p) \/ ClaimOutage(p) PROVE UNCHANGED <<body, tag, index, state>>
  BY <1>18 DEF ClaimModified, detailVars, stateVars, ClaimNotModified, ClaimGone,
     ClaimOutage
<1>19. ASSUME NEW s \in Servers, NEW i \in Ids, Edit(s, i) PROVE UNCHANGED <<body,
   tag, index, state>>
  BY <1>19 DEF Edit, detailVars, stateVars
<1>20. CASE UNCHANGED vars
  BY <1>1, <1>20 DEF vars, detailVars, stateVars
<1> QED
  BY <1>1, <1>2, <1>3, <1>4, <1>5, <1>6, <1>7, <1>8, <1>9, <1>10, <1>11, <1>12,
     <1>13, <1>14, <1>15, <1>16, <1>17, <1>18, <1>19, <1>20 DEF Next, Put, Pull,
     Claim

\* The processes and what they hold.
LEMMA PullsStep ==
    ASSUME TypeOK, [Next]_vars
    PROVE  PullsOK'
<1>1. ASSUME UNCHANGED <<pc, from, known, rows, fresh, todo, cur>> PROVE PullsOK'
  BY <1>1 DEF TypeOK, ServersOK, PullsOK, Procs
<1>2. ASSUME NEW p \in Procs, Untag(p) PROVE PullsOK'
  BY <1>2 DEF Untag, Go, pullVars, TypeOK, PullsOK
<1>3. ASSUME NEW p \in Procs, Truncate(p) PROVE PullsOK'
  BY <1>3 DEF Truncate, Go, pullVars, TypeOK, PullsOK
<1>4. ASSUME NEW p \in Procs, WriteBody(p) PROVE PullsOK'
  BY <1>4 DEF WriteBody, Go, pullVars, TypeOK, PullsOK
<1>5. ASSUME NEW p \in Procs, Retag(p) PROVE PullsOK'
  BY <1>5 DEF Retag, Stored, Go, pullVars, TypeOK, PullsOK
<1>6. ASSUME NEW p \in Procs, PutFails(p) PROVE PullsOK'
  BY <1>6 DEF PutFails, Stored, Go, pullVars, TypeOK, PullsOK
<1>7. ASSUME NEW p \in Procs, ReadTag(p) PROVE PullsOK'
  BY <1>7 DEF ReadTag, Go, pullVars, TypeOK, PullsOK
<1>8. ASSUME NEW p \in Procs, Kill(p) PROVE PullsOK'
  BY <1>8 DEF Kill, PullEnds, Go, TypeOK, PullsOK
<1>9. ASSUME NEW p \in Procs, NEW i \in Ids, ReadBody(p, i) PROVE PullsOK'
  BY <1>9 DEF ReadBody, Go, pullVars, TypeOK, PullsOK
<1>10. ASSUME NEW p \in Pullers, NEW s \in Servers, PullStart(p, s) PROVE PullsOK'
  <2>1. CASE state \in Unreadable
    BY <1>10, <2>1 DEF PullStart, pullVars, TypeOK, PullsOK
  <2>2. CASE state \notin Unreadable
    <3> DEFINE mine == state # None /\ state.server = s
               rs == IF mine THEN state.rows ELSE None
    <3>1. rs \in {None} \cup SUBSET Ids /\ mine \in BOOLEAN
      BY <2>2 DEF TypeOK, DiskOK
    <3>2. /\ from' = [from EXCEPT ![p] = s] /\ fresh' = [fresh EXCEPT ![p] = mine]
          /\ known' = [known EXCEPT ![p] = rs] /\ pc' = [pc EXCEPT ![p] = "index"]
          /\ UNCHANGED <<rows, todo, cur>>
      BY <1>10, <2>2 DEF PullStart, Go
    <3> HIDE DEF mine, rs
    <3> QED BY <3>1, <3>2 DEF TypeOK, PullsOK
  <2> QED BY <2>1, <2>2
<1>11. ASSUME NEW p \in Pullers, ReadIndex(p) PROVE PullsOK'
  <2>1. CASE index \in Unreadable
    BY <1>11, <2>1, PullEndsFacts DEF ReadIndex, Procs
  <2>2. CASE index \notin Unreadable
    <3> DEFINE rs == IF index = None THEN {} ELSE index
    <3>1. rs \in SUBSET Ids
      BY <2>2 DEF TypeOK, DiskOK
    <3>2. rows' = [rows EXCEPT ![p] = rs] /\ pc' = [pc EXCEPT ![p] = "list"]
      BY <1>11, <2>2 DEF ReadIndex, Go
    <3>3. UNCHANGED <<from, known, fresh, todo, cur>>
      BY <1>11, <2>2 DEF ReadIndex
    <3> HIDE DEF rs
    <3> QED BY <3>1, <3>2, <3>3 DEF TypeOK, PullsOK
  <2> QED BY <2>1, <2>2
<1>12. ASSUME NEW p \in Pullers, List(p) PROVE PullsOK'
  BY <1>12 DEF List, Go, TypeOK, ServersOK, PullsOK, Procs
<1>13. ASSUME NEW p \in Pullers, ListFails(p) PROVE PullsOK'
  BY <1>13 DEF ListFails, PullEnds, Go, TypeOK, PullsOK
<1>14. ASSUME NEW p \in Pullers, Requests(p) PROVE PullsOK'
  BY <1>14 DEF Requests, Go, pullVars, TypeOK, PullsOK
<1>15. ASSUME NEW p \in Pullers, Fetched(p) PROVE PullsOK'
  <2>1. Kept(p) \subseteq Ids
    BY DEF Kept, Fetchable, TypeOK, PullsOK, Procs
  <2>2. CASE AllFailed(p)
    BY <1>15, <2>2, PullEndsFacts DEF Fetched, Procs
  <2>3. CASE ~ AllFailed(p)
    BY <1>15, <2>1, <2>3 DEF Fetched, Go, pullVars, TypeOK, PullsOK, Procs
  <2> QED BY <2>2, <2>3
<1>16. ASSUME NEW p \in Pullers, Prune(p) PROVE PullsOK'
  BY <1>16 DEF Prune, Go, pullVars, TypeOK, PullsOK
<1>17. ASSUME NEW p \in Pullers, PruneBody(p) PROVE PullsOK'
  BY <1>17 DEF PruneBody, Go, pullVars, TypeOK, PullsOK
<1>18. ASSUME NEW p \in Pullers, IndexBegins(p) PROVE PullsOK'
  BY <1>18 DEF IndexBegins, Go, pullVars, TypeOK, PullsOK
<1>19. ASSUME NEW p \in Pullers, PutIndex(p) PROVE PullsOK'
  BY <1>19 DEF PutIndex, Go, pullVars, TypeOK, PullsOK
<1>20. ASSUME NEW p \in Pullers, StateBegins(p) PROVE PullsOK'
  BY <1>20 DEF StateBegins, Go, pullVars, TypeOK, PullsOK
<1>21. ASSUME NEW p \in Pullers, PutState(p) PROVE PullsOK'
  BY <1>21 DEF PutState, PullEnds, Go, TypeOK, PullsOK
<1>22. ASSUME NEW p \in Pullers, NEW i \in Ids, Fetch(p, i) PROVE PullsOK'
  BY <1>22 DEF Fetch, pullVars, TypeOK, PullsOK
<1>23. ASSUME NEW p \in Pullers, NEW i \in Ids, Store(p, i) PROVE PullsOK'
  BY <1>23 DEF Store, Go, pullVars, TypeOK, PullsOK
<1>24. ASSUME NEW p \in Pullers, NEW i \in Ids, PruneTag(p, i) PROVE PullsOK'
  BY <1>24 DEF PruneTag, Go, pullVars, TypeOK, PullsOK
<1>25. ASSUME NEW p \in Claimers, NEW i \in Known, ClaimStart(p, i) PROVE PullsOK'
  BY <1>25 DEF ClaimStart, Go, pullVars, TypeOK, PullsOK, Procs
<1>26. ASSUME NEW p \in Claimers, ClaimModified(p) PROVE PullsOK'
  BY <1>26 DEF ClaimModified, ClaimEnds, Go, pullVars, TypeOK, PullsOK, Procs
<1>27. ASSUME NEW p \in Claimers, ClaimNotModified(p) PROVE PullsOK'
  BY <1>27 DEF ClaimNotModified, ClaimEnds, Go, pullVars, TypeOK, PullsOK
<1>28. ASSUME NEW p \in Claimers, ClaimGone(p) PROVE PullsOK'
  BY <1>28 DEF ClaimGone, ClaimEnds, Go, pullVars, TypeOK, PullsOK
<1>29. ASSUME NEW p \in Claimers, ClaimOutage(p) PROVE PullsOK'
  BY <1>29 DEF ClaimOutage, ClaimEnds, Go, pullVars, TypeOK, PullsOK
<1>30. ASSUME NEW s \in Servers, NEW i \in Ids, Edit(s, i) PROVE UNCHANGED <<pc,
   from, known, rows, fresh, todo, cur>>
  BY <1>30 DEF Edit, pullVars
<1>31. CASE UNCHANGED vars
  BY <1>1, <1>31 DEF vars, pullVars
<1> QED
  BY <1>1, <1>2, <1>3, <1>4, <1>5, <1>6, <1>7, <1>8, <1>9, <1>10, <1>11, <1>12,
     <1>13, <1>14, <1>15, <1>16, <1>17, <1>18, <1>19, <1>20, <1>21, <1>22, <1>23,
     <1>24, <1>25, <1>26, <1>27, <1>28, <1>29, <1>30, <1>31 DEF Next, Put, Pull,
     Claim

\* The requests and their answers.
LEMMA GetsStep ==
    ASSUME TypeOK, Scopes, [Next]_vars
    PROVE  GetsOK'
<1>1. ASSUME UNCHANGED <<seen, sent, answer, cut>> PROVE GetsOK'
  BY <1>1 DEF TypeOK, GetsOK
<1>2. ASSUME NEW p \in Procs, WriteBody(p) PROVE GetsOK'
  BY <1>2 DEF WriteBody, getVars, TypeOK, GetsOK
<1>3. ASSUME NEW p \in Procs, Retag(p) PROVE GetsOK'
  BY <1>3, StoredFacts DEF Retag, TypeOK, GetsOK
<1>4. ASSUME NEW p \in Procs, PutFails(p) PROVE GetsOK'
  BY <1>4, StoredFacts DEF PutFails, TypeOK, GetsOK
<1>5. ASSUME NEW p \in Procs, ReadTag(p) PROVE GetsOK'
  BY <1>5 DEF ReadTag, Honored, TypeOK, GetsOK
<1>6. ASSUME NEW p \in Procs, Kill(p) PROVE GetsOK'
  BY <1>6 DEF Kill, PullEnds, TypeOK, GetsOK, Unsent
<1>7. ASSUME NEW p \in Procs, NEW i \in Ids, ReadBody(p, i) PROVE GetsOK'
  BY <1>7 DEF ReadBody, TypeOK, DiskOK, GetsOK
<1>8. ASSUME NEW p \in Pullers, ReadIndex(p) PROVE GetsOK'
  <2>1. CASE index \in Unreadable
    BY <1>8, <2>1, PullEndsFacts DEF ReadIndex, TypeOK, GetsOK, Procs
  <2>2. CASE index \notin Unreadable
    BY <1>8, <2>2 DEF ReadIndex, getVars, TypeOK, GetsOK
  <2> QED BY <2>1, <2>2
<1>9. ASSUME NEW p \in Pullers, ListFails(p) PROVE GetsOK'
  BY <1>9 DEF ListFails, PullEnds, TypeOK, GetsOK, Unsent
<1>10. ASSUME NEW p \in Pullers, Fetched(p) PROVE GetsOK'
  <2>1. CASE AllFailed(p)
    BY <1>10, <2>1, PullEndsFacts DEF Fetched, TypeOK, GetsOK, Procs
  <2>2. CASE ~ AllFailed(p)
    BY <1>10, <2>2 DEF Fetched, getVars, TypeOK, GetsOK
  <2> QED BY <2>1, <2>2
<1>11. ASSUME NEW p \in Pullers, PruneBody(p) PROVE GetsOK'
  BY <1>11 DEF PruneBody, getVars, TypeOK, GetsOK
<1>12. ASSUME NEW p \in Pullers, PutState(p) PROVE GetsOK'
  BY <1>12 DEF PutState, PullEnds, TypeOK, GetsOK, Unsent
<1>13. ASSUME NEW p \in Pullers, NEW i \in Ids, Fetch(p, i) PROVE GetsOK'
  <2>1. PICK a \in {"failed", Detail(p, i)} : answer' = [answer EXCEPT ![p][i] = a]
    BY <1>13 DEF Fetch
  <2>2. a \in Answers
    BY <2>1, DetailFacts DEF Procs, Answers
  <2>3. answer' \in [Procs -> [Ids -> Answers \cup {None}]]
    BY <2>1, <2>2 DEF TypeOK, GetsOK
  <2> QED BY <1>13, <2>3 DEF Fetch, TypeOK, GetsOK
<1>14. ASSUME NEW p \in Claimers, ClaimModified(p) PROVE GetsOK'
  <2>1. cur[p] \in Ids /\ p \in Procs
    BY <1>14 DEF ClaimModified, Scopes, Scoped, Procs
  <2>2. Detail(p, cur[p]) \in Versions /\ Detail(p, cur[p]) = detail[from[p]][cur[p]]
    BY <1>14, <2>1, DetailFacts DEF ClaimModified
  <2>3. Unsent \in [Ids -> Versions \cup {None}]
    BY DEF Unsent
  <2>4. CASE <<cur[p], Detail(p, cur[p])>> \in Broken
    <3>1. /\ seen' = [seen EXCEPT ![p] = None] /\ sent' = [sent EXCEPT ![p] = Unsent]
          /\ UNCHANGED <<answer, cut>>
      BY <1>14, <2>4 DEF ClaimModified, ClaimEnds
    <3> QED BY <2>3, <3>1 DEF TypeOK, GetsOK
  <2>5. CASE <<cur[p], Detail(p, cur[p])>> \notin Broken
    <3>1. answer' = [answer EXCEPT ![p][cur[p]] = Detail(p, cur[p])]
      BY <1>14, <2>5 DEF ClaimModified
    <3>2. answer' \in [Procs -> [Ids -> Answers \cup {None}]]
      BY <2>2, <3>1 DEF TypeOK, GetsOK, Answers
    <3> QED BY <1>14, <2>5, <3>2 DEF ClaimModified, TypeOK, GetsOK
  <2> QED BY <2>4, <2>5
<1>15. ASSUME NEW p \in Claimers, ClaimNotModified(p) PROVE GetsOK'
  BY <1>15 DEF ClaimNotModified, ClaimEnds, TypeOK, GetsOK, Unsent
<1>16. ASSUME NEW p \in Claimers, ClaimGone(p) PROVE GetsOK'
  BY <1>16 DEF ClaimGone, ClaimEnds, TypeOK, GetsOK, Unsent
<1>17. ASSUME NEW p \in Claimers, ClaimOutage(p) PROVE GetsOK'
  <2>1. Unsent \in [Ids -> Versions \cup {None}]
    BY DEF Unsent
  <2>2. UNCHANGED <<answer, cut>>
    BY <1>17 DEF ClaimOutage
  <2> QED BY <1>17, <2>1, <2>2, ClaimOutageFacts DEF TypeOK, GetsOK
<1>18. ASSUME NEW p \in Procs, Untag(p) \/ Truncate(p) PROVE UNCHANGED <<seen, sent,
   answer, cut>>
  BY <1>18 DEF Untag, Go, getVars, Truncate
<1>19. ASSUME NEW p \in Pullers, NEW s \in Servers, PullStart(p, s) PROVE UNCHANGED
   <<seen, sent, answer, cut>>
  BY <1>19 DEF PullStart, Active, Go, getVars
<1>20. ASSUME NEW p \in Pullers, List(p) \/ Requests(p) \/ Prune(p) \/
   IndexBegins(p) \/ PutIndex(p) \/ StateBegins(p) PROVE UNCHANGED <<seen, sent,
   answer, cut>>
  BY <1>20 DEF List, getVars, Requests, Prune, IndexBegins, PutIndex, StateBegins
<1>21. ASSUME NEW p \in Pullers, NEW i \in Ids, Store(p, i) \/ PruneTag(p, i) PROVE
   UNCHANGED <<seen, sent, answer, cut>>
  BY <1>21 DEF Store, Go, getVars, PruneTag
<1>22. ASSUME NEW p \in Claimers, NEW i \in Known, ClaimStart(p, i) PROVE UNCHANGED
   <<seen, sent, answer, cut>>
  BY <1>22 DEF ClaimStart, Active, Go, getVars
<1>23. ASSUME NEW s \in Servers, NEW i \in Ids, Edit(s, i) PROVE UNCHANGED <<seen,
   sent, answer, cut>>
  BY <1>23 DEF Edit, getVars
<1>24. CASE UNCHANGED vars
  BY <1>1, <1>24 DEF vars, getVars
<1> QED
  BY <1>1, <1>2, <1>3, <1>4, <1>5, <1>6, <1>7, <1>8, <1>9, <1>10, <1>11, <1>12,
     <1>13, <1>14, <1>15, <1>16, <1>17, <1>18, <1>19, <1>20, <1>21, <1>22, <1>23,
     <1>24 DEF Next, Put, Pull, Claim

\* How claims end.
LEMMA ClaimsStep ==
    ASSUME TypeOK, Scopes, ClaimSound, [Next]_vars
    PROVE  ClaimsOK'
<1>1. ASSUME UNCHANGED <<alone, outcome, ran, served>> PROVE ClaimsOK'
  BY <1>1 DEF TypeOK, ClaimsOK
<1>2. ASSUME NEW p \in Procs, Retag(p) PROVE ClaimsOK'
  <2>1. answer[p][cur[p]] \in Versions
    BY <1>2 DEF Retag, Scopes, Scoped, Putting
  <2>2. CASE p \in Pullers
    BY <1>2, <2>2 DEF Retag, Stored, TypeOK, ClaimsOK
  <2>3. CASE p \notin Pullers
    BY <1>2, <2>1, <2>3 DEF Retag, Stored, TypeOK, ClaimsOK
  <2> QED BY <2>2, <2>3
<1>3. ASSUME NEW p \in Procs, PutFails(p) PROVE ClaimsOK'
  <2>1. answer[p][cur[p]] \in Versions
    BY <1>3 DEF PutFails, Scopes, Scoped, Putting
  <2>2. CASE p \in Pullers
    BY <1>3, <2>2 DEF PutFails, Stored, TypeOK, ClaimsOK
  <2>3. CASE p \notin Pullers
    BY <1>3, <2>1, <2>3 DEF PutFails, Stored, TypeOK, ClaimsOK
  <2> QED BY <2>2, <2>3
<1>4. ASSUME NEW p \in Procs, Kill(p) PROVE ClaimsOK'
  BY <1>4 DEF Kill, claimVars, TypeOK, ClaimsOK
<1>5. ASSUME NEW p \in Pullers, NEW s \in Servers, PullStart(p, s) PROVE ClaimsOK'
  BY <1>5 DEF PullStart, claimVars, TypeOK, ClaimsOK
<1>6. ASSUME NEW p \in Claimers, NEW i \in Known, ClaimStart(p, i) PROVE ClaimsOK'
  BY <1>6 DEF ClaimStart, TypeOK, ClaimsOK
<1>7. ASSUME NEW p \in Claimers, ClaimModified(p) PROVE ClaimsOK'
  <2>1. cur[p] \in Ids /\ p \in Procs
    BY <1>7 DEF ClaimModified, Scopes, Scoped, Procs
  <2>2. Detail(p, cur[p]) \in Versions /\ Detail(p, cur[p]) = detail[from[p]][cur[p]]
    BY <1>7, <2>1, DetailFacts DEF ClaimModified
  <2>3. detail[Home][cur[p]] \in Versions
    BY <2>1 DEF TypeOK, ServersOK
  <2>4. CASE <<cur[p], Detail(p, cur[p])>> \in Broken
    BY <1>7, <2>3, <2>4 DEF ClaimModified, ClaimEnds, TypeOK, ClaimsOK
  <2>5. CASE <<cur[p], Detail(p, cur[p])>> \notin Broken
    BY <1>7, <2>3, <2>5 DEF ClaimModified, TypeOK, ClaimsOK
  <2> QED BY <2>4, <2>5
<1>8. ASSUME NEW p \in Claimers, ClaimNotModified(p) PROVE ClaimsOK'
  <2>1. cur[p] \in Ids /\ p \in Procs
    BY <1>8 DEF ClaimNotModified, Scopes, Scoped, Procs
  <2>2. sent[p][cur[p]] = detail[from[p]][cur[p]] /\ detail[from[p]][cur[p]] \in Versions
    BY <1>8, <2>1, DetailFacts DEF ClaimNotModified
  <2>3. seen[p] \in Versions
    BY <1>8, <2>2 DEF ClaimNotModified, ClaimSound
  <2>4. detail[Home][cur[p]] \in Versions
    BY <2>1 DEF TypeOK, ServersOK
  <2> QED BY <1>8, <2>3, <2>4 DEF ClaimNotModified, ClaimEnds, TypeOK, ClaimsOK
<1>9. ASSUME NEW p \in Claimers, ClaimGone(p) PROVE ClaimsOK'
  BY <1>9 DEF ClaimGone, ClaimEnds, TypeOK, ClaimsOK
<1>10. ASSUME NEW p \in Claimers, ClaimOutage(p) PROVE ClaimsOK'
  <2>1. UNCHANGED <<alone, served>>
    BY <1>10 DEF ClaimOutage
  <2> QED BY <1>10, <2>1, ClaimOutageFacts DEF TypeOK, ClaimsOK
<1>11. ASSUME NEW s \in Servers, NEW i \in Ids, Edit(s, i) PROVE ClaimsOK'
  BY <1>11 DEF Edit, claimVars, TypeOK, ClaimsOK
<1>12. ASSUME NEW p \in Procs, Untag(p) \/ Truncate(p) \/ WriteBody(p) \/ ReadTag(p)
   PROVE UNCHANGED <<alone, outcome, ran, served>>
  BY <1>12 DEF Untag, claimVars, Truncate, WriteBody, ReadTag
<1>13. ASSUME NEW p \in Procs, NEW i \in Ids, ReadBody(p, i) PROVE UNCHANGED
   <<alone, outcome, ran, served>>
  BY <1>13 DEF ReadBody, Go, claimVars
<1>14. ASSUME NEW p \in Pullers, ReadIndex(p) \/ List(p) \/ ListFails(p) \/
   Requests(p) \/ Fetched(p) \/ Prune(p) \/ PruneBody(p) \/ IndexBegins(p) \/
   PutIndex(p) \/ StateBegins(p) \/ PutState(p) PROVE UNCHANGED <<alone, outcome,
   ran, served>>
  BY <1>14 DEF ReadIndex, claimVars, List, ListFails, Requests, Fetched, Prune,
     PruneBody, IndexBegins, PutIndex, StateBegins, PutState
<1>15. ASSUME NEW p \in Pullers, NEW i \in Ids, Fetch(p, i) \/ Store(p, i) \/
   PruneTag(p, i) PROVE UNCHANGED <<alone, outcome, ran, served>>
  BY <1>15 DEF Fetch, claimVars, Store, Go, PruneTag
<1>16. CASE UNCHANGED vars
  BY <1>1, <1>16 DEF vars, claimVars
<1> QED
  BY <1>1, <1>2, <1>3, <1>4, <1>5, <1>6, <1>7, <1>8, <1>9, <1>10, <1>11, <1>12,
     <1>13, <1>14, <1>15, <1>16 DEF Next, Put, Pull, Claim

\* What a place calls for is there before it is entered.
LEMMA ScopesStep ==
    ASSUME TypeOK, Scopes, [Next]_vars
    PROVE  Scopes'
<1>1. ASSUME UNCHANGED <<pc, from, known, todo, cur, sent, answer>> PROVE Scopes'
  BY <1>1 DEF Scopes, Scoped
<1>2. ASSUME NEW p \in Procs, Untag(p) PROVE Scopes'
  BY <1>2 DEF Untag, Go, pullVars, getVars, Scopes, Scoped, Putting
<1>3. ASSUME NEW p \in Procs, Truncate(p) PROVE Scopes'
  BY <1>3 DEF Truncate, Go, pullVars, getVars, Scopes, Scoped, Putting
<1>4. ASSUME NEW p \in Procs, WriteBody(p) PROVE Scopes'
  BY <1>4 DEF WriteBody, Go, pullVars, getVars, Scopes, Scoped, Putting
<1>5. ASSUME NEW p \in Procs, Retag(p) PROVE Scopes'
  <2>1. UNCHANGED <<todo, from, known>> /\ pc[p] = "retag" /\ cur' = [cur EXCEPT ![p] = None]
    BY <1>5, StoredFacts DEF Retag, pullVars
  <2>2. CASE p \in Pullers
    <3>1. pc' = [pc EXCEPT ![p] = "store"] /\ UNCHANGED <<sent, answer>>
      BY <1>5, <2>2, StoredFacts DEF Retag
    <3> QED BY <2>1, <2>2, <3>1 DEF TypeOK, PullsOK, Scopes, Scoped, Putting, Procs
  <2>3. CASE p \notin Pullers
    <3>1. /\ pc' = [pc EXCEPT ![p] = "idle"] /\ sent' = [sent EXCEPT ![p] = Unsent]
          /\ answer' = [answer EXCEPT ![p] = Unsent]
      BY <1>5, <2>3, StoredFacts DEF Retag
    <3>2. Scoped(p)'
      BY <2>1, <2>3, <3>1 DEF TypeOK, PullsOK, Scopes, Scoped, Putting
    <3>3. \A q \in Procs \ {p} :
            /\ pc'[q] = pc[q] /\ cur'[q] = cur[q] /\ answer'[q] = answer[q] /\ todo'[q] = todo[q]
            /\ sent'[q] = sent[q] /\ known'[q] = known[q] /\ from'[q] = from[q]
      BY <2>1, <3>1 DEF TypeOK, PullsOK, GetsOK
    <3> QED BY <3>2, <3>3, ScopesFrame
  <2> QED BY <2>2, <2>3
<1>6. ASSUME NEW p \in Procs, PutFails(p) PROVE Scopes'
  BY <1>6 DEF PutFails, Stored, Go, pullVars, TypeOK, PullsOK, GetsOK, Scopes,
     Scoped, Putting
<1>7. ASSUME NEW p \in Procs, ReadTag(p) PROVE Scopes'
  BY <1>7 DEF ReadTag, Go, pullVars, TypeOK, PullsOK, Scopes, Scoped, Putting
<1>8. ASSUME NEW p \in Procs, Kill(p) PROVE Scopes'
  BY <1>8 DEF Kill, PullEnds, Go, TypeOK, PullsOK, GetsOK, Scopes, Scoped, Putting
<1>9. ASSUME NEW p \in Procs, NEW i \in Ids, ReadBody(p, i) PROVE Scopes'
  BY <1>9 DEF ReadBody, Go, pullVars, TypeOK, PullsOK, Scopes, Scoped, Putting
<1>10. ASSUME NEW p \in Pullers, NEW s \in Servers, PullStart(p, s) PROVE Scopes'
  BY <1>10 DEF PullStart, Active, Go, pullVars, getVars, TypeOK, PullsOK, Scopes,
     Scoped, Putting
<1>11. ASSUME NEW p \in Pullers, ReadIndex(p) PROVE Scopes'
  <2>1. \A q \in Procs \ {p} :
          /\ pc'[q] = pc[q] /\ cur'[q] = cur[q] /\ answer'[q] = answer[q] /\ todo'[q] = todo[q]
          /\ sent'[q] = sent[q] /\ known'[q] = known[q] /\ from'[q] = from[q]
    BY <1>11 DEF ReadIndex, PullEnds, Go, getVars, TypeOK, PullsOK, GetsOK
  <2>2. Scoped(p)'
    <3>1. CASE index \in Unreadable
      BY <1>11, <3>1 DEF ReadIndex, PullEnds, Go, TypeOK, PullsOK, GetsOK, Scoped,
         Putting, Procs
    <3>2. CASE index \notin Unreadable
      BY <1>11, <3>2 DEF ReadIndex, Go, getVars, TypeOK, PullsOK, Scopes, Scoped,
         Putting, Procs
    <3> QED BY <3>1, <3>2
  <2> QED BY <2>1, <2>2, ScopesFrame DEF Procs
<1>12. ASSUME NEW p \in Pullers, List(p) PROVE Scopes'
  BY <1>12 DEF List, Go, getVars, TypeOK, ServersOK, PullsOK, Scopes, Scoped,
     Putting
<1>13. ASSUME NEW p \in Pullers, ListFails(p) PROVE Scopes'
  BY <1>13 DEF ListFails, PullEnds, Go, Scopes, Scoped, Putting
<1>14. ASSUME NEW p \in Pullers, Requests(p) PROVE Scopes'
  BY <1>14 DEF Requests, Go, pullVars, getVars, Scopes, Scoped, Putting
<1>15. ASSUME NEW p \in Pullers, Fetched(p) PROVE Scopes'
  <2>1. CASE AllFailed(p)
    BY <1>15, <2>1 DEF Fetched, PullEnds, Go, TypeOK, PullsOK, GetsOK, Scopes,
       Scoped, Putting
  <2>2. CASE ~ AllFailed(p)
    <3>1. \A i \in Kept(p) : answer[p][i] \in Versions
      BY DEF Kept
    <3>2. /\ todo' = [todo EXCEPT ![p] = Kept(p)] /\ pc' = [pc EXCEPT ![p] = "store"]
          /\ UNCHANGED <<from, known, cur, sent, answer>> /\ pc[p] = "fetch"
      BY <1>15, <2>2 DEF Fetched, Go, pullVars, getVars
    <3> QED BY <3>1, <3>2 DEF TypeOK, PullsOK, Scopes, Scoped, Putting, Procs
  <2> QED BY <2>1, <2>2
<1>16. ASSUME NEW p \in Pullers, Prune(p) PROVE Scopes'
  BY <1>16 DEF Prune, Go, pullVars, getVars, TypeOK, PullsOK, Scopes, Scoped,
     Putting
<1>17. ASSUME NEW p \in Pullers, PruneBody(p) PROVE Scopes'
  BY <1>17 DEF PruneBody, Go, pullVars, getVars, TypeOK, PullsOK, Scopes, Scoped,
     Putting
<1>18. ASSUME NEW p \in Pullers, IndexBegins(p) PROVE Scopes'
  BY <1>18 DEF IndexBegins, Go, pullVars, getVars, Scopes, Scoped, Putting
<1>19. ASSUME NEW p \in Pullers, PutIndex(p) PROVE Scopes'
  BY <1>19 DEF PutIndex, Go, pullVars, getVars, Scopes, Scoped, Putting
<1>20. ASSUME NEW p \in Pullers, StateBegins(p) PROVE Scopes'
  BY <1>20 DEF StateBegins, Go, pullVars, getVars, Scopes, Scoped, Putting
<1>21. ASSUME NEW p \in Pullers, PutState(p) PROVE Scopes'
  BY <1>21 DEF PutState, PullEnds, Go, TypeOK, PullsOK, GetsOK, Scopes, Scoped,
     Putting
<1>22. ASSUME NEW p \in Pullers, NEW i \in Ids, Fetch(p, i) PROVE Scopes'
  BY <1>22 DEF Fetch, pullVars, Scopes, Scoped, Putting
<1>23. ASSUME NEW p \in Pullers, NEW i \in Ids, Store(p, i) PROVE Scopes'
  BY <1>23 DEF Store, Go, pullVars, getVars, TypeOK, PullsOK, Scopes, Scoped
<1>24. ASSUME NEW p \in Pullers, NEW i \in Ids, PruneTag(p, i) PROVE Scopes'
  BY <1>24 DEF PruneTag, Go, pullVars, getVars, TypeOK, PullsOK, Scopes, Scoped,
     Putting
<1>25. ASSUME NEW p \in Claimers, NEW i \in Known, ClaimStart(p, i) PROVE Scopes'
  BY <1>25 DEF ClaimStart, Go, pullVars, getVars, Scopes, Scoped, Putting
<1>26. ASSUME NEW p \in Claimers, ClaimModified(p) PROVE Scopes'
  <2>1. \A q \in Procs \ {p} :
          /\ pc'[q] = pc[q] /\ cur'[q] = cur[q] /\ answer'[q] = answer[q] /\ todo'[q] = todo[q]
          /\ sent'[q] = sent[q] /\ known'[q] = known[q] /\ from'[q] = from[q]
    BY <1>26 DEF ClaimModified, ClaimEnds, Go, pullVars, TypeOK, PullsOK, GetsOK
  <2>2. cur[p] \in Ids /\ p \in Procs /\ from[p] = Home
    BY <1>26 DEF ClaimModified, Scopes, Scoped, Procs
  <2>3. Scoped(p)'
    <3>1. CASE <<cur[p], Detail(p, cur[p])>> \in Broken
      BY <1>26, <2>2, <3>1 DEF ClaimModified, ClaimEnds, Go, pullVars, TypeOK,
         PullsOK, Scoped, Putting
    <3>2. CASE <<cur[p], Detail(p, cur[p])>> \notin Broken
      <4>1. /\ pc'[p] = "untag" /\ cur'[p] = cur[p] /\ from'[p] = from[p]
            /\ answer'[p][cur[p]] \in Versions
        BY <1>26, <2>2, <3>2 DEF ClaimModified, Go, pullVars, TypeOK, PullsOK,
           GetsOK
      <4> QED BY <1>26, <2>2, <4>1 DEF Scoped, Putting
    <3> QED BY <3>1, <3>2
  <2> QED BY <2>1, <2>2, <2>3, ScopesFrame
<1>27. ASSUME NEW p \in Claimers, ClaimNotModified(p) PROVE Scopes'
  BY <1>27 DEF ClaimNotModified, ClaimEnds, Go, pullVars, TypeOK, PullsOK, Scopes,
     Scoped, Putting
<1>28. ASSUME NEW p \in Claimers, ClaimGone(p) PROVE Scopes'
  BY <1>28 DEF ClaimGone, ClaimEnds, Go, pullVars, TypeOK, PullsOK, Scopes, Scoped,
     Putting
<1>29. ASSUME NEW p \in Claimers, ClaimOutage(p) PROVE Scopes'
  <2>1. UNCHANGED <<answer, todo, known, from>>
    BY <1>29 DEF ClaimOutage, pullVars
  <2>2. \A q \in Procs \ {p} :
          /\ pc'[q] = pc[q] /\ cur'[q] = cur[q] /\ answer'[q] = answer[q] /\ todo'[q] = todo[q]
          /\ sent'[q] = sent[q] /\ known'[q] = known[q] /\ from'[q] = from[q]
    BY <1>29, <2>1, ClaimOutageFacts DEF TypeOK, PullsOK, GetsOK
  <2>3. Scoped(p)'
    BY <1>29, <2>1, ClaimOutageFacts DEF TypeOK, PullsOK, Scopes, Scoped, Putting,
       Procs
  <2> QED BY <2>2, <2>3, ScopesFrame DEF Procs
<1>30. ASSUME NEW s \in Servers, NEW i \in Ids, Edit(s, i) PROVE UNCHANGED <<pc,
   from, known, todo, cur, sent, answer>>
  BY <1>30 DEF Edit, pullVars, getVars
<1>31. CASE UNCHANGED vars
  BY <1>1, <1>31 DEF vars, pullVars, getVars
<1> QED
  BY <1>1, <1>2, <1>3, <1>4, <1>5, <1>6, <1>7, <1>8, <1>9, <1>10, <1>11, <1>12,
     <1>13, <1>14, <1>15, <1>16, <1>17, <1>18, <1>19, <1>20, <1>21, <1>22, <1>23,
     <1>24, <1>25, <1>26, <1>27, <1>28, <1>29, <1>30, <1>31 DEF Next, Put, Pull,
     Claim

\* A claim's request and its answer are its own.
LEMMA ClaimSoundStep ==
    ASSUME TypeOK, Scopes, ClaimSound, [Next]_vars
    PROVE  ClaimSound'
<1>1. ASSUME UNCHANGED <<pc, cur, seen, sent, answer, outcome, served>> PROVE
   ClaimSound'
  BY <1>1 DEF Active, ClaimSound
<1>2. ASSUME NEW p \in Procs, Untag(p) PROVE ClaimSound'
  BY <1>2 DEF Untag, Go, getVars, claimVars, Active, Scopes, Scoped, ClaimSound
<1>3. ASSUME NEW p \in Procs, Truncate(p) PROVE ClaimSound'
  BY <1>3 DEF Truncate, Go, getVars, claimVars, Active, Scopes, Scoped, ClaimSound
<1>4. ASSUME NEW p \in Procs, WriteBody(p) PROVE ClaimSound'
  BY <1>4 DEF WriteBody, Go, getVars, claimVars, Active, Scopes, Scoped, ClaimSound
<1>5. ASSUME NEW p \in Procs, Retag(p) PROVE ClaimSound'
  BY <1>5 DEF Retag, Stored, Go, Active, TypeOK, PullsOK, GetsOK, ClaimsOK,
     ClaimSound, Putting, Procs
<1>6. ASSUME NEW p \in Procs, PutFails(p) PROVE ClaimSound'
  BY <1>6 DEF PutFails, Stored, Go, Active, TypeOK, PullsOK, GetsOK, ClaimsOK,
     ClaimSound, Putting, Procs
<1>7. ASSUME NEW p \in Procs, ReadTag(p) PROVE ClaimSound'
  BY <1>7 DEF ReadTag, Honored, Go, claimVars, Active, TypeOK, PullsOK, GetsOK,
     Scopes, Scoped, ClaimSound, Putting, Procs
<1>8. ASSUME NEW p \in Procs, Kill(p) PROVE ClaimSound'
  BY <1>8 DEF Kill, Active, PullEnds, Go, claimVars, TypeOK, PullsOK, ClaimSound,
     Putting
<1>9. ASSUME NEW p \in Procs, NEW i \in Ids, ReadBody(p, i) PROVE ClaimSound'
  BY <1>9 DEF ReadBody, Go, claimVars, Active, ClaimSound, Putting
<1>10. ASSUME NEW p \in Pullers, NEW s \in Servers, PullStart(p, s) PROVE
   ClaimSound'
  BY <1>10 DEF PullStart, Active, Go, getVars, claimVars, TypeOK, PullsOK,
     ClaimSound, Procs
<1>11. ASSUME NEW p \in Pullers, ReadIndex(p) PROVE ClaimSound'
  <2>1. p \notin Claimers
    OBVIOUS
  <2>2. \A q \in Claimers :
          /\ pc'[q] = pc[q] /\ sent'[q] = sent[q] /\ cur'[q] = cur[q] /\ seen'[q] = seen[q]
          /\ answer'[q] = answer[q] /\ served'[q] = served[q] /\ outcome'[q] = outcome[q]
    BY <1>11, <2>1 DEF ReadIndex, PullEnds, Go, getVars, claimVars, TypeOK, PullsOK,
       GetsOK, Procs
  <2> QED BY <2>2 DEF ClaimSound, Active
<1>12. ASSUME NEW p \in Pullers, List(p) PROVE ClaimSound'
  BY <1>12 DEF List, Go, getVars, claimVars, Active, ClaimSound
<1>13. ASSUME NEW p \in Pullers, ListFails(p) PROVE ClaimSound'
  BY <1>13 DEF ListFails, PullEnds, Go, claimVars, Active, ClaimSound
<1>14. ASSUME NEW p \in Pullers, Requests(p) PROVE ClaimSound'
  BY <1>14 DEF Requests, Go, getVars, claimVars, Active, ClaimSound
<1>15. ASSUME NEW p \in Pullers, Fetched(p) PROVE ClaimSound'
  <2>1. CASE AllFailed(p)
    BY <1>15, <2>1 DEF Fetched, PullEnds, Go, claimVars, TypeOK, PullsOK, GetsOK,
       Scoped, ClaimSound, Active, Putting, Procs
  <2>2. CASE ~ (AllFailed(p))
    BY <1>15, <2>2 DEF Fetched, Go, getVars, claimVars, TypeOK, PullsOK, ClaimSound,
       Active, Procs
  <2> QED BY <2>1, <2>2
<1>16. ASSUME NEW p \in Pullers, Prune(p) PROVE ClaimSound'
  BY <1>16 DEF Prune, Go, getVars, claimVars, Active, ClaimSound
<1>17. ASSUME NEW p \in Pullers, PruneBody(p) PROVE ClaimSound'
  BY <1>17 DEF PruneBody, Go, getVars, claimVars, Active, ClaimSound
<1>18. ASSUME NEW p \in Pullers, IndexBegins(p) PROVE ClaimSound'
  BY <1>18 DEF IndexBegins, Go, getVars, claimVars, Active, ClaimSound
<1>19. ASSUME NEW p \in Pullers, PutIndex(p) PROVE ClaimSound'
  BY <1>19 DEF PutIndex, Go, getVars, claimVars, Active, ClaimSound
<1>20. ASSUME NEW p \in Pullers, StateBegins(p) PROVE ClaimSound'
  BY <1>20 DEF StateBegins, Go, getVars, claimVars, Active, ClaimSound
<1>21. ASSUME NEW p \in Pullers, PutState(p) PROVE ClaimSound'
  BY <1>21 DEF PutState, PullEnds, Go, claimVars, Active, ClaimSound
<1>22. ASSUME NEW p \in Pullers, NEW i \in Ids, Fetch(p, i) PROVE ClaimSound'
  BY <1>22 DEF Fetch, claimVars, Active, ClaimSound
<1>23. ASSUME NEW p \in Pullers, NEW i \in Ids, Store(p, i) PROVE ClaimSound'
  BY <1>23 DEF Store, Go, getVars, claimVars, Active, ClaimSound
<1>24. ASSUME NEW p \in Pullers, NEW i \in Ids, PruneTag(p, i) PROVE ClaimSound'
  BY <1>24 DEF PruneTag, Go, getVars, claimVars, Active, ClaimSound
<1>25. ASSUME NEW p \in Claimers, NEW i \in Known, ClaimStart(p, i) PROVE
   ClaimSound'
  BY <1>25 DEF ClaimStart, Active, Go, getVars, TypeOK, ClaimsOK, ClaimSound,
     Putting
<1>26. ASSUME NEW p \in Claimers, ClaimModified(p) PROVE ClaimSound'
  <2>1. cur[p] \in Ids /\ p \in Procs
    BY <1>26 DEF ClaimModified, Scopes, Scoped, Procs
  <2>2. Detail(p, cur[p]) \in Versions /\ Detail(p, cur[p]) = detail[from[p]][cur[p]]
    BY <1>26, <2>1, DetailFacts DEF ClaimModified
  <2>3. from[p] = Home
    BY <2>1 DEF Scopes, Scoped
  <2>4. CASE <<cur[p], Detail(p, cur[p])>> \in Broken
    BY <1>26, <2>4 DEF ClaimModified, ClaimEnds, Go, TypeOK, PullsOK, GetsOK,
       ClaimsOK, ClaimSound, Active, Putting, Procs
  <2>5. CASE <<cur[p], Detail(p, cur[p])>> \notin Broken
    BY <1>26, <2>1, <2>2, <2>3, <2>5 DEF ClaimModified, Go, TypeOK, PullsOK, GetsOK,
       ClaimsOK, ClaimSound, Active, Procs
  <2> QED BY <2>4, <2>5
<1>27. ASSUME NEW p \in Claimers, ClaimNotModified(p) PROVE ClaimSound'
  BY <1>27 DEF ClaimNotModified, ClaimEnds, Go, Active, TypeOK, PullsOK, ClaimSound,
     Putting, Procs
<1>28. ASSUME NEW p \in Claimers, ClaimGone(p) PROVE ClaimSound'
  BY <1>28 DEF ClaimGone, ClaimEnds, Go, Active, TypeOK, PullsOK, ClaimSound,
     Putting, Procs
<1>29. ASSUME NEW p \in Claimers, ClaimOutage(p) PROVE ClaimSound'
  <2>1. UNCHANGED <<answer, served>>
    BY <1>29 DEF ClaimOutage
  <2>2. pc'[p] = "idle"
    BY <1>29, ClaimOutageFacts DEF TypeOK, PullsOK, Procs
  <2>3. \A q \in Claimers \ {p} :
          /\ pc'[q] = pc[q] /\ sent'[q] = sent[q] /\ cur'[q] = cur[q] /\ seen'[q] = seen[q]
          /\ outcome'[q] = outcome[q]
    BY <1>29, ClaimOutageFacts DEF TypeOK, PullsOK, GetsOK, Procs
  <2> QED BY <2>1, <2>2, <2>3 DEF ClaimSound, Active, Putting
<1>30. ASSUME NEW s \in Servers, NEW i \in Ids, Edit(s, i) PROVE UNCHANGED <<pc,
   cur, seen, sent, answer, outcome, served>>
  BY <1>30 DEF Edit, getVars, claimVars
<1>31. CASE UNCHANGED vars
  BY <1>1, <1>31 DEF vars, getVars, claimVars
<1> QED
  BY <1>1, <1>2, <1>3, <1>4, <1>5, <1>6, <1>7, <1>8, <1>9, <1>10, <1>11, <1>12,
     <1>13, <1>14, <1>15, <1>16, <1>17, <1>18, <1>19, <1>20, <1>21, <1>22, <1>23,
     <1>24, <1>25, <1>26, <1>27, <1>28, <1>29, <1>30, <1>31 DEF Next, Put, Pull,
     Claim

\* A claim that ends runs what it was served.
LEMMA RunsServedStep ==
    ASSUME TypeOK, Scopes, ClaimSound, ClaimRunsServed, [Next]_vars
    PROVE  ClaimRunsServed'
<1>1. ASSUME UNCHANGED <<outcome, ran, served>> PROVE ClaimRunsServed'
  BY <1>1 DEF ClaimRunsServed
<1>2. ASSUME NEW p \in Procs, Retag(p) PROVE ClaimRunsServed'
  BY <1>2 DEF Retag, Stored, TypeOK, ClaimsOK, Scopes, Scoped, ClaimSound,
     ClaimRunsServed
<1>3. ASSUME NEW p \in Procs, PutFails(p) PROVE ClaimRunsServed'
  BY <1>3 DEF PutFails, Stored, TypeOK, ClaimsOK, Scopes, Scoped, ClaimSound,
     ClaimRunsServed
<1>4. ASSUME NEW p \in Claimers, NEW i \in Known, ClaimStart(p, i) PROVE
   ClaimRunsServed'
  BY <1>4 DEF ClaimStart, TypeOK, ClaimsOK, ClaimRunsServed
<1>5. ASSUME NEW p \in Claimers, ClaimModified(p) PROVE ClaimRunsServed'
  <2>1. outcome[p] = "none"
    BY <1>5 DEF ClaimModified, ClaimSound, Active
  <2> QED BY <1>5, <2>1 DEF ClaimModified, ClaimEnds, TypeOK, ClaimsOK, ClaimRunsServed
<1>6. ASSUME NEW p \in Claimers, ClaimNotModified(p) PROVE ClaimRunsServed'
  <2>1. cur[p] \in Ids /\ p \in Procs /\ from[p] = Home
    BY <1>6 DEF ClaimNotModified, Scopes, Scoped, Procs
  <2>2. sent[p][cur[p]] = detail[from[p]][cur[p]] /\ detail[from[p]][cur[p]] \in Versions
    BY <1>6, <2>1, DetailFacts DEF ClaimNotModified
  <2>3. seen[p] \in Versions /\ seen[p] = detail[Home][cur[p]]
    BY <1>6, <2>1, <2>2 DEF ClaimNotModified, ClaimSound
  <2> QED BY <1>6, <2>3 DEF ClaimNotModified, ClaimEnds, TypeOK, ClaimsOK, ClaimRunsServed
<1>7. ASSUME NEW p \in Claimers, ClaimGone(p) PROVE ClaimRunsServed'
  BY <1>7 DEF ClaimGone, ClaimEnds, TypeOK, ClaimsOK, ClaimRunsServed
<1>8. ASSUME NEW p \in Claimers, ClaimOutage(p) PROVE ClaimRunsServed'
  <2>1. UNCHANGED served
    BY <1>8 DEF ClaimOutage
  <2> QED BY <1>8, <2>1, ClaimOutageFacts DEF ClaimRunsServed
<1>9. ASSUME NEW p \in Procs, Untag(p) \/ Truncate(p) \/ WriteBody(p) \/ ReadTag(p)
   \/ Kill(p) PROVE UNCHANGED <<outcome, ran, served>>
  BY <1>9 DEF Untag, claimVars, Truncate, WriteBody, ReadTag, Kill
<1>10. ASSUME NEW p \in Procs, NEW i \in Ids, ReadBody(p, i) PROVE UNCHANGED
   <<outcome, ran, served>>
  BY <1>10 DEF ReadBody, Go, claimVars
<1>11. ASSUME NEW p \in Pullers, NEW s \in Servers, PullStart(p, s) PROVE UNCHANGED
   <<outcome, ran, served>>
  BY <1>11 DEF PullStart, Active, Go, claimVars
<1>12. ASSUME NEW p \in Pullers, ReadIndex(p) \/ List(p) \/ ListFails(p) \/
   Requests(p) \/ Fetched(p) \/ Prune(p) \/ PruneBody(p) \/ IndexBegins(p) \/
   PutIndex(p) \/ StateBegins(p) \/ PutState(p) PROVE UNCHANGED <<outcome, ran,
   served>>
  BY <1>12 DEF ReadIndex, claimVars, List, ListFails, Requests, Fetched, Prune,
     PruneBody, IndexBegins, PutIndex, StateBegins, PutState
<1>13. ASSUME NEW p \in Pullers, NEW i \in Ids, Fetch(p, i) \/ Store(p, i) \/
   PruneTag(p, i) PROVE UNCHANGED <<outcome, ran, served>>
  BY <1>13 DEF Fetch, claimVars, Store, Go, PruneTag
<1>14. ASSUME NEW s \in Servers, NEW i \in Ids, Edit(s, i) PROVE UNCHANGED
   <<outcome, ran, served>>
  BY <1>14 DEF Edit, claimVars
<1>15. CASE UNCHANGED vars
  BY <1>1, <1>15 DEF vars, claimVars
<1> QED
  BY <1>1, <1>2, <1>3, <1>4, <1>5, <1>6, <1>7, <1>8, <1>9, <1>10, <1>11, <1>12,
     <1>13, <1>14, <1>15 DEF Next, Put, Pull, Claim

\* A file is cut off while it is written, and forgotten after.
LEMMA CutStep ==
    ASSUME TypeOK, CutWriting, Solo, [Next]_vars
    PROVE  CutWriting'
<1>1. ASSUME UNCHANGED <<pc, cut, alone>> PROVE CutWriting'
  BY <1>1 DEF CutWriting
<1>2. ASSUME NEW p \in Procs, Untag(p) PROVE CutWriting'
  BY <1>2 DEF Untag, Go, CutWriting
<1>3. ASSUME NEW p \in Procs, Truncate(p) PROVE CutWriting'
  BY <1>3 DEF Truncate, Go, CutWriting
<1>4. ASSUME NEW p \in Procs, WriteBody(p) PROVE CutWriting'
  BY <1>4 DEF WriteBody, Go, CutWriting
<1>5. ASSUME NEW p \in Procs, Retag(p) PROVE CutWriting'
  BY <1>5 DEF Retag, Stored, Go, TypeOK, PullsOK, GetsOK, CutWriting
<1>6. ASSUME NEW p \in Procs, PutFails(p) PROVE CutWriting'
  BY <1>6 DEF PutFails, Stored, Go, TypeOK, PullsOK, GetsOK, CutWriting
<1>7. ASSUME NEW p \in Procs, ReadTag(p) PROVE CutWriting'
  BY <1>7 DEF ReadTag, Go, TypeOK, PullsOK, GetsOK, CutWriting
<1>8. ASSUME NEW p \in Procs, Kill(p) PROVE CutWriting'
  BY <1>8 DEF Kill, PullEnds, Go, CutWriting
<1>9. ASSUME NEW p \in Procs, NEW i \in Ids, ReadBody(p, i) PROVE CutWriting'
  BY <1>9 DEF ReadBody, Go, CutWriting
<1>10. ASSUME NEW p \in Pullers, NEW s \in Servers, PullStart(p, s) PROVE
   CutWriting'
  BY <1>10 DEF PullStart, Active, Go, TypeOK, PullsOK, GetsOK, CutWriting
<1>11. ASSUME NEW p \in Pullers, ReadIndex(p) PROVE CutWriting'
  BY <1>11 DEF ReadIndex, PullEnds, Go, TypeOK, PullsOK, GetsOK, CutWriting
<1>12. ASSUME NEW p \in Pullers, List(p) PROVE CutWriting'
  BY <1>12 DEF List, Go, CutWriting
<1>13. ASSUME NEW p \in Pullers, ListFails(p) PROVE CutWriting'
  BY <1>13 DEF ListFails, PullEnds, Go, CutWriting
<1>14. ASSUME NEW p \in Pullers, Requests(p) PROVE CutWriting'
  BY <1>14 DEF Requests, Go, CutWriting
<1>15. ASSUME NEW p \in Pullers, Fetched(p) PROVE CutWriting'
  BY <1>15 DEF Fetched, PullEnds, Go, TypeOK, PullsOK, GetsOK, CutWriting
<1>16. ASSUME NEW p \in Pullers, Prune(p) PROVE CutWriting'
  BY <1>16 DEF Prune, Go, CutWriting
<1>17. ASSUME NEW p \in Pullers, PruneBody(p) PROVE CutWriting'
  BY <1>17 DEF PruneBody, Go, CutWriting, Solo, Active, Procs
<1>18. ASSUME NEW p \in Pullers, IndexBegins(p) PROVE CutWriting'
  BY <1>18 DEF IndexBegins, Go, CutWriting
<1>19. ASSUME NEW p \in Pullers, PutIndex(p) PROVE CutWriting'
  BY <1>19 DEF PutIndex, Go, CutWriting
<1>20. ASSUME NEW p \in Pullers, StateBegins(p) PROVE CutWriting'
  BY <1>20 DEF StateBegins, Go, CutWriting
<1>21. ASSUME NEW p \in Pullers, PutState(p) PROVE CutWriting'
  BY <1>21 DEF PutState, PullEnds, Go, CutWriting
<1>22. ASSUME NEW p \in Pullers, NEW i \in Ids, Store(p, i) PROVE CutWriting'
  BY <1>22 DEF Store, Go, CutWriting
<1>23. ASSUME NEW p \in Pullers, NEW i \in Ids, PruneTag(p, i) PROVE CutWriting'
  BY <1>23 DEF PruneTag, Go, CutWriting
<1>24. ASSUME NEW p \in Claimers, NEW i \in Known, ClaimStart(p, i) PROVE
   CutWriting'
  BY <1>24 DEF ClaimStart, Active, Go, CutWriting
<1>25. ASSUME NEW p \in Claimers, ClaimModified(p) PROVE CutWriting'
  BY <1>25 DEF ClaimModified, ClaimEnds, Go, TypeOK, PullsOK, GetsOK, CutWriting
<1>26. ASSUME NEW p \in Claimers, ClaimNotModified(p) PROVE CutWriting'
  BY <1>26 DEF ClaimNotModified, ClaimEnds, Go, CutWriting
<1>27. ASSUME NEW p \in Claimers, ClaimGone(p) PROVE CutWriting'
  BY <1>27 DEF ClaimGone, ClaimEnds, Go, CutWriting
<1>28. ASSUME NEW p \in Claimers, ClaimOutage(p) PROVE CutWriting'
  BY <1>28 DEF ClaimOutage, ClaimEnds, Go, TypeOK, PullsOK, GetsOK, CutWriting
<1>29. ASSUME NEW s \in Servers, NEW i \in Ids, Edit(s, i) PROVE CutWriting'
  BY <1>29 DEF Edit, CutWriting
<1>30. ASSUME NEW p \in Pullers, NEW i \in Ids, Fetch(p, i) PROVE UNCHANGED <<pc,
   cut, alone>>
  BY <1>30 DEF Fetch
<1>31. CASE UNCHANGED vars
  BY <1>1, <1>31 DEF vars
<1> QED
  BY <1>1, <1>2, <1>3, <1>4, <1>5, <1>6, <1>7, <1>8, <1>9, <1>10, <1>11, <1>12,
     <1>13, <1>14, <1>15, <1>16, <1>17, <1>18, <1>19, <1>20, <1>21, <1>22, <1>23,
     <1>24, <1>25, <1>26, <1>27, <1>28, <1>29, <1>30, <1>31 DEF Next, Put, Pull,
     Claim

\* Whoever starts beside a pull ends its solitude.
LEMMA SoloStep ==
    ASSUME TypeOK, Solo, [Next]_vars
    PROVE  Solo'
<1>1. ASSUME UNCHANGED <<pc, alone>> PROVE Solo'
  BY <1>1 DEF Solo, Active
<1>2. ASSUME NEW p \in Procs, Untag(p) PROVE Solo'
  BY <1>2 DEF Untag, Go, Solo, Active
<1>3. ASSUME NEW p \in Procs, Truncate(p) PROVE Solo'
  BY <1>3 DEF Truncate, Go, Solo, Active
<1>4. ASSUME NEW p \in Procs, WriteBody(p) PROVE Solo'
  BY <1>4 DEF WriteBody, Go, Solo, Active
<1>5. ASSUME NEW p \in Procs, Retag(p) PROVE Solo'
  BY <1>5 DEF Retag, Stored, Go, TypeOK, PullsOK, Solo, Active
<1>6. ASSUME NEW p \in Procs, PutFails(p) PROVE Solo'
  BY <1>6 DEF PutFails, Stored, Go, TypeOK, PullsOK, Solo, Active
<1>7. ASSUME NEW p \in Procs, ReadTag(p) PROVE Solo'
  BY <1>7 DEF ReadTag, Go, TypeOK, PullsOK, Solo, Active
<1>8. ASSUME NEW p \in Procs, Kill(p) PROVE Solo'
  BY <1>8 DEF Kill, Solo
<1>9. ASSUME NEW p \in Procs, NEW i \in Ids, ReadBody(p, i) PROVE Solo'
  BY <1>9 DEF ReadBody, Go, Solo, Active
<1>10. ASSUME NEW p \in Pullers, NEW s \in Servers, PullStart(p, s) PROVE Solo'
  BY <1>10 DEF PullStart, Active, Go, TypeOK, PullsOK, Solo
<1>11. ASSUME NEW p \in Pullers, ReadIndex(p) PROVE Solo'
  BY <1>11 DEF ReadIndex, PullEnds, Go, TypeOK, PullsOK, Solo, Active
<1>12. ASSUME NEW p \in Pullers, List(p) PROVE Solo'
  BY <1>12 DEF List, Go, Solo, Active
<1>13. ASSUME NEW p \in Pullers, ListFails(p) PROVE Solo'
  BY <1>13 DEF ListFails, PullEnds, Go, Solo, Active
<1>14. ASSUME NEW p \in Pullers, Requests(p) PROVE Solo'
  BY <1>14 DEF Requests, Go, Solo, Active
<1>15. ASSUME NEW p \in Pullers, Fetched(p) PROVE Solo'
  BY <1>15 DEF Fetched, PullEnds, Go, TypeOK, PullsOK, Solo, Active
<1>16. ASSUME NEW p \in Pullers, Prune(p) PROVE Solo'
  BY <1>16 DEF Prune, Go, Solo, Active
<1>17. ASSUME NEW p \in Pullers, PruneBody(p) PROVE Solo'
  BY <1>17 DEF PruneBody, Go, Solo, Active
<1>18. ASSUME NEW p \in Pullers, IndexBegins(p) PROVE Solo'
  BY <1>18 DEF IndexBegins, Go, Solo, Active
<1>19. ASSUME NEW p \in Pullers, PutIndex(p) PROVE Solo'
  BY <1>19 DEF PutIndex, Go, Solo, Active
<1>20. ASSUME NEW p \in Pullers, StateBegins(p) PROVE Solo'
  BY <1>20 DEF StateBegins, Go, Solo, Active
<1>21. ASSUME NEW p \in Pullers, PutState(p) PROVE Solo'
  BY <1>21 DEF PutState, PullEnds, Go, Solo, Active
<1>22. ASSUME NEW p \in Pullers, NEW i \in Ids, Store(p, i) PROVE Solo'
  BY <1>22 DEF Store, Go, Solo, Active
<1>23. ASSUME NEW p \in Pullers, NEW i \in Ids, PruneTag(p, i) PROVE Solo'
  BY <1>23 DEF PruneTag, Go, Solo, Active
<1>24. ASSUME NEW p \in Claimers, NEW i \in Known, ClaimStart(p, i) PROVE Solo'
  BY <1>24 DEF ClaimStart, Solo
<1>25. ASSUME NEW p \in Claimers, ClaimModified(p) PROVE Solo'
  BY <1>25 DEF ClaimModified, ClaimEnds, Go, TypeOK, PullsOK, Solo, Active
<1>26. ASSUME NEW p \in Claimers, ClaimNotModified(p) PROVE Solo'
  BY <1>26 DEF ClaimNotModified, ClaimEnds, Go, Solo, Active
<1>27. ASSUME NEW p \in Claimers, ClaimGone(p) PROVE Solo'
  BY <1>27 DEF ClaimGone, ClaimEnds, Go, Solo, Active
<1>28. ASSUME NEW p \in Claimers, ClaimOutage(p) PROVE Solo'
  BY <1>28 DEF ClaimOutage, ClaimEnds, Go, TypeOK, PullsOK, Solo, Active
<1>29. ASSUME NEW s \in Servers, NEW i \in Ids, Edit(s, i) PROVE Solo'
  BY <1>29 DEF Edit, Solo
<1>30. ASSUME NEW p \in Pullers, NEW i \in Ids, Fetch(p, i) PROVE UNCHANGED <<pc,
   alone>>
  BY <1>30 DEF Fetch
<1>31. CASE UNCHANGED vars
  BY <1>1, <1>31 DEF vars
<1> QED
  BY <1>1, <1>2, <1>3, <1>4, <1>5, <1>6, <1>7, <1>8, <1>9, <1>10, <1>11, <1>12,
     <1>13, <1>14, <1>15, <1>16, <1>17, <1>18, <1>19, <1>20, <1>21, <1>22, <1>23,
     <1>24, <1>25, <1>26, <1>27, <1>28, <1>29, <1>30, <1>31 DEF Next, Put, Pull,
     Claim

\* A process at rest has nothing to be wrong about.
LEMMA IdleSound ==
    ASSUME NEW p, pc[p] = "idle"
    PROVE  Sound(p)
BY DEF Sound, AsksHonest, AnswersTrue, Storing, Pruning, Putting

\* A running process is the only one a pull that stays alone can be.
LEMMA HealingFrame ==
    ASSUME Solo, NEW q \in Procs, Active(q), alone' \subseteq alone,
           q \in alone' => Sound(q)'
    PROVE  Healing'
<1> SUFFICES ASSUME NEW p \in alone' PROVE Sound(p)'
  BY DEF Healing
<1>1. p = q
  BY DEF Solo
<1> QED BY <1>1

\* A pull that nothing disturbs keeps its server's word: what it asks with, what
\* it believes, what it stored and what it removed stay true until it records
\* itself.
LEMMA HealingStep ==
    ASSUME TypeOK, Scopes, CutWriting, Solo, Healing, [Next]_vars
    PROVE  Healing'
<1>1. ASSUME NEW p \in Procs, Untag(p) PROVE Healing'
  <2> SUFFICES ASSUME p \in alone' PROVE Sound(p)'
    BY <1>1, HealingFrame DEF Untag, Active, Procs
  <2>1. p \in alone /\ p \in Pullers /\ p \in Procs /\ Sound(p)
    BY <1>1 DEF Untag, Healing, TypeOK, ClaimsOK, Procs
  <2>2. pc[p] = "untag"
    BY <1>1 DEF Untag
  <2>3. /\ pc'[p] = "truncate" /\ from'[p] = from[p] /\ sent'[p] = sent[p]
        /\ seen'[p] = seen[p] /\ rows'[p] = rows[p] /\ todo'[p] = todo[p]
        /\ cur'[p] = cur[p] /\ answer'[p] = answer[p] /\ body' = body /\ index' = index
        /\ detail' = detail
    BY <1>1, <2>1 DEF Untag, Go, serverVars, stateVars, pullVars, getVars, TypeOK,
       PullsOK
  <2>4. AsksHonest(p)'
    BY <2>1, <2>2, <2>3 DEF AsksHonest
  <2>5. AnswersTrue(p)'
    BY <2>1, <2>2, <2>3 DEF AnswersTrue
  <2>6. Storing(p)'
    BY <2>1, <2>2, <2>3 DEF Storing, Sound, Fetchable, Good, Putting
  <2>7. Pruning(p)'
    BY <2>1, <2>2, <2>3 DEF Pruning
  <2> QED BY <2>4, <2>5, <2>6, <2>7 DEF Sound
<1>2. ASSUME NEW p \in Procs, Truncate(p) PROVE Healing'
  <2> SUFFICES ASSUME p \in alone' PROVE Sound(p)'
    BY <1>2, HealingFrame DEF Truncate, Active, Procs
  <2>1. p \in alone /\ p \in Pullers /\ p \in Procs /\ Sound(p)
    BY <1>2 DEF Truncate, Healing, TypeOK, ClaimsOK, Procs
  <2>2. pc[p] = "truncate"
    BY <1>2 DEF Truncate
  <2>3. /\ pc'[p] = "write" /\ from'[p] = from[p] /\ sent'[p] = sent[p]
        /\ seen'[p] = seen[p] /\ rows'[p] = rows[p] /\ todo'[p] = todo[p]
        /\ cur'[p] = cur[p] /\ answer'[p] = answer[p]
        /\ body' = [body EXCEPT ![cur[p]] = Empty] /\ index' = index /\ detail' = detail
    BY <1>2, <2>1 DEF Truncate, Go, serverVars, stateVars, pullVars, getVars,
       TypeOK, PullsOK
  <2>4. AsksHonest(p)'
    BY <2>1, <2>2, <2>3 DEF AsksHonest
  <2>5. AnswersTrue(p)'
    BY <2>1, <2>2, <2>3 DEF AnswersTrue
  <2>6. Storing(p)'
    BY <2>1, <2>2, <2>3 DEF Storing, Sound, Fetchable, Good, Putting, TypeOK, DiskOK
  <2>7. Pruning(p)'
    BY <2>1, <2>2, <2>3 DEF Pruning
  <2> QED BY <2>4, <2>5, <2>6, <2>7 DEF Sound
<1>3. ASSUME NEW p \in Procs, WriteBody(p) PROVE Healing'
  <2> SUFFICES ASSUME p \in alone' PROVE Sound(p)'
    BY <1>3, HealingFrame DEF WriteBody, Active, Procs
  <2>1. p \in alone /\ p \in Pullers /\ p \in Procs /\ Sound(p)
    BY <1>3 DEF WriteBody, Healing, TypeOK, ClaimsOK, Procs
  <2>2. pc[p] = "write"
    BY <1>3 DEF WriteBody
  <2>3. p \notin cut /\ Written(body[cur[p]], answer[p][cur[p]]) = {answer[p][cur[p]]}
    BY <2>1, <2>2 DEF CutWriting, Written, Sound, Storing
  <2>4. /\ pc'[p] = "retag" /\ from'[p] = from[p] /\ sent'[p] = sent[p]
        /\ seen'[p] = seen[p] /\ rows'[p] = rows[p] /\ todo'[p] = todo[p]
        /\ cur'[p] = cur[p] /\ answer'[p] = answer[p]
        /\ body' = [body EXCEPT ![cur[p]] = answer[p][cur[p]]] /\ index' = index
        /\ detail' = detail
    BY <1>3, <2>1, <2>3 DEF WriteBody, Go, serverVars, stateVars, pullVars, getVars,
       TypeOK, PullsOK
  <2>5. AsksHonest(p)'
    BY <2>1, <2>2, <2>4 DEF AsksHonest
  <2>6. AnswersTrue(p)'
    BY <2>1, <2>2, <2>4 DEF AnswersTrue
  <2>7. Storing(p)'
    BY <2>1, <2>2, <2>4 DEF Storing, Sound, Fetchable, Good, Putting, TypeOK, DiskOK
  <2>8. Pruning(p)'
    BY <2>1, <2>2, <2>4 DEF Pruning
  <2> QED BY <2>5, <2>6, <2>7, <2>8 DEF Sound
<1>4. ASSUME NEW p \in Procs, Retag(p) PROVE Healing'
  <2> SUFFICES ASSUME p \in alone' PROVE Sound(p)'
    BY <1>4, HealingFrame DEF Retag, Active, Procs
  <2>1. p \in alone /\ p \in Pullers /\ p \in Procs /\ Sound(p)
    BY <1>4 DEF Retag, Healing, TypeOK, ClaimsOK, Procs
  <2>2. pc[p] = "retag"
    BY <1>4 DEF Retag
  <2>3. /\ pc'[p] = "store" /\ from'[p] = from[p] /\ sent'[p] = sent[p]
        /\ seen'[p] = seen[p] /\ rows'[p] = rows[p] /\ todo'[p] = todo[p]
        /\ cur'[p] = None /\ answer'[p] = answer[p] /\ body' = body /\ index' = index
        /\ detail' = detail
    BY <1>4, <2>1, StoredFacts DEF Retag, serverVars, stateVars, pullVars, TypeOK,
       PullsOK
  <2>4. AsksHonest(p)'
    BY <2>1, <2>2, <2>3 DEF AsksHonest
  <2>5. AnswersTrue(p)'
    BY <2>1, <2>2, <2>3 DEF AnswersTrue
  <2>6. Storing(p)'
    BY <2>1, <2>2, <2>3 DEF Storing, Sound, Fetchable, Good, Putting
  <2>7. Pruning(p)'
    BY <2>1, <2>2, <2>3 DEF Pruning
  <2> QED BY <2>4, <2>5, <2>6, <2>7 DEF Sound
<1>5. ASSUME NEW p \in Procs, PutFails(p) PROVE Healing'
  <2>1. Active(p) /\ p \notin alone' /\ alone' = alone
    BY <1>5 DEF PutFails, Active, TypeOK, ClaimsOK, Procs
  <2> QED BY <2>1, HealingFrame
<1>6. ASSUME NEW p \in Procs, ReadTag(p) PROVE Healing'
  <2> SUFFICES ASSUME p \in alone' PROVE Sound(p)'
    BY <1>6, HealingFrame DEF ReadTag, Active, Procs
  <2>1. p \in alone /\ p \in Pullers /\ p \in Procs /\ Sound(p)
    BY <1>6 DEF ReadTag, Healing, TypeOK, ClaimsOK, Procs
  <2>2. pc[p] = "tag"
    BY <1>6 DEF ReadTag
  <2>3. /\ pc'[p] = "read" /\ from'[p] = from[p]
        /\ sent'[p] = [sent[p] EXCEPT ![cur[p]] = Honored(cur[p], seen[p])]
        /\ seen'[p] = None /\ rows'[p] = rows[p] /\ todo'[p] = todo[p] /\ cur'[p] = None
        /\ answer'[p] = answer[p] /\ body' = body /\ index' = index /\ detail' = detail
    BY <1>6, <2>1 DEF ReadTag, Go, serverVars, detailVars, stateVars, pullVars,
       TypeOK, PullsOK, GetsOK
  <2>4. AsksHonest(p)'
    BY <2>1, <2>2, <2>3 DEF AsksHonest, Sound, Honored
  <2>5. AnswersTrue(p)'
    BY <2>1, <2>2, <2>3 DEF AnswersTrue
  <2>6. Storing(p)'
    BY <2>1, <2>2, <2>3 DEF Storing, Putting
  <2>7. Pruning(p)'
    BY <2>1, <2>2, <2>3 DEF Pruning
  <2> QED BY <2>4, <2>5, <2>6, <2>7 DEF Sound
<1>7. ASSUME NEW p \in Procs, Kill(p) PROVE Healing'
  <2>1. Active(p) /\ p \notin alone' /\ alone' \subseteq alone
    BY <1>7 DEF Kill
  <2> QED BY <2>1, HealingFrame
<1>8. ASSUME NEW p \in Procs, NEW i \in Ids, ReadBody(p, i) PROVE Healing'
  <2> SUFFICES ASSUME p \in alone' PROVE Sound(p)'
    BY <1>8, HealingFrame DEF ReadBody, Active, Procs
  <2>1. p \in alone /\ p \in Pullers /\ p \in Procs /\ Sound(p)
    BY <1>8 DEF ReadBody, Healing, TypeOK, ClaimsOK, Procs
  <2>2. pc[p] = "read"
    BY <1>8 DEF ReadBody
  <2>3. /\ pc'[p] = "tag" /\ from'[p] = from[p] /\ sent'[p] = sent[p]
        /\ seen'[p] = body[i] /\ rows'[p] = rows[p] /\ todo'[p] = todo[p] \ {i}
        /\ cur'[p] = i /\ answer'[p] = answer[p] /\ body' = body /\ index' = index
        /\ detail' = detail
    BY <1>8, <2>1 DEF ReadBody, Go, serverVars, detailVars, stateVars, pullVars,
       TypeOK, PullsOK, GetsOK
  <2>4. AsksHonest(p)'
    BY <2>1, <2>2, <2>3 DEF AsksHonest, Sound
  <2>5. AnswersTrue(p)'
    BY <2>1, <2>2, <2>3 DEF AnswersTrue
  <2>6. Storing(p)'
    BY <2>1, <2>2, <2>3 DEF Storing, Putting
  <2>7. Pruning(p)'
    BY <2>1, <2>2, <2>3 DEF Pruning
  <2> QED BY <2>4, <2>5, <2>6, <2>7 DEF Sound
<1>9. ASSUME NEW p \in Pullers, NEW s \in Servers, PullStart(p, s) PROVE Healing'
  <2> SUFFICES ASSUME p \in alone' PROVE Sound(p)'
    BY <1>9 DEF PullStart, Healing
  <2>1. pc[p] = "idle" /\ sent[p] = Unsent /\ sent' = sent
    BY <1>9 DEF PullStart, Active, getVars, Scopes, Scoped, Procs
  <2>2. pc'[p] \in {"idle", "index"}
    BY <1>9, <2>1 DEF PullStart, Go, TypeOK, PullsOK
  <2>3. CASE pc'[p] = "idle"
    BY <2>3, IdleSound DEF Sound, AsksHonest, AnswersTrue, Storing, Pruning, Putting
  <2>4. CASE pc'[p] = "index"
    BY <2>1, <2>4 DEF Sound, AsksHonest, AnswersTrue, Storing, Pruning, Putting,
       Unsent
  <2> QED BY <2>2, <2>3, <2>4
<1>10. ASSUME NEW p \in Pullers, ReadIndex(p) PROVE Healing'
  <2> SUFFICES ASSUME p \in alone' PROVE Sound(p)'
    BY <1>10, HealingFrame DEF ReadIndex, Active, Procs
  <2>1. Sound(p) /\ pc[p] = "index"
    BY <1>10 DEF ReadIndex, Healing
  <2>2. CASE index \in Unreadable
    <3>1. pc'[p] = "idle"
      BY <1>10, <2>2 DEF ReadIndex, PullEnds, Go, TypeOK, PullsOK, Procs
    <3> QED BY <3>1 DEF Sound, AsksHonest, AnswersTrue, Storing, Pruning, Putting
  <2>3. CASE index \notin Unreadable
    <3>1. pc'[p] = "list" /\ sent' = sent /\ body' = body
      BY <1>10, <2>3 DEF ReadIndex, Go, getVars, detailVars, TypeOK, PullsOK, Procs
    <3> QED BY <2>1, <3>1 DEF Sound, AsksHonest, AnswersTrue, Storing, Pruning, Putting
  <2> QED BY <2>2, <2>3
<1>11. ASSUME NEW p \in Pullers, List(p) PROVE Healing'
  <2> SUFFICES ASSUME p \in alone' PROVE Sound(p)'
    BY <1>11, HealingFrame DEF List, Active, Procs
  <2>1. Sound(p) /\ pc[p] = "list"
    BY <1>11 DEF List, Healing
  <2>2. /\ pc'[p] \in {"read", "fetch"} /\ sent' = sent /\ body' = body
        /\ todo'[p] = rows'[p] \cap Known
    BY <1>11 DEF List, Go, getVars, detailVars, TypeOK, PullsOK, Procs
  <2> QED BY <2>1, <2>2 DEF Sound, AsksHonest, AnswersTrue, Storing, Pruning, Putting, Fetchable
<1>12. ASSUME NEW p \in Pullers, ListFails(p) PROVE Healing'
  <2>1. Active(p) /\ alone' = alone
    BY <1>12 DEF ListFails, Active
  <2>2. pc'[p] = "idle"
    BY <1>12 DEF ListFails, PullEnds, Go, TypeOK, PullsOK, Procs
  <2>3. Sound(p)'
    BY <2>2 DEF Sound, AsksHonest, AnswersTrue, Storing, Pruning, Putting
  <2> QED BY <2>1, <2>3, HealingFrame DEF Procs
<1>13. ASSUME NEW p \in Pullers, PutState(p) PROVE Healing'
  <2>1. Active(p) /\ alone' = alone
    BY <1>13 DEF PutState, Active
  <2>2. pc'[p] = "idle"
    BY <1>13 DEF PutState, PullEnds, Go, TypeOK, PullsOK, Procs
  <2>3. Sound(p)'
    BY <2>2 DEF Sound, AsksHonest, AnswersTrue, Storing, Pruning, Putting
  <2> QED BY <2>1, <2>3, HealingFrame DEF Procs
<1>14. ASSUME NEW p \in Pullers, Requests(p) PROVE Healing'
  <2> SUFFICES ASSUME p \in alone' PROVE Sound(p)'
    BY <1>14, HealingFrame DEF Requests, Active, Procs
  <2>1. p \in alone /\ p \in Pullers /\ p \in Procs /\ Sound(p)
    BY <1>14 DEF Requests, Healing, TypeOK, ClaimsOK, Procs
  <2>2. pc[p] = "read"
    BY <1>14 DEF Requests
  <2>3. /\ pc'[p] = "fetch" /\ from'[p] = from[p] /\ sent'[p] = sent[p]
        /\ seen'[p] = seen[p] /\ rows'[p] = rows[p] /\ todo'[p] = rows[p] \cap Known
        /\ cur'[p] = cur[p] /\ answer'[p] = answer[p] /\ body' = body /\ index' = index
        /\ detail' = detail
    BY <1>14, <2>1 DEF Requests, Go, serverVars, detailVars, stateVars, pullVars,
       getVars, TypeOK, PullsOK
  <2>4. AsksHonest(p)'
    BY <2>1, <2>2, <2>3 DEF AsksHonest, Sound
  <2>5. AnswersTrue(p)'
    BY <2>1, <2>2, <2>3 DEF AnswersTrue, Sound, Fetchable
  <2>6. Storing(p)'
    BY <2>1, <2>2, <2>3 DEF Storing, Putting
  <2>7. Pruning(p)'
    BY <2>1, <2>2, <2>3 DEF Pruning
  <2> QED BY <2>4, <2>5, <2>6, <2>7 DEF Sound
<1>15. ASSUME NEW p \in Pullers, NEW i \in Ids, Fetch(p, i) PROVE Healing'
  <2> SUFFICES ASSUME p \in alone' PROVE Sound(p)'
    BY <1>15, HealingFrame DEF Fetch, Active, Procs
  <2>1. p \in alone /\ p \in Pullers /\ p \in Procs /\ Sound(p)
    BY <1>15 DEF Fetch, Healing, TypeOK, ClaimsOK, Procs
  <2>2. pc[p] = "fetch"
    BY <1>15 DEF Fetch
  <2>3. PICK a \in {"failed", Detail(p, i)} : answer' = [answer EXCEPT ![p][i] = a]
    BY <1>15 DEF Fetch
  <2>4. /\ pc'[p] = pc[p] /\ from'[p] = from[p] /\ sent'[p] = sent[p]
        /\ seen'[p] = seen[p] /\ rows'[p] = rows[p] /\ todo'[p] = todo[p] \ {i}
        /\ cur'[p] = cur[p] /\ answer'[p] = [answer[p] EXCEPT ![i] = a] /\ body' = body
        /\ index' = index /\ detail' = detail
    BY <1>15, <2>1, <2>3 DEF Fetch, serverVars, detailVars, stateVars, pullVars,
       TypeOK, PullsOK, GetsOK
  <2>5. AsksHonest(p)'
    BY <2>1, <2>2, <2>4 DEF AsksHonest, Sound
  <2>6. AnswersTrue(p)'
    <3>1. a = "failed" \/ a = detail[from[p]][i] \/ (a = "current" /\ body[i] = detail[from[p]][i])
      BY <2>1, <2>2, <2>3, DetailFacts DEF Sound, AsksHonest
    <3>2. \A j \in Ids : answer'[p][j] = IF j = i THEN a ELSE answer[p][j]
      BY <2>1, <2>4 DEF TypeOK, GetsOK
    <3>3. rows[p] \subseteq Ids
      BY <2>1 DEF TypeOK, PullsOK
    <3> QED BY <2>1, <2>2, <2>4, <3>1, <3>2, <3>3 DEF AnswersTrue, Sound, Fetchable
  <2>7. Storing(p)'
    BY <2>1, <2>2, <2>4 DEF Storing, Putting
  <2>8. Pruning(p)'
    BY <2>1, <2>2, <2>4 DEF Pruning
  <2> QED BY <2>5, <2>6, <2>7, <2>8 DEF Sound
<1>16. ASSUME NEW p \in Pullers, Fetched(p) PROVE Healing'
  <2> SUFFICES ASSUME p \in alone' PROVE Sound(p)'
    BY <1>16, HealingFrame DEF Fetched, Active, Procs
  <2>1. Sound(p) /\ pc[p] = "fetch" /\ todo[p] = {}
    BY <1>16 DEF Fetched, Healing
  <2>2. CASE AllFailed(p)
    <3>1. pc'[p] = "idle"
      BY <1>16, <2>2 DEF Fetched, PullEnds, Go, TypeOK, PullsOK, Procs
    <3> QED BY <3>1 DEF Sound, AsksHonest, AnswersTrue, Storing, Pruning, Putting
  <2>3. CASE ~ AllFailed(p)
    <3>1. /\ pc'[p] = "store" /\ todo'[p] = Kept(p)
          /\ UNCHANGED <<body, detail, from, rows, answer>>
      BY <1>16, <2>3 DEF Fetched, Go, getVars, pullVars, detailVars, serverVars,
         TypeOK, PullsOK, Procs
    <3>2. \A i \in Fetchable(p) :
            \/ answer[p][i] \in {"failed", detail[from[p]][i]}
            \/ answer[p][i] = "current" /\ body[i] = detail[from[p]][i]
      BY <2>1 DEF Sound, AnswersTrue
    <3>3. \A i \in Fetchable(p) : detail[from[p]][i] \in Versions
      BY DetailFacts DEF Fetchable, TypeOK, PullsOK, Procs
    <3>4. \A i \in Kept(p) : i \in Fetchable(p) /\ answer[p][i] = detail[from[p]][i]
      BY <3>2 DEF Kept
    <3>5. \A i \in Fetchable(p) : Good(p, i) \/ i \in Kept(p)
      BY <3>2, <3>3 DEF Kept, Good
    <3>6. Storing(p)'
      BY <3>1, <3>4, <3>5 DEF Storing, Good, Fetchable, Putting
    <3> QED BY <3>1, <3>6 DEF Sound, AsksHonest, AnswersTrue, Pruning
  <2> QED BY <2>2, <2>3
<1>17. ASSUME NEW p \in Pullers, NEW i \in Ids, Store(p, i) PROVE Healing'
  <2> SUFFICES ASSUME p \in alone' PROVE Sound(p)'
    BY <1>17, HealingFrame DEF Store, Active, Procs
  <2>1. p \in alone /\ p \in Pullers /\ p \in Procs /\ Sound(p)
    BY <1>17 DEF Store, Healing, TypeOK, ClaimsOK, Procs
  <2>2. pc[p] = "store"
    BY <1>17 DEF Store
  <2>3. i \in todo[p]
    BY <1>17 DEF Store
  <2>4. /\ pc'[p] = "untag" /\ from'[p] = from[p] /\ sent'[p] = sent[p]
        /\ seen'[p] = seen[p] /\ rows'[p] = rows[p] /\ todo'[p] = todo[p] \ {i}
        /\ cur'[p] = i /\ answer'[p] = answer[p] /\ body' = body /\ index' = index
        /\ detail' = detail
    BY <1>17, <2>1 DEF Store, Go, serverVars, detailVars, stateVars, pullVars,
       getVars, TypeOK, PullsOK
  <2>5. AsksHonest(p)'
    BY <2>1, <2>2, <2>4 DEF AsksHonest
  <2>6. AnswersTrue(p)'
    BY <2>1, <2>2, <2>4 DEF AnswersTrue
  <2>7. Storing(p)'
    BY <2>1, <2>2, <2>4, <2>3 DEF Storing, Sound, Fetchable, Good, Putting
  <2>8. Pruning(p)'
    BY <2>1, <2>2, <2>4 DEF Pruning
  <2> QED BY <2>5, <2>6, <2>7, <2>8 DEF Sound
<1>18. ASSUME NEW p \in Pullers, Prune(p) PROVE Healing'
  <2> SUFFICES ASSUME p \in alone' PROVE Sound(p)'
    BY <1>18, HealingFrame DEF Prune, Active, Procs
  <2>1. p \in alone /\ p \in Pullers /\ p \in Procs /\ Sound(p)
    BY <1>18 DEF Prune, Healing, TypeOK, ClaimsOK, Procs
  <2>2. pc[p] = "store"
    BY <1>18 DEF Prune
  <2>3. todo[p] = {}
    BY <1>18 DEF Prune
  <2>4. /\ pc'[p] = "prune" /\ from'[p] = from[p] /\ sent'[p] = sent[p]
        /\ seen'[p] = seen[p] /\ rows'[p] = rows[p]
        /\ todo'[p] = {i \in Ids \ rows[p] : body[i] # None} /\ cur'[p] = cur[p]
        /\ answer'[p] = answer[p] /\ body' = body /\ index' = index /\ detail' = detail
    BY <1>18, <2>1 DEF Prune, Go, serverVars, detailVars, stateVars, pullVars,
       getVars, TypeOK, PullsOK
  <2>5. AsksHonest(p)'
    BY <2>1, <2>2, <2>4 DEF AsksHonest
  <2>6. AnswersTrue(p)'
    BY <2>1, <2>2, <2>4 DEF AnswersTrue
  <2>7. Storing(p)'
    BY <2>1, <2>2, <2>4 DEF Storing, Putting
  <2>8. Pruning(p)'
    BY <2>1, <2>2, <2>4, <2>3 DEF Pruning, Sound, Fetchable, Good, Storing, Putting
  <2> QED BY <2>5, <2>6, <2>7, <2>8 DEF Sound
<1>19. ASSUME NEW p \in Pullers, NEW i \in Ids, PruneTag(p, i) PROVE Healing'
  <2> SUFFICES ASSUME p \in alone' PROVE Sound(p)'
    BY <1>19, HealingFrame DEF PruneTag, Active, Procs
  <2>1. p \in alone /\ p \in Pullers /\ p \in Procs /\ Sound(p)
    BY <1>19 DEF PruneTag, Healing, TypeOK, ClaimsOK, Procs
  <2>2. pc[p] = "prune"
    BY <1>19 DEF PruneTag
  <2>3. i \in todo[p]
    BY <1>19 DEF PruneTag
  <2>4. /\ pc'[p] = "unlink" /\ from'[p] = from[p] /\ sent'[p] = sent[p]
        /\ seen'[p] = seen[p] /\ rows'[p] = rows[p] /\ todo'[p] = todo[p] \ {i}
        /\ cur'[p] = i /\ answer'[p] = answer[p] /\ body' = body /\ index' = index
        /\ detail' = detail
    BY <1>19, <2>1 DEF PruneTag, Go, serverVars, stateVars, pullVars, getVars,
       TypeOK, PullsOK
  <2>5. AsksHonest(p)'
    BY <2>1, <2>2, <2>4 DEF AsksHonest
  <2>6. AnswersTrue(p)'
    BY <2>1, <2>2, <2>4 DEF AnswersTrue
  <2>7. Storing(p)'
    BY <2>1, <2>2, <2>4 DEF Storing, Putting
  <2>8. Pruning(p)'
    BY <2>1, <2>2, <2>4, <2>3 DEF Pruning, Sound, Fetchable, Good
  <2> QED BY <2>5, <2>6, <2>7, <2>8 DEF Sound
<1>20. ASSUME NEW p \in Pullers, PruneBody(p) PROVE Healing'
  <2> SUFFICES ASSUME p \in alone' PROVE Sound(p)'
    BY <1>20, HealingFrame DEF PruneBody, Active, Procs
  <2>1. p \in alone /\ p \in Pullers /\ p \in Procs /\ Sound(p)
    BY <1>20 DEF PruneBody, Healing, TypeOK, ClaimsOK, Procs
  <2>2. pc[p] = "unlink"
    BY <1>20 DEF PruneBody
  <2>3. /\ pc'[p] = "prune" /\ from'[p] = from[p] /\ sent'[p] = sent[p]
        /\ seen'[p] = seen[p] /\ rows'[p] = rows[p] /\ todo'[p] = todo[p]
        /\ cur'[p] = None /\ answer'[p] = answer[p]
        /\ body' = [body EXCEPT ![cur[p]] = None] /\ index' = index /\ detail' = detail
    BY <1>20, <2>1 DEF PruneBody, Go, serverVars, stateVars, pullVars, getVars,
       TypeOK, PullsOK
  <2>4. AsksHonest(p)'
    BY <2>1, <2>2, <2>3 DEF AsksHonest
  <2>5. AnswersTrue(p)'
    BY <2>1, <2>2, <2>3 DEF AnswersTrue
  <2>6. Storing(p)'
    BY <2>1, <2>2, <2>3 DEF Storing, Putting
  <2>7. Pruning(p)'
    BY <2>1, <2>2, <2>3 DEF Pruning, Sound, Fetchable, Good, TypeOK, DiskOK
  <2> QED BY <2>4, <2>5, <2>6, <2>7 DEF Sound
<1>21. ASSUME NEW p \in Pullers, IndexBegins(p) PROVE Healing'
  <2> SUFFICES ASSUME p \in alone' PROVE Sound(p)'
    BY <1>21, HealingFrame DEF IndexBegins, Active, Procs
  <2>1. p \in alone /\ p \in Pullers /\ p \in Procs /\ Sound(p)
    BY <1>21 DEF IndexBegins, Healing, TypeOK, ClaimsOK, Procs
  <2>2. pc[p] = "prune"
    BY <1>21 DEF IndexBegins
  <2>3. todo[p] = {}
    BY <1>21 DEF IndexBegins
  <2>4. /\ pc'[p] = "rows" /\ from'[p] = from[p] /\ sent'[p] = sent[p]
        /\ seen'[p] = seen[p] /\ rows'[p] = rows[p] /\ todo'[p] = todo[p]
        /\ cur'[p] = cur[p] /\ answer'[p] = answer[p] /\ body' = body /\ index' = Empty
        /\ detail' = detail
    BY <1>21, <2>1 DEF IndexBegins, Go, serverVars, detailVars, pullVars, getVars,
       TypeOK, PullsOK
  <2>5. AsksHonest(p)'
    BY <2>1, <2>2, <2>4 DEF AsksHonest
  <2>6. AnswersTrue(p)'
    BY <2>1, <2>2, <2>4 DEF AnswersTrue
  <2>7. Storing(p)'
    BY <2>1, <2>2, <2>4 DEF Storing, Putting
  <2>8. Pruning(p)'
    BY <2>1, <2>2, <2>4, <2>3 DEF Pruning, Sound, Fetchable, Good
  <2> QED BY <2>5, <2>6, <2>7, <2>8 DEF Sound
<1>22. ASSUME NEW p \in Pullers, PutIndex(p) PROVE Healing'
  <2> SUFFICES ASSUME p \in alone' PROVE Sound(p)'
    BY <1>22, HealingFrame DEF PutIndex, Active, Procs
  <2>1. p \in alone /\ p \in Pullers /\ p \in Procs /\ Sound(p)
    BY <1>22 DEF PutIndex, Healing, TypeOK, ClaimsOK, Procs
  <2>2. pc[p] = "rows"
    BY <1>22 DEF PutIndex
  <2>3. Written(index, rows[p]) = {rows[p]}
    BY <2>1, <2>2 DEF Written, Sound, Pruning
  <2>4. /\ pc'[p] = "state" /\ from'[p] = from[p] /\ sent'[p] = sent[p]
        /\ seen'[p] = seen[p] /\ rows'[p] = rows[p] /\ todo'[p] = todo[p]
        /\ cur'[p] = cur[p] /\ answer'[p] = answer[p] /\ body' = body /\ index' = rows[p]
        /\ detail' = detail
    BY <1>22, <2>1, <2>3 DEF PutIndex, Go, serverVars, detailVars, pullVars,
       getVars, TypeOK, PullsOK
  <2>5. AsksHonest(p)'
    BY <2>1, <2>2, <2>4 DEF AsksHonest
  <2>6. AnswersTrue(p)'
    BY <2>1, <2>2, <2>4 DEF AnswersTrue
  <2>7. Storing(p)'
    BY <2>1, <2>2, <2>4 DEF Storing, Putting
  <2>8. Pruning(p)'
    BY <2>1, <2>2, <2>4 DEF Pruning, Sound, Fetchable, Good
  <2> QED BY <2>5, <2>6, <2>7, <2>8 DEF Sound
<1>23. ASSUME NEW p \in Pullers, StateBegins(p) PROVE Healing'
  <2> SUFFICES ASSUME p \in alone' PROVE Sound(p)'
    BY <1>23, HealingFrame DEF StateBegins, Active, Procs
  <2>1. p \in alone /\ p \in Pullers /\ p \in Procs /\ Sound(p)
    BY <1>23 DEF StateBegins, Healing, TypeOK, ClaimsOK, Procs
  <2>2. pc[p] = "state"
    BY <1>23 DEF StateBegins
  <2>3. /\ pc'[p] = "sync" /\ from'[p] = from[p] /\ sent'[p] = sent[p]
        /\ seen'[p] = seen[p] /\ rows'[p] = rows[p] /\ todo'[p] = todo[p]
        /\ cur'[p] = cur[p] /\ answer'[p] = answer[p] /\ body' = body /\ index' = index
        /\ detail' = detail
    BY <1>23, <2>1 DEF StateBegins, Go, serverVars, detailVars, pullVars, getVars,
       TypeOK, PullsOK
  <2>4. AsksHonest(p)'
    BY <2>1, <2>2, <2>3 DEF AsksHonest
  <2>5. AnswersTrue(p)'
    BY <2>1, <2>2, <2>3 DEF AnswersTrue
  <2>6. Storing(p)'
    BY <2>1, <2>2, <2>3 DEF Storing, Putting
  <2>7. Pruning(p)'
    BY <2>1, <2>2, <2>3 DEF Pruning, Sound, Fetchable, Good
  <2> QED BY <2>4, <2>5, <2>6, <2>7 DEF Sound
<1>24. ASSUME NEW p \in Claimers, NEW i \in Known, ClaimStart(p, i) PROVE Healing'
  BY <1>24 DEF ClaimStart, Healing
<1>25. ASSUME NEW p \in Claimers, ClaimModified(p) PROVE Healing'
  <2>1. Active(p) /\ p \notin alone' /\ alone' = alone
    BY <1>25 DEF ClaimModified, Active, TypeOK, ClaimsOK
  <2> QED BY <2>1, HealingFrame DEF Procs
<1>26. ASSUME NEW p \in Claimers, ClaimNotModified(p) PROVE Healing'
  <2>1. Active(p) /\ p \notin alone' /\ alone' = alone
    BY <1>26 DEF ClaimNotModified, Active, TypeOK, ClaimsOK
  <2> QED BY <2>1, HealingFrame DEF Procs
<1>27. ASSUME NEW p \in Claimers, ClaimGone(p) PROVE Healing'
  <2>1. Active(p) /\ p \notin alone' /\ alone' = alone
    BY <1>27 DEF ClaimGone, Active, TypeOK, ClaimsOK
  <2> QED BY <2>1, HealingFrame DEF Procs
<1>28. ASSUME NEW p \in Claimers, ClaimOutage(p) PROVE Healing'
  <2>1. Active(p) /\ p \notin alone' /\ alone' = alone
    BY <1>28 DEF ClaimOutage, Active, TypeOK, ClaimsOK
  <2> QED BY <2>1, HealingFrame DEF Procs
<1>29. ASSUME NEW s \in Servers, NEW i \in Ids, Edit(s, i) PROVE Healing'
  BY <1>29 DEF Edit, Healing
<1>30. ASSUME UNCHANGED vars PROVE Healing'
  <2>1. UNCHANGED <<alone, pc, from, rows, todo, cur, seen, sent, answer, body, detail, index>>
    BY <1>30 DEF vars, serverVars, detailVars, stateVars, pullVars, getVars
  <2> QED BY <2>1 DEF Healing, Sound, AsksHonest, AnswersTrue, Storing, Pruning, Good, Fetchable
<1> QED BY <1>1, <1>2, <1>3, <1>4, <1>5, <1>6, <1>7, <1>8, <1>9, <1>10, <1>11, <1>12, <1>13,
   <1>14, <1>15, <1>16, <1>17, <1>18, <1>19, <1>20, <1>21, <1>22, <1>23, <1>24, <1>25,
   <1>26, <1>27, <1>28, <1>29, <1>30 DEF Next, Put, Pull,
   Claim

\* A workspace that never synced satisfies the invariant.
LEMMA InitInv == Init => IInv
<1> SUFFICES ASSUME Init PROVE IInv
  OBVIOUS
<1>1. ServersOK /\ DiskOK /\ PullsOK /\ ClaimsOK
  BY DEF Init, ServersOK, DiskOK, PullsOK, ClaimsOK, Procs
<1>2. GetsOK
  BY DEF Init, GetsOK, Unsent, Procs
<1>3. Scopes
  BY DEF Init, Scopes, Scoped, Putting, Procs
<1>4. ClaimSound /\ ClaimRunsServed
  BY DEF Init, ClaimSound, ClaimRunsServed, Active, Putting, Procs
<1>5. CutWriting /\ Solo /\ Healing
  BY DEF Init, CutWriting, Solo, Healing
<1> QED BY <1>1, <1>2, <1>3, <1>4, <1>5 DEF IInv, TypeOK

\* Every step keeps it: a claim keeps what it read beside what it asked with, and
\* a pull that is alone goes by its own reads.
THEOREM Inductive == IInv /\ [Next]_vars => IInv'
<1> SUFFICES ASSUME IInv, [Next]_vars PROVE IInv'
  OBVIOUS
<1>1. TypeOK'
  BY ServersStep, DiskStep, PullsStep, GetsStep, ClaimsStep DEF IInv, TypeOK
<1>2. Scopes' /\ ClaimSound' /\ ClaimRunsServed'
  BY ScopesStep, ClaimSoundStep, RunsServedStep DEF IInv
<1>3. CutWriting' /\ Solo' /\ Healing'
  BY CutStep, SoloStep, HealingStep DEF IInv
<1> QED BY <1>1, <1>2, <1>3 DEF IInv

\* Hence it always holds.
LEMMA Invariance == Spec => []IInv
  BY InitInv, Inductive, PTL DEF Spec

\* What is on disk is always a definition, a list, a record or unreadable, and what
\* a process holds is what its place calls for.
THEOREM TypeCorrect == Spec => []TypeOK
<1>1. IInv => TypeOK
  BY DEF IInv
<1> QED BY <1>1, Invariance, PTL

\* A claim the server answered runs what the server had, however pulls, claims and
\* kills interleave on the cache (worker.rs ensure_claim_benchmark_cached).
THEOREM ClaimsRunServed == Spec => []ClaimRunsServed
<1>1. IInv => ClaimRunsServed
  BY DEF IInv
<1> QED BY <1>1, Invariance, PTL

\* A pull that nothing disturbs leaves the server's catalog, whatever it found
\* (sync.rs pull_remote_benchmarks).
THEOREM PullsHeal == Spec => []PullHeals
<1>1. IInv => PullHeals
  BY DEF IInv, Healing, Sound, Pruning, Good, PullHeals
<1> QED BY <1>1, Invariance, PTL


=============================================================================
