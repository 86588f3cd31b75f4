-------------------------- MODULE PlanRunnerProofs --------------------------
(***************************************************************************)
(* Proofs about PlanRunner: for any number of cells, shards, clients,      *)
(* boxes and threads, any plan revisions and options, and any number of    *)
(* faults and kills, a cell an invocation took on is in exactly one place, *)
(* shards never hold the same cell, device affinity and --include-done are *)
(* respected, a box stays within its budget, and a cell is left over only  *)
(* for a thread that stopped.                                              *)
(***************************************************************************)
EXTENDS PlanRunner, FiniteSetTheorems, SequenceTheorems, TLAPS

\* A nonempty bounded set of naturals has a largest element.
LEMMA MaxExists ==
    ASSUME NEW ps \in SUBSET Nat, ps # {}, NEW top \in Nat, \A m \in ps : m <= top
    PROVE  \E n \in ps : \A m \in ps : m <= n
<1> DEFINE From(n) == {m \in ps : n <= m}
           Tops == {From(n) : n \in ps}
<1>1. IsFiniteSet(ps)
  BY FS_BoundedSetOfNaturals
<1>2. Tops \subseteq FiniteSubsetsOf(ps) /\ Tops # {}
  <2>1. Tops \subseteq SUBSET ps /\ Tops # {}
    OBVIOUS
  <2>2. FiniteSubsetsOf(ps) = SUBSET ps
    BY <1>1, FS_FiniteSubsetsOfFinite
  <2> QED BY <2>1, <2>2
<1>3. PICK least \in Tops : \A T \in Tops : <<T, least>> \notin StrictSubsetOrdering(ps)
  <2> HIDE DEF Tops
  <2> QED BY <1>2, FS_StrictSubsetOrderingWellFounded, WFMin
<1>4. PICK n \in ps : least = From(n)
  BY <1>3
<1>5. ASSUME NEW m \in ps, ~ (m <= n) PROVE FALSE
  <2>1. From(m) \subseteq From(n) /\ From(m) # From(n)
    <3>1. m \in Nat /\ n \in Nat /\ n < m
      BY <1>5
    <3>2. n \in From(n) /\ n \notin From(m)
      BY <3>1
    <3>3. \A x \in ps : m <= x => n <= x
      BY <3>1
    <3> QED BY <3>2, <3>3
  <2>2. <<From(m), From(n)>> \in StrictSubsetOrdering(ps)
    BY <2>1 DEF StrictSubsetOrdering
  <2> QED BY <1>3, <1>4, <2>2
<1> QED BY <1>5

\* A box's capacity is the parallelism of one of its transports, or zero when
\* no transport of the plan reaches it.
LEMMA CapacityMax ==
    ASSUME NEW r \in Runs, NEW b \in Boxes
    PROVE  /\ Capacity(r, b) \in Nat
           /\ \/ Capacity(r, b) = 0
              \/ \E t \in Clients : BoxOf[t] = b /\ Capacity(r, b) = Parallelism(r, t)
<1> DEFINE ps == {Parallelism(r, t) : t \in {u \in Clients : BoxOf[u] = b}} \cup {0}
<1>1. ASSUME NEW t \in Clients
      PROVE  Parallelism(r, t) \in Nat /\ Parallelism(r, t) <= Cardinality(Threads)
  <2>1. {w \in Crew(r) : ClientOf[w] = t} \in SUBSET Threads
    BY DEF Crew
  <2> QED
    BY <2>1, CrewAssumption, FS_Subset, FS_CardinalityType DEF Parallelism
<1>2. ps \in SUBSET Nat /\ ps # {}
  BY <1>1
<1>3. Cardinality(Threads) \in Nat /\ \A m \in ps : m <= Cardinality(Threads)
  BY <1>1, CrewAssumption, FS_CardinalityType
<1>4. \E n \in ps : \A m \in ps : m <= n
  <2> HIDE DEF ps
  <2> QED BY <1>2, <1>3, MaxExists
<1>5. Capacity(r, b) = CHOOSE n \in ps : \A m \in ps : m <= n
  BY DEF Capacity
<1>6. Capacity(r, b) \in ps
  <2> HIDE DEF ps
  <2> QED BY <1>4, <1>5
<1> QED BY <1>2, <1>6

\* What appending and taking from the front do to a queue or a history.
LEMMA AppendFacts ==
    ASSUME NEW S, NEW s \in Seq(S), NEW e \in S
    PROVE  /\ Append(s, e) \in Seq(S)
           /\ Append(s, e) # <<>>
           /\ Len(Append(s, e)) = Len(s) + 1
           /\ Len(s) \in Nat
           /\ \A i \in 1 .. Len(s) : Append(s, e)[i] = s[i]
           /\ Append(s, e)[Len(s) + 1] = e
  OBVIOUS

\* What is left of a queue when its first cell is taken.
LEMMA TailFacts ==
    ASSUME NEW S, NEW s \in Seq(S), s # <<>>
    PROVE  /\ Tail(s) \in Seq(S)
           /\ Head(s) = s[1]
           /\ s[1] \in S
           /\ Len(s) \in Nat /\ Len(s) >= 1
           /\ Len(Tail(s)) = Len(s) - 1
           /\ \A i \in 1 .. Len(s) - 1 : Tail(s)[i] = s[i + 1]
  BY HeadTailProperties

\* The client of the last event.
LEMMA PinType ==
    ASSUME NEW events \in Seq(Event)
    PROVE  /\ Pin(events) \in Clients \cup {NoClient}
           /\ events # <<>> => Pin(events) \in Clients
           /\ CellState(events) \in {"missing", "done", "failed"}
           /\ Len(events) \in Nat
           /\ Pin(events) = IF Len(events) = 0 THEN NoClient ELSE events[Len(events)].client
<1>1. Len(events) \in Nat /\ (events = <<>> <=> Len(events) = 0)
  BY EmptySeq, LenProperties
<1>2. CASE events = <<>>
  BY <1>1, <1>2 DEF Pin, CellState
<1>3. CASE events # <<>>
  <2>1. events[Len(events)] \in Event
    BY <1>3, EmptySeq, ElementOfSeq
  <2> QED BY <1>1, <1>3, <2>1 DEF Pin, CellState, Event
<1> QED BY <1>1, <1>2, <1>3

\* route_cell names a queue, or strands the cell.
LEMMA RouteKey ==
    ASSUME TypeOK, NEW r \in Runs, NEW c \in Cells, RouteCell(r, c) # NoRoute
    PROVE  RouteCell(r, c) \in Keys /\ RouteCell(r, c) \subseteq plan[r].fleet
  <1>1. plan[r] \in [fleet : SUBSET Clients, allowed : [Cells -> SUBSET Clients]]
    BY PlansAssumption DEF TypeOK, InvocationsOK, NoPlan
  <1> QED BY <1>1, CrewAssumption DEF RouteCell, NoRoute, Keys

\* An event is appended under the key of the cell in a thread's hand, and under
\* no other.
LEMMA RecordFacts ==
    ASSUME TypeOK, HandOK, NEW w \in Threads, pc[w] \in {"probe", "exec"},
           NEW status \in {"started", "success", "failed"}, Record(cell[w], status, w)
    PROVE  /\ cell[w] \in Cells /\ CellKey[cell[w]] \in CellKeys
           /\ log' \in [CellKeys -> Seq(Event)]
           /\ \A k \in CellKeys : k # CellKey[cell[w]] => log'[k] = log[k]
           /\ \A k \in CellKeys : Len(log[k]) \in Nat
           /\ Len(log'[CellKey[cell[w]]]) = Len(log[CellKey[cell[w]]]) + 1
           /\ \A i \in 1 .. Len(log[CellKey[cell[w]]]) :
                log'[CellKey[cell[w]]][i] = log[CellKey[cell[w]]][i]
           /\ log'[CellKey[cell[w]]][Len(log[CellKey[cell[w]]]) + 1].status = status
           /\ log'[CellKey[cell[w]]][Len(log[CellKey[cell[w]]]) + 1].client = ClientOf[w]
           /\ log'[CellKey[cell[w]]][Len(log[CellKey[cell[w]]]) + 1].cell = cell[w]
<1> DEFINE k == CellKey[cell[w]]
           e == [status |-> status, client |-> ClientOf[w], cell |-> cell[w]]
<1>1. cell[w] \in Cells /\ k \in CellKeys
  BY KeyAssumption DEF TypeOK, ThreadsOK, HandOK, Cells
<1>2. e \in Event /\ log[k] \in Seq(Event)
  BY <1>1, CrewAssumption DEF Event, TypeOK, FileOK
<1>3. /\ Append(log[k], e) \in Seq(Event)
      /\ Len(Append(log[k], e)) = Len(log[k]) + 1
      /\ \A i \in 1 .. Len(log[k]) : Append(log[k], e)[i] = log[k][i]
      /\ Append(log[k], e)[Len(log[k]) + 1] = e
  <2> HIDE DEF e, k
  <2> QED BY <1>2, AppendFacts
<1>4. log' = [log EXCEPT ![k] = Append(log[k], e)]
  BY DEF Record
<1>5. log'[k] = Append(log[k], e) /\ \A j \in CellKeys : j # k => log'[j] = log[j]
  BY <1>1, <1>4 DEF TypeOK, FileOK
<1>6. log' \in [CellKeys -> Seq(Event)]
  BY <1>1, <1>3, <1>4 DEF TypeOK, FileOK
<1>7. \A j \in CellKeys : Len(log[j]) \in Nat
  BY LenProperties DEF TypeOK, FileOK
<1>8. e.status = status /\ e.client = ClientOf[w] /\ e.cell = cell[w]
  OBVIOUS
<1> HIDE DEF e
<1> QED BY <1>1, <1>3, <1>5, <1>6, <1>7, <1>8

\* What an invocation knows of a cell, and what binds the cell, while the file
\* stays as it is.
LEMMA SameFile ==
    ASSUME NEW r \in Runs, log' = log, loaded'[r] = loaded[r]
    PROVE  /\ \A c : Known(r, c)' = Known(r, c)
           /\ \A c, t : Bound(r, c, t)' <=> Bound(r, c, t)
           /\ \A c, k : Waits(r, c, k)' <=> Waits(r, c, k)
<1>1. \A c : Known(r, c)' = Known(r, c) /\ Binding(r, c)' = Binding(r, c)
  BY DEF Known, Binding
<1>2. \A c, t : Bound(r, c, t)' <=> Bound(r, c, t)
  BY <1>1 DEF Bound
<1>3. \A c, k : Waits(r, c, k)' <=> Waits(r, c, k)
  BY <1>1, <1>2 DEF Waits
<1> QED BY <1>1, <1>2, <1>3

\* And when an event of another cell is appended, of the same key or not.
LEMMA RecordElsewhere ==
    ASSUME TypeOK, HandOK, Loaded, NEW w \in Threads, pc[w] \in {"probe", "exec"},
           NEW status \in {"started", "success", "failed"}, Record(cell[w], status, w),
           UNCHANGED loaded, NEW r \in Runs, NEW c \in Cells, c # cell[w]
    PROVE  /\ \A i \in Known(r, c)' : /\ i \in Known(r, c)
                                     /\ log'[CellKey[c]][i] = log[CellKey[c]][i]
           /\ \A t : Bound(r, c, t)' <=> Bound(r, c, t)
           /\ \A k : Waits(r, c, k)' <=> Waits(r, c, k)
<1> DEFINE K == CellKey[c]
           n == Len(log[K])
<1>1. K \in CellKeys /\ n \in Nat /\ loaded[r][K] \in Nat /\ loaded[r][K] <= n
  BY KeyAssumption, RecordFacts DEF TypeOK, InvocationsOK, Loaded
<1>2. \A i \in 1 .. n : log'[K][i] = log[K][i]
  BY <1>1, RecordFacts
<1>3. Len(log'[K]) = n \/ (Len(log'[K]) = n + 1 /\ log'[K][n + 1].cell # c)
  BY <1>1, RecordFacts
<1>4. Known(r, c)' = Known(r, c) /\ Binding(r, c)' = Binding(r, c)
  <2> DEFINE own(i) == log[K][i].cell = c
             own2(i) == log'[K][i].cell = c
             m == Len(log'[K])
             d == loaded[r][K]
  <2>1. Known(r, c) = {i \in 1 .. n : i <= d \/ own(i)}
    BY DEF Known
  <2>2. Known(r, c)' = {i \in 1 .. m : i <= d \/ own2(i)}
    BY DEF Known
  <2>3. Binding(r, c) = {i \in 1 .. n : i = d \/ (i > d /\ own(i))}
    BY DEF Binding
  <2>4. Binding(r, c)' = {i \in 1 .. m : i = d \/ (i > d /\ own2(i))}
    BY DEF Binding
  <2>5. \A i \in 1 .. n : own2(i) <=> own(i)
    BY <1>2
  <2>6. m = n \/ (m = n + 1 /\ ~ own2(n + 1))
    BY <1>3
  <2>7. n \in Nat /\ d \in Nat /\ d <= n
    BY <1>1
  <2> HIDE DEF own, own2, m, n, d, K
  <2>8. Known(r, c)' = Known(r, c)
    BY <2>1, <2>2, <2>5, <2>6, <2>7
  <2>9. Binding(r, c)' = Binding(r, c)
    BY <2>3, <2>4, <2>5, <2>6, <2>7
  <2> QED BY <2>8, <2>9
<1>5. \A i \in Known(r, c) \cup Binding(r, c) : log'[K][i] = log[K][i]
  BY <1>2 DEF Known, Binding
<1>6. \A t : Bound(r, c, t)' <=> Bound(r, c, t)
  BY <1>4, <1>5 DEF Bound
<1>7. \A k : Waits(r, c, k)' <=> Waits(r, c, k)
  BY <1>4, <1>6 DEF Waits
<1> QED BY <1>4, <1>5, <1>6, <1>7

\* And when the event is the cell's own.
LEMMA RecordHere ==
    ASSUME TypeOK, HandOK, Loaded, NEW w \in Threads, pc[w] \in {"probe", "exec"},
           NEW status \in {"started", "success", "failed"}, Record(cell[w], status, w),
           UNCHANGED loaded, NEW r \in Runs, NEW c, c = cell[w]
    PROVE  /\ \A i \in Known(r, c)' :
                \/ i \in Known(r, c) /\ log'[CellKey[c]][i] = log[CellKey[c]][i]
                \/ log'[CellKey[c]][i].status = status
           /\ Bound(r, c, ClientOf[w]) => Bound(r, c, ClientOf[w])'
<1> DEFINE K == CellKey[c]
           n == Len(log[K])
<1>1. K \in CellKeys /\ n \in Nat
  BY RecordFacts
<1>2. \A i \in 1 .. n : log'[K][i] = log[K][i]
  BY RecordFacts
<1>3. Len(log'[K]) = n + 1
  BY RecordFacts
<1>4. log'[K][n + 1].status = status /\ log'[K][n + 1].client = ClientOf[w]
  BY RecordFacts
<1>5. \A i \in 1 .. n + 1 : i \in 1 .. n \/ i = n + 1
  BY <1>1
<1>6. ASSUME NEW i \in Known(r, c)'
      PROVE  \/ i \in Known(r, c) /\ log'[K][i] = log[K][i]
             \/ log'[K][i].status = status
  BY <1>2, <1>3, <1>4, <1>5, <1>6 DEF Known
<1>7. ASSUME Bound(r, c, ClientOf[w]), NEW i \in Binding(r, c)'
      PROVE  log'[K][i].client = ClientOf[w]
  BY <1>2, <1>3, <1>4, <1>5, <1>7 DEF Binding, Bound
<1>8. Bound(r, c, ClientOf[w]) => Bound(r, c, ClientOf[w])'
  BY <1>7 DEF Bound
<1> QED BY <1>6, <1>8

\* The cells of a queue when one is added at the end and when the first is taken.
LEMMA AppendElements ==
    ASSUME NEW q \in Seq(Cells), NEW c \in Cells
    PROVE  /\ Elements(Append(q, c)) = Elements(q) \cup {c}
           /\ NoRepeat(q) /\ c \notin Elements(q) => NoRepeat(Append(q, c))
<1>1. /\ Len(Append(q, c)) = Len(q) + 1 /\ Len(q) \in Nat
      /\ \A i \in 1 .. Len(q) : Append(q, c)[i] = q[i]
      /\ Append(q, c)[Len(q) + 1] = c
  BY AppendFacts
<1> DEFINE p == Append(q, c)
<1>2. \A i \in 1 .. Len(p) : i \in 1 .. Len(q) \/ i = Len(q) + 1
  BY <1>1
<1>3. Len(q) + 1 \in 1 .. Len(p) /\ \A i \in 1 .. Len(q) : i \in 1 .. Len(p)
  BY <1>1
<1> HIDE DEF p
<1>4. Elements(p) = Elements(q) \cup {c}
  BY <1>1, <1>2, <1>3 DEF Elements, p
<1>5. ASSUME NoRepeat(q), c \notin Elements(q), NEW i \in 1 .. Len(p), NEW j \in 1 .. Len(p),
             p[i] = p[j]
      PROVE  i = j
  <2>1. \A n \in 1 .. Len(q) : q[n] # c /\ p[n] = q[n]
    BY <1>1, <1>5 DEF Elements, p
  <2> QED BY <1>1, <1>2, <1>5, <2>1 DEF NoRepeat, p
<1> QED BY <1>4, <1>5 DEF NoRepeat, p

\* The first cell leaves, and without repetition it is gone.
LEMMA TailElements ==
    ASSUME NEW q \in Seq(Cells), q # <<>>, NoRepeat(q)
    PROVE  /\ Head(q) \in Elements(q)
           /\ Elements(Tail(q)) = Elements(q) \ {Head(q)}
           /\ NoRepeat(Tail(q))
<1> DEFINE p == Tail(q)
<1>1. /\ Head(q) = q[1] /\ Len(q) \in Nat /\ Len(q) >= 1 /\ Len(p) = Len(q) - 1
      /\ \A i \in 1 .. Len(q) - 1 : p[i] = q[i + 1]
  BY TailFacts
<1> HIDE DEF p
<1>2. \A i \in 1 .. Len(p) : i + 1 \in 1 .. Len(q) /\ i + 1 # 1 /\ p[i] = q[i + 1]
  BY <1>1
<1>3. ASSUME NEW i \in 1 .. Len(q), i # 1
      PROVE  i - 1 \in 1 .. Len(p) /\ p[i - 1] = q[i]
  <2>1. i - 1 \in 1 .. Len(q) - 1 /\ (i - 1) + 1 = i
    BY <1>1, <1>3
  <2> QED BY <1>1, <2>1
<1>4. 1 \in 1 .. Len(q)
  BY <1>1
<1>5. \A i \in 1 .. Len(q) : i # 1 => q[i] # q[1]
  BY <1>4 DEF NoRepeat
<1>6. Elements(p) \subseteq Elements(q) \ {q[1]}
  BY <1>2, <1>5 DEF Elements
<1>7. Elements(q) \ {q[1]} \subseteq Elements(p)
  BY <1>3 DEF Elements
<1>8. NoRepeat(p)
  <2> SUFFICES ASSUME NEW i \in 1 .. Len(p), NEW j \in 1 .. Len(p), p[i] = p[j]
               PROVE  i = j
    BY DEF NoRepeat
  <2>1. i + 1 = j + 1
    BY <1>2 DEF NoRepeat
  <2> QED BY <1>1, <2>1
<1> QED BY <1>1, <1>4, <1>6, <1>7, <1>8 DEF p, Elements

\* An empty queue.
LEMMA NoElements == Elements(<<>>) = {} /\ NoRepeat(<<>>)
  BY DEF Elements, NoRepeat

\* A queue holds cells.
LEMMA ElementsAreCells ==
    ASSUME NEW q \in Seq(Cells)
    PROVE  Elements(q) \subseteq Cells /\ 0 \notin Elements(q)
<1>1. \A i \in 1 .. Len(q) : q[i] \in Cells
  BY ElementOfSeq
<1>2. 0 \notin Cells
  BY DEF Cells
<1> QED BY <1>1, <1>2 DEF Elements

\* One queue of one invocation gets a cell.
LEMMA QueueAppend ==
    ASSUME QueuesOK, NEW r \in Runs, NEW k \in Keys, NEW c \in Cells,
           queue' = [queue EXCEPT ![r][k] = Append(@, c)]
    PROVE  /\ queue' \in [Runs -> [Keys -> Seq(Cells)]]
           /\ \A s \in Runs, l \in Keys : s # r \/ l # k => queue'[s][l] = queue[s][l]
           /\ Elements(queue'[r][k]) = Elements(queue[r][k]) \cup {c}
           /\ NoRepeat(queue[r][k]) /\ c \notin Elements(queue[r][k])
              => NoRepeat(queue'[r][k])
<1>1. queue[r][k] \in Seq(Cells)
  BY DEF QueuesOK
<1>2. Append(queue[r][k], c) \in Seq(Cells)
  BY <1>1, AppendFacts
<1>3. /\ queue'[r][k] = Append(queue[r][k], c)
      /\ \A s \in Runs, l \in Keys : s # r \/ l # k => queue'[s][l] = queue[s][l]
  BY DEF QueuesOK
<1>4. queue' \in [Runs -> [Keys -> Seq(Cells)]]
  BY <1>2 DEF QueuesOK
<1> QED BY <1>1, <1>3, <1>4, AppendElements

\* Or loses its first.
LEMMA QueueTail ==
    ASSUME QueuesOK, NEW r \in Runs, NEW k \in Keys, queue[r][k] # <<>>,
           queue' = [queue EXCEPT ![r][k] = Tail(@)]
    PROVE  /\ queue' \in [Runs -> [Keys -> Seq(Cells)]]
           /\ \A s \in Runs, l \in Keys : s # r \/ l # k => queue'[s][l] = queue[s][l]
           /\ Head(queue[r][k]) \in Cells /\ Head(queue[r][k]) # 0
           /\ NoRepeat(queue[r][k]) =>
                /\ Head(queue[r][k]) \in Elements(queue[r][k])
                /\ Elements(queue'[r][k]) = Elements(queue[r][k]) \ {Head(queue[r][k])}
                /\ NoRepeat(queue'[r][k])
<1>1. queue[r][k] \in Seq(Cells)
  BY DEF QueuesOK
<1>2. /\ Tail(queue[r][k]) \in Seq(Cells)
      /\ Head(queue[r][k]) \in Cells
  BY <1>1, TailFacts
<1>3. /\ queue'[r][k] = Tail(queue[r][k])
      /\ \A s \in Runs, l \in Keys : s # r \/ l # k => queue'[s][l] = queue[s][l]
  BY DEF QueuesOK
<1>4. queue' \in [Runs -> [Keys -> Seq(Cells)]]
  BY <1>2 DEF QueuesOK
<1>5. Head(queue[r][k]) # 0
  BY <1>2 DEF Cells
<1> QED BY <1>1, <1>2, <1>3, <1>4, <1>5, TailElements

\* What is left of an invocation that is over.
LEMMA GoneFacts ==
    ASSUME TypeOK, NEW r \in Runs, Gone(r)
    PROVE  /\ phase'[r] = "off" /\ owed'[r] = {} /\ route'[r] = {} /\ log' = log
           /\ \A k \in Keys : queue'[r][k] = <<>>
           /\ \A k \in CellKeys : loaded'[r][k] = 0
           /\ \A t \in Clients : pass'[r][t] = "done"
           /\ \A s \in Runs : s # r =>
                /\ phase'[s] = phase[s] /\ plan'[s] = plan[s] /\ opts'[s] = opts[s]
                /\ index'[s] = index[s] /\ loaded'[s] = loaded[s]
                /\ route'[s] = route[s] /\ queue'[s] = queue[s]
                /\ pass'[s] = pass[s] /\ free'[s] = free[s] /\ owed'[s] = owed[s]
           /\ \A w \in Threads : RunOf[w] = r =>
                pc'[w] = "off" /\ cell'[w] = 0 /\ from'[w] = {} /\ seen'[w] = {}
           /\ \A w \in Threads : RunOf[w] # r =>
                /\ pc'[w] = pc[w] /\ cell'[w] = cell[w] /\ from'[w] = from[w]
                /\ seen'[w] = seen[w]
<1>1. /\ phase'[r] = "off" /\ owed'[r] = {} /\ route'[r] = {} /\ log' = log
      /\ queue'[r] = NoQueue /\ pass'[r] = NoPass /\ loaded'[r] = NothingLoaded
  BY DEF Gone, TypeOK, InvocationsOK, QueuesOK, SlotsOK
<1>2. \A s \in Runs : s # r =>
        /\ phase'[s] = phase[s] /\ plan'[s] = plan[s] /\ opts'[s] = opts[s]
        /\ index'[s] = index[s] /\ loaded'[s] = loaded[s]
        /\ route'[s] = route[s] /\ queue'[s] = queue[s]
        /\ pass'[s] = pass[s] /\ free'[s] = free[s] /\ owed'[s] = owed[s]
  BY DEF Gone, TypeOK, InvocationsOK, QueuesOK, SlotsOK
<1>3. \A w \in Threads :
        IF RunOf[w] = r
        THEN pc'[w] = "off" /\ cell'[w] = 0 /\ from'[w] = {} /\ seen'[w] = {}
        ELSE /\ pc'[w] = pc[w] /\ cell'[w] = cell[w] /\ from'[w] = from[w]
             /\ seen'[w] = seen[w]
  BY DEF Gone, Cleared
<1> QED BY <1>1, <1>2, <1>3 DEF NoQueue, NoPass, NothingLoaded

\* The cell a thread records something about is its own alone: no queue and no
\* other thread of any invocation has it.
LEMMA OwnCell ==
    ASSUME TypeOK, HandOK, Owed, Once, Sharded, NEW w \in Threads,
           pc[w] \in {"probe", "exec"}
    PROVE  /\ \A r \in Runs, k \in Keys : \A c \in Elements(queue[r][k]) :
                c \in Cells /\ c # cell[w]
           /\ \A x \in Threads : x # w /\ cell[x] # 0 =>
                cell[x] \in Cells /\ cell[x] # cell[w]
<1>1. RunOf[w] \in Runs /\ cell[w] # 0 /\ cell[w] \in owed[RunOf[w]] /\ cell[w] \in Cells
  BY CrewAssumption DEF HandOK, Owed, TypeOK, ThreadsOK
<1>2. ASSUME NEW r \in Runs, r # RunOf[w] PROVE cell[w] \notin owed[r]
  BY <1>1, <1>2, ShardAssumption DEF Sharded, InShard
<1>3. ASSUME NEW r \in Runs, NEW k \in Keys, NEW c \in Elements(queue[r][k])
      PROVE  c \in Cells /\ c # cell[w]
  <2>1. c \in owed[r] /\ c \in Cells
    BY <1>3 DEF Owed, TypeOK, InvocationsOK
  <2>2. CASE r = RunOf[w]
    BY <1>3, <2>1, <2>2 DEF Once
  <2> QED BY <1>2, <2>1, <2>2
<1>4. ASSUME NEW x \in Threads, x # w, cell[x] # 0
      PROVE  cell[x] \in Cells /\ cell[x] # cell[w]
  <2>1. RunOf[x] \in Runs /\ cell[x] \in owed[RunOf[x]] /\ cell[x] \in Cells
    BY <1>4, CrewAssumption DEF Owed, TypeOK, ThreadsOK
  <2>2. CASE RunOf[x] = RunOf[w]
    BY <1>4, <2>1, <2>2 DEF Once
  <2> QED BY <1>2, <2>1, <2>2
<1> QED BY <1>3, <1>4

\* The commands in flight on a box are finitely many.
LEMMA BusyFinite ==
    ASSUME NEW r \in Runs, NEW b \in Boxes
    PROVE  /\ IsFiniteSet(Syncing(r, b)) /\ IsFiniteSet(Working(r, b))
           /\ Cardinality(Syncing(r, b)) \in Nat /\ Cardinality(Working(r, b)) \in Nat
<1>1. Syncing(r, b) \in SUBSET Clients /\ Working(r, b) \in SUBSET Threads
  BY DEF Syncing, Working
<1>2. IsFiniteSet(Syncing(r, b)) /\ IsFiniteSet(Working(r, b))
  BY <1>1, CrewAssumption, FS_Subset
<1> QED BY <1>2, FS_CardinalityType

\* The budget of an invocation that keeps its plan, its slots and its commands.
LEMMA SameBudget ==
    ASSUME NEW r \in Runs, NEW b \in Boxes, plan'[r] = plan[r],
           \A t \in Clients : pass'[r][t] = "held" <=> pass[r][t] = "held",
           \A w \in Threads : RunOf[w] = r =>
               (pc'[w] \in {"exec", "sync"} <=> pc[w] \in {"exec", "sync"})
    PROVE  Busy(r, b)' = Busy(r, b) /\ Capacity(r, b)' = Capacity(r, b)
<1>1. Syncing(r, b)' = Syncing(r, b)
  BY DEF Syncing
<1>2. Working(r, b)' = Working(r, b)
  BY DEF Working
<1>3. Crew(r)' = Crew(r)
  BY DEF Crew
<1>4. \A t \in Clients : Parallelism(r, t)' = Parallelism(r, t)
  BY <1>3 DEF Parallelism
<1>5. Capacity(r, b)' = Capacity(r, b)
  <2>1. {Parallelism(r, t)' : t \in {u \in Clients : BoxOf[u] = b}}
          = {Parallelism(r, t) : t \in {u \in Clients : BoxOf[u] = b}}
    BY <1>4
  <2> QED BY <2>1 DEF Capacity
<1> QED BY <1>1, <1>2, <1>5 DEF Busy

\* Steps of threads that take and give back no slot.
LEMMA SlotsKept ==
    ASSUME Slots, UNCHANGED <<phase, plan, pass, free>>,
           \A w \in Threads : pc'[w] \in {"exec", "sync"} <=> pc[w] \in {"exec", "sync"}
    PROVE  Slots'
<1>1. ASSUME NEW r \in Runs, NEW b \in Boxes
      PROVE  Busy(r, b)' = Busy(r, b) /\ Capacity(r, b)' = Capacity(r, b)
  BY SameBudget
<1> QED BY <1>1 DEF Slots

\* A pass or the cell run begins: all slots are free and nothing is in flight.
LEMMA SlotsFresh ==
    ASSUME TypeOK, Slots, NEW r \in Runs, UNCHANGED plan,
           free' = [free EXCEPT ![r] = Capacities(r)],
           \A s \in Runs : s # r => phase'[s] = phase[s] /\ pass'[s] = pass[s],
           \A t \in Clients : pass'[r][t] # "held",
           \A w \in Threads : IF RunOf[w] = r THEN pc'[w] \notin {"exec", "sync"}
                                              ELSE pc'[w] = pc[w]
    PROVE  Slots'
<1> SUFFICES ASSUME NEW s \in Runs, NEW b \in Boxes,
                    phase'[s] \in {"initial", "cells", "final"}
             PROVE  free'[s][b] + Busy(s, b)' = Capacity(s, b)'
  BY DEF Slots
<1>1. CASE s # r
  <2>1. Busy(s, b)' = Busy(s, b) /\ Capacity(s, b)' = Capacity(s, b)
    BY <1>1, SameBudget
  <2>2. free'[s] = free[s] /\ phase'[s] = phase[s]
    BY <1>1 DEF TypeOK, SlotsOK
  <2> QED BY <2>1, <2>2 DEF Slots
<1>2. CASE s = r
  <2>1. Syncing(r, b)' = {} /\ Working(r, b)' = {}
    BY DEF Syncing, Working
  <2>2. Busy(r, b)' = 0
    BY <2>1, FS_EmptySet DEF Busy
  <2>3. Capacity(r, b)' = Capacity(r, b)
    BY DEF Capacity, Parallelism, Crew
  <2>4. free'[r][b] = Capacity(r, b)
    BY DEF TypeOK, SlotsOK, Capacities
  <2> QED BY <1>2, <2>2, <2>3, <2>4, CapacityMax
<1> QED BY <1>1, <1>2

\* One slot of a box is taken by one more command, or given back by one less.
LEMMA SlotMoves ==
    ASSUME TypeOK, Slots, UNCHANGED <<phase, plan>>, NEW r \in Runs, NEW b \in Boxes,
           NEW d \in {1, -1}, free' = [free EXCEPT ![r][b] = @ - d],
           Busy(r, b)' = Busy(r, b) + d,
           \A s \in Runs, a \in Boxes : s # r \/ a # b => Busy(s, a)' = Busy(s, a)
    PROVE  Slots'
<1> SUFFICES ASSUME NEW s \in Runs, NEW a \in Boxes,
                    phase'[s] \in {"initial", "cells", "final"}
             PROVE  free'[s][a] + Busy(s, a)' = Capacity(s, a)'
  BY DEF Slots
<1>1. Capacity(s, a)' = Capacity(s, a)
  BY DEF Capacity, Parallelism, Crew
<1>2. free[s][a] + Busy(s, a) = Capacity(s, a)
  BY DEF Slots
<1>3. free[s][a] \in Nat /\ Busy(s, a) \in Nat
  BY BusyFinite DEF TypeOK, SlotsOK, Busy
<1>4. CASE s = r /\ a = b
  <2>1. free'[s][a] = free[s][a] - d
    BY <1>4 DEF TypeOK, SlotsOK
  <2> QED BY <1>1, <1>2, <1>3, <1>4, <2>1
<1>5. CASE s # r \/ a # b
  <2>1. free'[s][a] = free[s][a]
    BY <1>5 DEF TypeOK, SlotsOK
  <2> QED BY <1>1, <1>2, <1>5, <2>1
<1> QED BY <1>4, <1>5

\* A worker thread begins or ends a command.
LEMMA ThreadMoves ==
    ASSUME TypeOK, Slots, UNCHANGED <<phase, plan, pass>>, NEW w \in Threads,
           \A x \in Threads : x # w => pc'[x] = pc[x],
           \/ /\ pc[w] \notin {"exec", "sync"} /\ pc'[w] \in {"exec", "sync"}
              /\ free' = [free EXCEPT ![RunOf[w]][BoxOf[ClientOf[w]]] = @ - 1]
           \/ /\ pc[w] \in {"exec", "sync"} /\ pc'[w] \notin {"exec", "sync"}
              /\ free' = [free EXCEPT ![RunOf[w]][BoxOf[ClientOf[w]]] = @ + 1]
    PROVE  Slots'
<1>1. PICK r \in Runs, b \in Boxes : r = RunOf[w] /\ b = BoxOf[ClientOf[w]]
  BY CrewAssumption
<1>2. \A s \in Runs, a \in Boxes : Syncing(s, a)' = Syncing(s, a)
  BY DEF Syncing
<1>3. ASSUME NEW s \in Runs, NEW a \in Boxes, s # r \/ a # b
      PROVE  Busy(s, a)' = Busy(s, a)
  <2>1. Working(s, a)' = Working(s, a)
    BY <1>1, <1>3 DEF Working
  <2> QED BY <1>2, <2>1 DEF Busy
<1>4. CASE pc[w] \notin {"exec", "sync"} /\ pc'[w] \in {"exec", "sync"}
  <2>1. Working(r, b)' = Working(r, b) \cup {w} /\ w \notin Working(r, b)
    BY <1>1, <1>4 DEF Working
  <2>2. Cardinality(Working(r, b)') = Cardinality(Working(r, b)) + 1
    BY <2>1, BusyFinite, FS_AddElement
  <2>3. Busy(r, b)' = Busy(r, b) + 1
    BY <1>2, <2>2, BusyFinite DEF Busy
  <2>4. free' = [free EXCEPT ![r][b] = @ - 1]
    BY <1>1, <1>4
  <2> QED BY <1>3, <2>3, <2>4, SlotMoves
<1>5. CASE pc[w] \in {"exec", "sync"} /\ pc'[w] \notin {"exec", "sync"}
  <2>1. Working(r, b)' = Working(r, b) \ {w} /\ w \in Working(r, b)
    BY <1>1, <1>5 DEF Working
  <2>2. Cardinality(Working(r, b)') = Cardinality(Working(r, b)) - 1
    BY <2>1, BusyFinite, FS_RemoveElement
  <2>3. Busy(r, b)' = Busy(r, b) + (-1)
    BY <1>2, <2>2, BusyFinite DEF Busy
  <2>4. free' = [free EXCEPT ![r][b] = @ - (-1)]
    <3>1. free[r][b] + 1 = free[r][b] - (-1)
      BY DEF TypeOK, SlotsOK
    <3> QED BY <1>1, <1>5, <3>1
  <2> QED BY <1>3, <2>3, <2>4, SlotMoves
<1> QED BY <1>4, <1>5

\* A queue stays attended to while nothing happens to its invocation, and when
\* threads do anything but drain or pass queues over.
LEMMA AttendsMore ==
    ASSUME NEW r \in Runs, NEW k \in Keys, Attends(r, k), plan'[r] = plan[r],
           phase'[r] = phase[r],
           \A w \in Threads : RunOf[w] = r =>
               /\ pc'[w] = pc[w] \/ pc'[w] # "drained"
               /\ seen'[w] = seen[w] \/ seen'[w] = {}
    PROVE  Attends(r, k)'
<1>1. Crew(r)' = Crew(r)
  BY DEF Crew
<1>2. \A w \in Crew(r) : Eligible(w)' = Eligible(w)
  BY DEF Crew, Eligible
<1>3. \A w \in Crew(r) : w \in Threads /\ RunOf[w] = r
  BY DEF Crew
<1> QED BY <1>1, <1>2, <1>3 DEF Attends

\* Who attends a queue depends on these variables alone.
LEMMA AttendsSame ==
    ASSUME NEW r \in Runs, NEW k \in Keys, Attends(r, k), plan'[r] = plan[r],
           phase'[r] = phase[r],
           \A w \in Threads : RunOf[w] = r => pc'[w] = pc[w] /\ seen'[w] = seen[w]
    PROVE  Attends(r, k)'
  BY AttendsMore

\* A step of the system, for the case splits: the routing loop's end, the
\* invocation's end and a kill are alike in what they leave.
LEMMA StepCases ==
    ASSUME [Next]_vars
    PROVE  \/ \E r \in Runs : \/ Launch(r) \/ Gone(r) \/ RouteNext(r) \/ FirstPass(r)
                              \/ StartCells(r) \/ EndCells(r)
           \/ \E r \in Runs, t \in Clients : PassAcquire(r, t) \/ PassRelease(r, t)
           \/ \E w \in Threads, k \in Keys : Pop(w, k) \/ PassOverQueue(w, k)
           \/ \E w \in Threads : \/ ProbeFails(w) \/ ProbeAnswers(w) \/ WriteFails(w)
                                 \/ Acquire(w) \/ ExecErrs(w) \/ ExecExits(w)
                                 \/ ResultLost(w) \/ WaitProbe(w) \/ GiveUp(w)
                                 \/ RejoinSync(w)
           \/ UNCHANGED vars
<1>1. ASSUME NEW r \in Runs, Routed(r) PROVE Gone(r) \/ FirstPass(r)
  BY <1>1 DEF Routed, NothingToRun
<1>2. ASSUME NEW r \in Runs, Crash(r) \/ EndRun(r) PROVE Gone(r)
  BY <1>2 DEF Crash, EndRun
<1> QED BY <1>1, <1>2 DEF Next, RunStep, PassStep, WorkerStep


\* Events are appended.
LEMMA FileStep ==
    ASSUME TypeOK, HandOK, [Next]_vars
    PROVE  FileOK'
<1>1. ASSUME UNCHANGED <<log>> PROVE FileOK'
  BY <1>1 DEF TypeOK, FileOK, ThreadsOK, HandOK, Event
<1>2. ASSUME NEW w \in Threads, ProbeAnswers(w) PROVE FileOK'
  <2>1. pc[w] \in {"probe", "exec"} /\ Record(cell[w], "started", w)
    BY <1>2 DEF ProbeAnswers
  <2> QED BY <2>1, RecordFacts DEF FileOK
<1>3. ASSUME NEW w \in Threads, ExecExits(w) PROVE FileOK'
  <2>1. PICK status \in {"success", "failed"} : Record(cell[w], status, w)
    BY <1>3 DEF ExecExits
  <2>2. pc[w] \in {"probe", "exec"}
    BY <1>3 DEF ExecExits
  <2> QED BY <2>1, <2>2, RecordFacts DEF FileOK
<1>4. ASSUME NEW r \in Runs, Launch(r) \/ Gone(r) \/ RouteNext(r) \/ FirstPass(r) \/
   StartCells(r) \/ EndCells(r) PROVE UNCHANGED <<log>>
  BY <1>4 DEF Launch, Gone, Cleared, RouteNext, FirstPass, StartPass, StartCells,
     EndCells
<1>5. ASSUME NEW r \in Runs, NEW t \in Clients, PassAcquire(r, t) \/ PassRelease(r,
   t) PROVE UNCHANGED <<log>>
  BY <1>5 DEF PassAcquire, PassRelease
<1>6. ASSUME NEW w \in Threads, NEW k \in Keys, Pop(w, k) \/ PassOverQueue(w, k)
   PROVE UNCHANGED <<log>>
  BY <1>6 DEF Pop, Looks, PassOverQueue
<1>7. ASSUME NEW w \in Threads, ProbeFails(w) \/ WriteFails(w) \/ Acquire(w) \/
   ExecErrs(w) \/ ResultLost(w) \/ WaitProbe(w) \/ GiveUp(w) \/ RejoinSync(w) PROVE
   UNCHANGED <<log>>
  BY <1>7 DEF ProbeFails, Fault, GiveBack, Drop, WriteFails, Acquire, ExecErrs,
     Release, ResultLost, WaitProbe, GiveUp, RejoinSync
<1>8. CASE UNCHANGED vars
  BY <1>1, <1>8 DEF vars
<1> QED
  BY <1>1, <1>2, <1>3, <1>4, <1>5, <1>6, <1>7, <1>8, StepCases

\* What an invocation loads, and its history.
LEMMA InvocationsStep ==
    ASSUME TypeOK, [Next]_vars
    PROVE  InvocationsOK'
<1>1. ASSUME UNCHANGED <<phase, plan, opts, index, loaded, route, owed, synced>> PROVE
   InvocationsOK'
  BY <1>1 DEF TypeOK, InvocationsOK, ThreadsOK
<1>2. ASSUME NEW r \in Runs, Launch(r) PROVE InvocationsOK'
  <2>1. PICK p \in Plans, o \in Options :
          /\ phase' = [phase EXCEPT ![r] = "routing"]
          /\ plan' = [plan EXCEPT ![r] = p]
          /\ opts' = [opts EXCEPT ![r] = o]
          /\ index' = [index EXCEPT ![r] = StateIndex]
          /\ loaded' = [loaded EXCEPT ![r] = [k \in CellKeys |-> Len(log[k])]]
          /\ route' = [route EXCEPT ![r] = Limited(Selected(r, StateIndex, o), o.limit)]
    BY <1>2 DEF Launch
  <2>2. [k \in CellKeys |-> Len(log[k])] \in [CellKeys -> Nat]
    BY LenProperties DEF TypeOK, FileOK
  <2>3. StateIndex \in [CellKeys -> [state : {"missing", "done", "failed"},
                                     pin : Clients \cup {NoClient}]]
    BY PinType DEF TypeOK, FileOK, StateIndex
  <2>4. Limited(Selected(r, StateIndex, o), o.limit) \subseteq Cells
    BY DEF Limited, Selected
  <2>5. UNCHANGED <<owed, synced>>
    BY <1>2 DEF Launch
  <2>6. InvocationsOK
    BY DEF TypeOK
  <2> QED BY <2>1, <2>2, <2>3, <2>4, <2>5, <2>6 DEF InvocationsOK
<1>3. ASSUME NEW r \in Runs, Gone(r) PROVE InvocationsOK'
  <2>1. NoIndex \in [CellKeys -> [state : {"missing", "done", "failed"},
                                  pin : Clients \cup {NoClient}]]
    BY DEF NoIndex
  <2>2. NothingLoaded \in [CellKeys -> Nat]
    BY DEF NothingLoaded
  <2> QED BY <1>3, <2>1, <2>2 DEF Gone, TypeOK, InvocationsOK
<1>4. ASSUME NEW r \in Runs, RouteNext(r) PROVE InvocationsOK'
  <2>1. PICK c \in route[r] :
          /\ route' = [route EXCEPT ![r] = @ \ {c}]
          /\ UNCHANGED owed \/ owed' = [owed EXCEPT ![r] = @ \cup {c}]
    BY <1>4 DEF RouteNext
  <2>2. UNCHANGED <<phase, plan, opts, index, loaded, synced>>
    BY <1>4 DEF RouteNext
  <2>3. c \in Cells
    BY DEF TypeOK, InvocationsOK
  <2>4. route'[r] \subseteq Cells /\ owed'[r] \subseteq Cells
    BY <2>1, <2>3 DEF TypeOK, InvocationsOK
  <2> QED BY <2>1, <2>2, <2>3, <2>4 DEF TypeOK, InvocationsOK
<1>5. ASSUME NEW r \in Runs, FirstPass(r) PROVE InvocationsOK'
  <2>1. NoIndex \in [CellKeys -> [state : {"missing", "done", "failed"},
                                  pin : Clients \cup {NoClient}]]
    BY DEF NoIndex
  <2> QED BY <1>5, <2>1 DEF FirstPass, StartPass, TypeOK, InvocationsOK
<1>6. ASSUME NEW r \in Runs, StartCells(r) PROVE InvocationsOK'
  BY <1>6, CrewAssumption DEF StartCells, TypeOK, InvocationsOK, ThreadsOK
<1>7. ASSUME NEW r \in Runs, EndCells(r) PROVE InvocationsOK'
  BY <1>7, CrewAssumption DEF EndCells, StartPass, TypeOK, InvocationsOK, ThreadsOK
<1>8. ASSUME NEW r \in Runs, NEW t \in Clients, PassRelease(r, t) PROVE
   InvocationsOK'
  <2>1. UNCHANGED <<phase, plan, opts, index, loaded, route, owed>>
    BY <1>8 DEF PassRelease
  <2>2. synced' = synced \/ synced' = [synced EXCEPT ![r] = @ \cup {t}]
    BY <1>8 DEF PassRelease
  <2>3. synced' \in [Runs -> SUBSET Clients]
    <3>1. synced \in [Runs -> SUBSET Clients] /\ synced[r] \cup {t} \in SUBSET Clients
      BY DEF TypeOK, InvocationsOK
    <3>2. CASE synced' = [synced EXCEPT ![r] = synced[r] \cup {t}]
      BY <3>1, <3>2
    <3> QED BY <2>2, <3>1, <3>2
  <2> QED BY <2>1, <2>3 DEF TypeOK, InvocationsOK
<1>9. ASSUME NEW w \in Threads, WriteFails(w) PROVE InvocationsOK'
  BY <1>9, CrewAssumption DEF WriteFails, Fault, Drop, runVars, TypeOK,
     InvocationsOK, ThreadsOK
<1>10. ASSUME NEW w \in Threads, ExecExits(w) PROVE InvocationsOK'
  BY <1>10, CrewAssumption DEF ExecExits, Release, Record, Drop, TypeOK,
     InvocationsOK, ThreadsOK
<1>11. ASSUME NEW w \in Threads, ResultLost(w) PROVE InvocationsOK'
  BY <1>11, CrewAssumption DEF ResultLost, Fault, Release, Drop, TypeOK,
     InvocationsOK, ThreadsOK
<1>12. ASSUME NEW w \in Threads, RejoinSync(w) PROVE InvocationsOK'
  BY <1>12, CrewAssumption DEF RejoinSync, Release, TypeOK, InvocationsOK, ThreadsOK
<1>13. ASSUME NEW r \in Runs, NEW t \in Clients, PassAcquire(r, t) PROVE UNCHANGED
   <<phase, plan, opts, index, loaded, route, owed, synced>>
  BY <1>13 DEF PassAcquire
<1>14. ASSUME NEW w \in Threads, NEW k \in Keys, Pop(w, k) \/ PassOverQueue(w, k)
   PROVE UNCHANGED <<phase, plan, opts, index, loaded, route, owed, synced>>
  BY <1>14 DEF Pop, Looks, PassOverQueue, runVars
<1>15. ASSUME NEW w \in Threads, ProbeFails(w) \/ ProbeAnswers(w) \/ Acquire(w) \/
   ExecErrs(w) \/ WaitProbe(w) \/ GiveUp(w) PROVE UNCHANGED <<phase, plan, opts,
   index, loaded, route, owed, synced>>
  BY <1>15 DEF ProbeFails, Fault, GiveBack, Drop, ProbeAnswers, Record, runVars,
     Acquire, ExecErrs, Release, WaitProbe, GiveUp
<1>16. CASE UNCHANGED vars
  BY <1>1, <1>16 DEF vars, runVars
<1> QED
  BY <1>1, <1>2, <1>3, <1>4, <1>5, <1>6, <1>7, <1>8, <1>9, <1>10, <1>11, <1>12,
     <1>13, <1>14, <1>15, <1>16, StepCases

\* The queues hold cells.
LEMMA QueuesStep ==
    ASSUME TypeOK, HandOK, [Next]_vars
    PROVE  QueuesOK'
<1>1. ASSUME UNCHANGED <<queue>> PROVE QueuesOK'
  BY <1>1 DEF TypeOK, InvocationsOK, QueuesOK, ThreadsOK, HandOK, NoQueue
<1>2. ASSUME NEW r \in Runs, Gone(r) PROVE QueuesOK'
  BY <1>2, CrewAssumption DEF Gone, Cleared, TypeOK, InvocationsOK, QueuesOK,
     ThreadsOK, HandOK, NoQueue
<1>3. ASSUME NEW r \in Runs, RouteNext(r) PROVE QueuesOK'
  <2>1. PICK c \in route[r] :
          \/ UNCHANGED queue
          \/ /\ RouteCell(r, c) # NoRoute
             /\ queue' = [queue EXCEPT ![r][RouteCell(r, c)] = Append(@, c)]
    BY <1>3 DEF RouteNext
  <2>2. c \in Cells
    BY DEF TypeOK, InvocationsOK
  <2>3. CASE UNCHANGED queue
    BY <2>3 DEF TypeOK, QueuesOK
  <2>4. ASSUME NEW k, k = RouteCell(r, c), k # NoRoute,
               queue' = [queue EXCEPT ![r][k] = Append(@, c)]
        PROVE  QueuesOK'
    BY <2>2, <2>4, RouteKey, QueueAppend DEF TypeOK, QueuesOK
  <2> QED BY <2>1, <2>3, <2>4
<1>4. ASSUME NEW w \in Threads, NEW k \in Keys, Pop(w, k) PROVE QueuesOK'
  <2>1. queue[RunOf[w]][k] # <<>> /\ queue' = [queue EXCEPT ![RunOf[w]][k] = Tail(@)]
    BY <1>4 DEF Pop
  <2>2. RunOf[w] \in Runs
    BY CrewAssumption
  <2> QED BY <2>1, <2>2, QueueTail DEF TypeOK, QueuesOK
<1>5. ASSUME NEW w \in Threads, ProbeFails(w) PROVE QueuesOK'
  <2>1. queue' = [queue EXCEPT ![RunOf[w]][from[w]] = Append(@, cell[w])]
    BY <1>5 DEF ProbeFails, GiveBack
  <2>2. RunOf[w] \in Runs /\ from[w] \in Keys /\ cell[w] \in Cells
    BY <1>5, CrewAssumption DEF ProbeFails, TypeOK, ThreadsOK, HandOK
  <2> QED BY <2>1, <2>2, QueueAppend DEF TypeOK, QueuesOK
<1>6. ASSUME NEW w \in Threads, ExecErrs(w) PROVE QueuesOK'
  <2>1. queue' = [queue EXCEPT ![RunOf[w]][{ClientOf[w]}] = Append(@, cell[w])]
    BY <1>6 DEF ExecErrs, GiveBack
  <2>2. RunOf[w] \in Runs /\ {ClientOf[w]} \in Keys /\ cell[w] \in Cells
    BY <1>6, CrewAssumption DEF ExecErrs, TypeOK, ThreadsOK, HandOK, Keys
  <2> QED BY <2>1, <2>2, QueueAppend DEF TypeOK, QueuesOK
<1>7. ASSUME NEW r \in Runs, Launch(r) \/ FirstPass(r) \/ StartCells(r) \/
   EndCells(r) PROVE UNCHANGED <<queue>>
  BY <1>7 DEF Launch, FirstPass, StartPass, StartCells, EndCells
<1>8. ASSUME NEW r \in Runs, NEW t \in Clients, PassAcquire(r, t) \/ PassRelease(r,
   t) PROVE UNCHANGED <<queue>>
  BY <1>8 DEF PassAcquire, PassRelease
<1>9. ASSUME NEW w \in Threads, NEW k \in Keys, PassOverQueue(w, k) PROVE UNCHANGED
   <<queue>>
  BY <1>9 DEF PassOverQueue, Looks, runVars
<1>10. ASSUME NEW w \in Threads, ProbeAnswers(w) \/ WriteFails(w) \/ Acquire(w) \/
   ExecExits(w) \/ ResultLost(w) \/ WaitProbe(w) \/ GiveUp(w) \/ RejoinSync(w) PROVE
   UNCHANGED <<queue>>
  BY <1>10 DEF ProbeAnswers, Record, runVars, WriteFails, Fault, Drop, Acquire,
     ExecExits, Release, ResultLost, WaitProbe, GiveUp, RejoinSync
<1>11. CASE UNCHANGED vars
  BY <1>1, <1>11 DEF vars, runVars
<1> QED
  BY <1>1, <1>2, <1>3, <1>4, <1>5, <1>6, <1>7, <1>8, <1>9, <1>10, <1>11, StepCases

\* The sync passes and the free slots.
LEMMA SlotsOKStep ==
    ASSUME TypeOK, [Next]_vars
    PROVE  SlotsOK'
<1>1. ASSUME UNCHANGED <<pass, free>> PROVE SlotsOK'
  BY <1>1 DEF TypeOK, SlotsOK, NoPass, NoSlots
<1>2. ASSUME NEW r \in Runs, Gone(r) PROVE SlotsOK'
  BY <1>2, CrewAssumption, CapacityMax DEF Gone, Cleared, TypeOK, SlotsOK, NoPass,
     NoSlots
<1>3. ASSUME NEW r \in Runs, FirstPass(r) PROVE SlotsOK'
  <2>1. Capacities(r) \in [Boxes -> Nat]
    BY CapacityMax DEF Capacities
  <2> DEFINE begun == [t \in Clients |->
                IF t \in plan[r].fleet \cap SyncTargets THEN "todo" ELSE "done"]
  <2>2. begun \in [Clients -> {"todo", "held", "done"}]
    OBVIOUS
  <2>3. pass' = [pass EXCEPT ![r] = begun] /\ free' = [free EXCEPT ![r] = Capacities(r)]
    BY <1>3 DEF FirstPass, StartPass
  <2> HIDE DEF begun
  <2> QED BY <2>1, <2>2, <2>3 DEF TypeOK, SlotsOK
<1>4. ASSUME NEW r \in Runs, StartCells(r) PROVE SlotsOK'
  <2>1. Capacities(r) \in [Boxes -> Nat]
    BY CapacityMax DEF Capacities
  <2> QED BY <1>4, <2>1 DEF StartCells, TypeOK, SlotsOK
<1>5. ASSUME NEW r \in Runs, EndCells(r) PROVE SlotsOK'
  <2>1. Capacities(r) \in [Boxes -> Nat]
    BY CapacityMax DEF Capacities
  <2> DEFINE begun == [t \in Clients |->
                IF t \in plan[r].fleet \cap SyncTargets THEN "todo" ELSE "done"]
  <2>2. begun \in [Clients -> {"todo", "held", "done"}]
    OBVIOUS
  <2>3. pass' = [pass EXCEPT ![r] = begun] /\ free' = [free EXCEPT ![r] = Capacities(r)]
    BY <1>5 DEF EndCells, StartPass
  <2> HIDE DEF begun
  <2> QED BY <2>1, <2>2, <2>3 DEF TypeOK, SlotsOK
<1>6. ASSUME NEW r \in Runs, NEW t \in Clients, PassAcquire(r, t) PROVE SlotsOK'
  BY <1>6, CrewAssumption, CapacityMax DEF PassAcquire, TypeOK, SlotsOK, NoPass,
     NoSlots
<1>7. ASSUME NEW r \in Runs, NEW t \in Clients, PassRelease(r, t) PROVE SlotsOK'
  BY <1>7, CrewAssumption, CapacityMax DEF PassRelease, TypeOK, SlotsOK, NoPass,
     NoSlots
<1>8. ASSUME NEW w \in Threads, Acquire(w) PROVE SlotsOK'
  BY <1>8, CrewAssumption, CapacityMax DEF Acquire, TypeOK, SlotsOK, NoPass, NoSlots
<1>9. ASSUME NEW w \in Threads, ExecErrs(w) PROVE SlotsOK'
  BY <1>9, CrewAssumption, CapacityMax DEF ExecErrs, Fault, Release, GiveBack, Drop,
     TypeOK, SlotsOK, NoPass, NoSlots
<1>10. ASSUME NEW w \in Threads, ExecExits(w) PROVE SlotsOK'
  BY <1>10, CrewAssumption, CapacityMax DEF ExecExits, Release, Record, Drop,
     TypeOK, SlotsOK, NoPass, NoSlots
<1>11. ASSUME NEW w \in Threads, ResultLost(w) PROVE SlotsOK'
  BY <1>11, CrewAssumption, CapacityMax DEF ResultLost, Fault, Release, Drop,
     TypeOK, SlotsOK, NoPass, NoSlots
<1>12. ASSUME NEW w \in Threads, RejoinSync(w) PROVE SlotsOK'
  BY <1>12, CrewAssumption, CapacityMax DEF RejoinSync, Release, TypeOK, SlotsOK,
     NoPass, NoSlots
<1>13. ASSUME NEW r \in Runs, Launch(r) \/ RouteNext(r) PROVE UNCHANGED <<pass,
   free>>
  BY <1>13 DEF Launch, RouteNext
<1>14. ASSUME NEW w \in Threads, NEW k \in Keys, Pop(w, k) \/ PassOverQueue(w, k)
   PROVE UNCHANGED <<pass, free>>
  BY <1>14 DEF Pop, Looks, PassOverQueue, runVars
<1>15. ASSUME NEW w \in Threads, ProbeFails(w) \/ ProbeAnswers(w) \/ WriteFails(w)
   \/ WaitProbe(w) \/ GiveUp(w) PROVE UNCHANGED <<pass, free>>
  BY <1>15 DEF ProbeFails, Fault, GiveBack, Drop, ProbeAnswers, Record, runVars,
     WriteFails, WaitProbe, GiveUp
<1>16. CASE UNCHANGED vars
  BY <1>1, <1>16 DEF vars, runVars
<1> QED
  BY <1>1, <1>2, <1>3, <1>4, <1>5, <1>6, <1>7, <1>8, <1>9, <1>10, <1>11, <1>12,
     <1>13, <1>14, <1>15, <1>16, StepCases

\* The threads and their hands.
LEMMA ThreadsStep ==
    ASSUME TypeOK, [Next]_vars
    PROVE  ThreadsOK'
<1>1. ASSUME UNCHANGED <<pc, cell, from, seen>> PROVE ThreadsOK'
  BY <1>1 DEF TypeOK, QueuesOK, ThreadsOK, Keys
<1>2. ASSUME NEW r \in Runs, Gone(r) PROVE ThreadsOK'
  BY <1>2, CrewAssumption DEF Gone, Cleared, TypeOK, QueuesOK, ThreadsOK, Keys
<1>3. ASSUME NEW r \in Runs, StartCells(r) PROVE ThreadsOK'
  BY <1>3, CrewAssumption DEF StartCells, TypeOK, QueuesOK, ThreadsOK, Keys
<1>4. ASSUME NEW w \in Threads, NEW k \in Keys, Pop(w, k) PROVE ThreadsOK'
  <2>1. Head(queue[RunOf[w]][k]) \in Cells
    BY <1>4, CrewAssumption, TailFacts DEF Pop, TypeOK, QueuesOK
  <2> QED BY <1>4, <2>1 DEF Pop, TypeOK, ThreadsOK
<1>5. ASSUME NEW w \in Threads, NEW k \in Keys, PassOverQueue(w, k) PROVE ThreadsOK'
  <2>1. seen[w] \cup {k} \in SUBSET Keys
    BY DEF TypeOK, ThreadsOK
  <2> QED BY <1>5, <2>1 DEF PassOverQueue, TypeOK, ThreadsOK
<1>6. ASSUME NEW w \in Threads, ProbeFails(w) PROVE ThreadsOK'
  BY <1>6, CrewAssumption DEF ProbeFails, Fault, GiveBack, Drop, TypeOK, QueuesOK,
     ThreadsOK, Keys
<1>7. ASSUME NEW w \in Threads, ProbeAnswers(w) PROVE ThreadsOK'
  BY <1>7, CrewAssumption DEF ProbeAnswers, Record, TypeOK, QueuesOK, ThreadsOK,
     Keys
<1>8. ASSUME NEW w \in Threads, WriteFails(w) PROVE ThreadsOK'
  BY <1>8, CrewAssumption DEF WriteFails, Fault, Drop, TypeOK, QueuesOK, ThreadsOK,
     Keys
<1>9. ASSUME NEW w \in Threads, Acquire(w) PROVE ThreadsOK'
  BY <1>9, CrewAssumption DEF Acquire, TypeOK, QueuesOK, ThreadsOK, Keys
<1>10. ASSUME NEW w \in Threads, ExecErrs(w) PROVE ThreadsOK'
  BY <1>10, CrewAssumption DEF ExecErrs, Fault, Release, GiveBack, Drop, TypeOK,
     QueuesOK, ThreadsOK, Keys
<1>11. ASSUME NEW w \in Threads, ExecExits(w) PROVE ThreadsOK'
  BY <1>11, CrewAssumption DEF ExecExits, Release, Record, Drop, TypeOK, QueuesOK,
     ThreadsOK, Keys
<1>12. ASSUME NEW w \in Threads, ResultLost(w) PROVE ThreadsOK'
  BY <1>12, CrewAssumption DEF ResultLost, Fault, Release, Drop, TypeOK, QueuesOK,
     ThreadsOK, Keys
<1>13. ASSUME NEW w \in Threads, WaitProbe(w) PROVE ThreadsOK'
  BY <1>13, CrewAssumption DEF WaitProbe, Fault, TypeOK, QueuesOK, ThreadsOK, Keys
<1>14. ASSUME NEW w \in Threads, GiveUp(w) PROVE ThreadsOK'
  BY <1>14, CrewAssumption DEF GiveUp, TypeOK, QueuesOK, ThreadsOK, Keys
<1>15. ASSUME NEW w \in Threads, RejoinSync(w) PROVE ThreadsOK'
  BY <1>15, CrewAssumption DEF RejoinSync, Release, TypeOK, QueuesOK, ThreadsOK,
     Keys
<1>16. ASSUME NEW r \in Runs, Launch(r) \/ RouteNext(r) \/ FirstPass(r) \/
   EndCells(r) PROVE UNCHANGED <<pc, cell, from, seen>>
  BY <1>16 DEF Launch, threadVars, RouteNext, FirstPass, StartPass, EndCells
<1>17. ASSUME NEW r \in Runs, NEW t \in Clients, PassAcquire(r, t) \/ PassRelease(r,
   t) PROVE UNCHANGED <<pc, cell, from, seen>>
  BY <1>17 DEF PassAcquire, threadVars, PassRelease
<1>18. CASE UNCHANGED vars
  BY <1>1, <1>18 DEF vars, threadVars
<1> QED
  BY <1>1, <1>2, <1>3, <1>4, <1>5, <1>6, <1>7, <1>8, <1>9, <1>10, <1>11, <1>12,
     <1>13, <1>14, <1>15, <1>16, <1>17, <1>18, StepCases

\* The bounds hold, and a run of failures is no longer than it may be.
LEMMA CountsStep ==
    ASSUME TypeOK, Unbroken, [Next]_vars
    PROVE  CountsOK'
<1>1. ASSUME UNCHANGED <<fails, tries, starts, faults>> PROVE CountsOK'
  BY <1>1 DEF TypeOK, CountsOK, Unbroken, ThreadsOK
<1>2. ASSUME NEW r \in Runs, Launch(r) PROVE CountsOK'
  BY <1>2, SizesAssumption DEF Launch, threadVars, TypeOK, CountsOK, Unbroken,
     ThreadsOK
<1>3. ASSUME NEW r \in Runs, Gone(r) PROVE CountsOK'
  BY <1>3, SizesAssumption DEF Gone, Cleared, TypeOK, CountsOK, Unbroken, ThreadsOK
<1>4. ASSUME NEW r \in Runs, NEW t \in Clients, PassRelease(r, t) PROVE CountsOK'
  BY <1>4, SizesAssumption DEF PassRelease, threadVars, TypeOK, CountsOK, Unbroken,
     ThreadsOK
<1>5. ASSUME NEW w \in Threads, ProbeFails(w) PROVE CountsOK'
  BY <1>5, SizesAssumption DEF ProbeFails, Fault, GiveBack, Drop, TypeOK, CountsOK,
     Unbroken, ThreadsOK
<1>6. ASSUME NEW w \in Threads, WriteFails(w) PROVE CountsOK'
  BY <1>6, SizesAssumption DEF WriteFails, Fault, Drop, TypeOK, CountsOK, Unbroken,
     ThreadsOK
<1>7. ASSUME NEW w \in Threads, ExecErrs(w) PROVE CountsOK'
  BY <1>7, SizesAssumption DEF ExecErrs, Fault, Release, GiveBack, Drop, TypeOK,
     CountsOK, Unbroken, ThreadsOK
<1>8. ASSUME NEW w \in Threads, ExecExits(w) PROVE CountsOK'
  <2>1. /\ MaxConsecutive \in Nat /\ fails[w] \in Nat
        /\ MaxConsecutive > 0 => fails[w] + 1 \in 0 .. MaxConsecutive
        /\ 0 \in 0 .. MaxConsecutive
    BY <1>8, SizesAssumption DEF ExecExits, TypeOK, CountsOK, Unbroken
  <2>2. \/ fails' = [fails EXCEPT ![w] = 0]
        \/ MaxConsecutive # 0 /\ fails' = [fails EXCEPT ![w] = fails[w] + 1]
    BY <1>8 DEF ExecExits
  <2>3. UNCHANGED <<tries, starts, faults>>
    BY <1>8 DEF ExecExits
  <2> QED BY <2>1, <2>2, <2>3 DEF TypeOK, CountsOK
<1>9. ASSUME NEW w \in Threads, ResultLost(w) PROVE CountsOK'
  BY <1>9, SizesAssumption DEF ResultLost, Fault, Release, Drop, TypeOK, CountsOK,
     Unbroken, ThreadsOK
<1>10. ASSUME NEW w \in Threads, WaitProbe(w) PROVE CountsOK'
  BY <1>10, SizesAssumption DEF WaitProbe, Fault, TypeOK, CountsOK, Unbroken,
     ThreadsOK
<1>11. ASSUME NEW w \in Threads, GiveUp(w) PROVE CountsOK'
  BY <1>11, SizesAssumption DEF GiveUp, TypeOK, CountsOK, Unbroken, ThreadsOK
<1>12. ASSUME NEW r \in Runs, RouteNext(r) \/ FirstPass(r) \/ StartCells(r) \/
   EndCells(r) PROVE UNCHANGED <<fails, tries, starts, faults>>
  BY <1>12 DEF RouteNext, threadVars, FirstPass, StartPass, StartCells, EndCells
<1>13. ASSUME NEW r \in Runs, NEW t \in Clients, PassAcquire(r, t) PROVE UNCHANGED
   <<fails, tries, starts, faults>>
  BY <1>13 DEF PassAcquire, threadVars
<1>14. ASSUME NEW w \in Threads, NEW k \in Keys, Pop(w, k) \/ PassOverQueue(w, k)
   PROVE UNCHANGED <<fails, tries, starts, faults>>
  BY <1>14 DEF Pop, Looks, PassOverQueue
<1>15. ASSUME NEW w \in Threads, ProbeAnswers(w) \/ Acquire(w) \/ RejoinSync(w)
   PROVE UNCHANGED <<fails, tries, starts, faults>>
  BY <1>15 DEF ProbeAnswers, Record, Acquire, RejoinSync, Release
<1>16. CASE UNCHANGED vars
  BY <1>1, <1>16 DEF vars, threadVars
<1> QED
  BY <1>1, <1>2, <1>3, <1>4, <1>5, <1>6, <1>7, <1>8, <1>9, <1>10, <1>11, <1>12,
     <1>13, <1>14, <1>15, <1>16, StepCases

\* Threads work for an invocation that runs cells.
LEMMA CrewedStep ==
    ASSUME TypeOK, Crewed, Passing, [Next]_vars
    PROVE  Crewed'
<1>1. ASSUME UNCHANGED <<phase, plan, pc>> PROVE Crewed'
  BY <1>1 DEF TypeOK, InvocationsOK, ThreadsOK, Crewed, Crew
<1>2. ASSUME NEW r \in Runs, Launch(r) PROVE Crewed'
  BY <1>2, CrewAssumption DEF Launch, threadVars, TypeOK, InvocationsOK, ThreadsOK,
     Crewed, Crew
<1>3. ASSUME NEW r \in Runs, Gone(r) PROVE Crewed'
  BY <1>3, CrewAssumption DEF Gone, Cleared, TypeOK, InvocationsOK, ThreadsOK,
     Crewed, Crew
<1>4. ASSUME NEW r \in Runs, FirstPass(r) PROVE Crewed'
  BY <1>4, CrewAssumption DEF FirstPass, StartPass, threadVars, TypeOK,
     InvocationsOK, ThreadsOK, Crewed, Crew
<1>5. ASSUME NEW r \in Runs, StartCells(r) PROVE Crewed'
  BY <1>5, CrewAssumption DEF StartCells, TypeOK, InvocationsOK, ThreadsOK, Crewed,
     Crew
<1>6. ASSUME NEW r \in Runs, EndCells(r) PROVE Crewed'
  BY <1>6, CrewAssumption DEF EndCells, StartPass, threadVars, TypeOK,
     InvocationsOK, ThreadsOK, Crewed, Crew
<1>7. ASSUME NEW w \in Threads, NEW k \in Keys, Pop(w, k) PROVE Crewed'
  BY <1>7, CrewAssumption DEF Pop, Looks, TypeOK, InvocationsOK, ThreadsOK, Crewed,
     Crew
<1>8. ASSUME NEW w \in Threads, NEW k \in Keys, PassOverQueue(w, k) PROVE Crewed'
  BY <1>8, CrewAssumption DEF PassOverQueue, Looks, runVars, TypeOK, InvocationsOK,
     ThreadsOK, Crewed, Crew
<1>9. ASSUME NEW w \in Threads, ProbeFails(w) PROVE Crewed'
  BY <1>9, CrewAssumption DEF ProbeFails, Fault, GiveBack, Drop, TypeOK,
     InvocationsOK, ThreadsOK, Crewed, Crew
<1>10. ASSUME NEW w \in Threads, ProbeAnswers(w) PROVE Crewed'
  BY <1>10, CrewAssumption DEF ProbeAnswers, Record, runVars, TypeOK, InvocationsOK,
     ThreadsOK, Crewed, Crew
<1>11. ASSUME NEW w \in Threads, WriteFails(w) PROVE Crewed'
  BY <1>11, CrewAssumption DEF WriteFails, Fault, Drop, runVars, TypeOK,
     InvocationsOK, ThreadsOK, Crewed, Crew
<1>12. ASSUME NEW w \in Threads, Acquire(w) PROVE Crewed'
  BY <1>12, CrewAssumption DEF Acquire, TypeOK, InvocationsOK, ThreadsOK, Crewed,
     Crew
<1>13. ASSUME NEW w \in Threads, ExecErrs(w) PROVE Crewed'
  BY <1>13, CrewAssumption DEF ExecErrs, Fault, Release, GiveBack, Drop, TypeOK,
     InvocationsOK, ThreadsOK, Crewed, Crew
<1>14. ASSUME NEW w \in Threads, ExecExits(w) PROVE Crewed'
  BY <1>14, CrewAssumption DEF ExecExits, Release, Record, Drop, TypeOK,
     InvocationsOK, ThreadsOK, Crewed, Crew
<1>15. ASSUME NEW w \in Threads, ResultLost(w) PROVE Crewed'
  BY <1>15, CrewAssumption DEF ResultLost, Fault, Release, Drop, TypeOK,
     InvocationsOK, ThreadsOK, Crewed, Crew
<1>16. ASSUME NEW w \in Threads, WaitProbe(w) PROVE Crewed'
  BY <1>16, CrewAssumption DEF WaitProbe, Fault, runVars, TypeOK, InvocationsOK,
     ThreadsOK, Crewed, Crew
<1>17. ASSUME NEW w \in Threads, GiveUp(w) PROVE Crewed'
  BY <1>17, CrewAssumption DEF GiveUp, runVars, TypeOK, InvocationsOK, ThreadsOK,
     Crewed, Crew
<1>18. ASSUME NEW w \in Threads, RejoinSync(w) PROVE Crewed'
  BY <1>18, CrewAssumption DEF RejoinSync, Release, TypeOK, InvocationsOK,
     ThreadsOK, Crewed, Crew
<1>19. ASSUME NEW r \in Runs, RouteNext(r) PROVE UNCHANGED <<phase, plan, pc>>
  BY <1>19 DEF RouteNext, threadVars
<1>20. ASSUME NEW r \in Runs, NEW t \in Clients, PassAcquire(r, t) \/ PassRelease(r,
   t) PROVE UNCHANGED <<phase, plan, pc>>
  BY <1>20 DEF PassAcquire, threadVars, PassRelease
<1>21. CASE UNCHANGED vars
  BY <1>1, <1>21 DEF vars, runVars, threadVars
<1> QED
  BY <1>1, <1>2, <1>3, <1>4, <1>5, <1>6, <1>7, <1>8, <1>9, <1>10, <1>11, <1>12,
     <1>13, <1>14, <1>15, <1>16, <1>17, <1>18, <1>19, <1>20, <1>21, StepCases

\* Hands fill and empty with the threads' steps.
LEMMA HandStep ==
    ASSUME TypeOK, Crewed, HandOK, [Next]_vars
    PROVE  HandOK'
<1>1. ASSUME UNCHANGED <<plan, pc, cell, from, seen>> PROVE HandOK'
  BY <1>1 DEF TypeOK, InvocationsOK, ThreadsOK, QueuesOK, HandOK, Crewed, Eligible
<1>2. ASSUME NEW r \in Runs, Launch(r) PROVE HandOK'
  <2>1. PICK p \in Plans : plan' = [plan EXCEPT ![r] = p]
    BY <1>2 DEF Launch
  <2>2. ASSUME NEW x \in Threads, cell[x] # 0 PROVE Eligible(x)' = Eligible(x)
    <3>1. RunOf[x] # r /\ RunOf[x] \in Runs
      BY <1>2, <2>2, CrewAssumption DEF Launch, HandOK, Crewed
    <3> QED BY <2>1, <3>1 DEF Eligible, TypeOK, InvocationsOK
  <2>3. UNCHANGED <<pc, cell, from, seen>>
    BY <1>2 DEF Launch, threadVars
  <2> QED BY <2>2, <2>3 DEF HandOK
<1>3. ASSUME NEW r \in Runs, Gone(r) PROVE HandOK'
  <2>1. ASSUME NEW x \in Threads, RunOf[x] # r PROVE Eligible(x)' = Eligible(x)
    BY <1>3, <2>1, CrewAssumption, GoneFacts DEF Eligible
  <2> QED BY <1>3, <2>1, GoneFacts DEF HandOK
<1>4. ASSUME NEW r \in Runs, StartCells(r) PROVE HandOK'
  <2>1. \A x \in Threads : pc'[x] = pc[x] \/ (pc'[x] = "pop" /\ pc[x] = "off")
    <3>1. ASSUME NEW x \in Crew(r) PROVE pc[x] = "off"
      BY <1>4, <3>1 DEF StartCells, Crewed, Crew, TypeOK, ThreadsOK
    <3> QED BY <1>4, <3>1 DEF StartCells
  <2>2. UNCHANGED <<plan, cell, from, seen>>
    BY <1>4 DEF StartCells
  <2>3. \A x \in Threads : Eligible(x)' = Eligible(x)
    BY <2>2 DEF Eligible
  <2> QED BY <2>1, <2>2, <2>3 DEF HandOK
<1>5. ASSUME NEW w \in Threads, NEW k \in Keys, Pop(w, k) PROVE HandOK'
  <2>1. \A x \in Threads : Eligible(x)' = Eligible(x)
    BY <1>5 DEF Pop, Eligible
  <2>2. Head(queue[RunOf[w]][k]) \in Cells /\ Head(queue[RunOf[w]][k]) # 0
    <3>1. Head(queue[RunOf[w]][k]) \in Cells
      BY <1>5, CrewAssumption, TailFacts DEF Pop, TypeOK, QueuesOK
    <3> QED BY <3>1 DEF Cells
  <2>3. k \in Eligible(w)
    BY <1>5 DEF Pop, Looks
  <2>4. /\ cell'[w] # 0 /\ from'[w] = k /\ seen'[w] = {} /\ pc'[w] = "probe"
        /\ \A x \in Threads : x # w => /\ cell'[x] = cell[x] /\ from'[x] = from[x]
                                       /\ seen'[x] = seen[x] /\ pc'[x] = pc[x]
    BY <1>5, <2>2 DEF Pop, TypeOK, ThreadsOK
  <2> QED BY <2>1, <2>3, <2>4 DEF HandOK
<1>6. ASSUME NEW w \in Threads, NEW k \in Keys, PassOverQueue(w, k) PROVE HandOK'
  <2>1. \A x \in Threads : Eligible(x)' = Eligible(x)
    BY <1>6 DEF PassOverQueue, Eligible, runVars
  <2>2. /\ UNCHANGED <<cell, from>>
        /\ pc[w] = "pop"
        /\ \/ pc'[w] = "drained" /\ seen'[w] = {}
           \/ pc'[w] = "pop"
        /\ \A x \in Threads : x # w => seen'[x] = seen[x] /\ pc'[x] = pc[x]
    BY <1>6 DEF PassOverQueue, Looks, TypeOK, ThreadsOK
  <2> QED BY <2>1, <2>2 DEF HandOK
<1>7. ASSUME NEW w \in Threads, ProbeFails(w) PROVE HandOK'
  BY <1>7, CrewAssumption DEF ProbeFails, Fault, GiveBack, Drop, TypeOK,
     InvocationsOK, ThreadsOK, QueuesOK, HandOK, Crewed, Eligible
<1>8. ASSUME NEW w \in Threads, ProbeAnswers(w) PROVE HandOK'
  BY <1>8, CrewAssumption DEF ProbeAnswers, Record, runVars, TypeOK, InvocationsOK,
     ThreadsOK, QueuesOK, HandOK, Crewed, Eligible
<1>9. ASSUME NEW w \in Threads, WriteFails(w) PROVE HandOK'
  BY <1>9, CrewAssumption DEF WriteFails, Fault, Drop, runVars, TypeOK,
     InvocationsOK, ThreadsOK, QueuesOK, HandOK, Crewed, Eligible
<1>10. ASSUME NEW w \in Threads, Acquire(w) PROVE HandOK'
  BY <1>10, CrewAssumption DEF Acquire, TypeOK, InvocationsOK, ThreadsOK, QueuesOK,
     HandOK, Crewed, Eligible
<1>11. ASSUME NEW w \in Threads, ExecErrs(w) PROVE HandOK'
  BY <1>11, CrewAssumption DEF ExecErrs, Fault, Release, GiveBack, Drop, TypeOK,
     InvocationsOK, ThreadsOK, QueuesOK, HandOK, Crewed, Eligible
<1>12. ASSUME NEW w \in Threads, ExecExits(w) PROVE HandOK'
  BY <1>12, CrewAssumption DEF ExecExits, Release, Record, Drop, TypeOK,
     InvocationsOK, ThreadsOK, QueuesOK, HandOK, Crewed, Eligible
<1>13. ASSUME NEW w \in Threads, ResultLost(w) PROVE HandOK'
  BY <1>13, CrewAssumption DEF ResultLost, Fault, Release, Drop, TypeOK,
     InvocationsOK, ThreadsOK, QueuesOK, HandOK, Crewed, Eligible
<1>14. ASSUME NEW w \in Threads, WaitProbe(w) PROVE HandOK'
  BY <1>14, CrewAssumption DEF WaitProbe, Fault, runVars, TypeOK, InvocationsOK,
     ThreadsOK, QueuesOK, HandOK, Crewed, Eligible
<1>15. ASSUME NEW w \in Threads, GiveUp(w) PROVE HandOK'
  BY <1>15, CrewAssumption DEF GiveUp, runVars, TypeOK, InvocationsOK, ThreadsOK,
     QueuesOK, HandOK, Crewed, Eligible
<1>16. ASSUME NEW w \in Threads, RejoinSync(w) PROVE HandOK'
  BY <1>16, CrewAssumption DEF RejoinSync, Release, TypeOK, InvocationsOK,
     ThreadsOK, QueuesOK, HandOK, Crewed, Eligible
<1>17. ASSUME NEW r \in Runs, RouteNext(r) \/ FirstPass(r) \/ EndCells(r) PROVE
   UNCHANGED <<plan, pc, cell, from, seen>>
  BY <1>17 DEF RouteNext, threadVars, FirstPass, StartPass, EndCells
<1>18. ASSUME NEW r \in Runs, NEW t \in Clients, PassAcquire(r, t) \/ PassRelease(r,
   t) PROVE UNCHANGED <<plan, pc, cell, from, seen>>
  BY <1>18 DEF PassAcquire, threadVars, PassRelease
<1>19. CASE UNCHANGED vars
  BY <1>1, <1>19 DEF vars, runVars, threadVars
<1> QED
  BY <1>1, <1>2, <1>3, <1>4, <1>5, <1>6, <1>7, <1>8, <1>9, <1>10, <1>11, <1>12,
     <1>13, <1>14, <1>15, <1>16, <1>17, <1>18, <1>19, StepCases

\* A run of failures stops a thread.
LEMMA UnbrokenStep ==
    ASSUME TypeOK, Crewed, Unbroken, [Next]_vars
    PROVE  Unbroken'
<1>1. ASSUME UNCHANGED <<pc, fails>> PROVE Unbroken'
  BY <1>1 DEF TypeOK, CountsOK, ThreadsOK, Unbroken
<1>2. ASSUME NEW r \in Runs, Gone(r) PROVE Unbroken'
  BY <1>2, SizesAssumption, CrewAssumption DEF Gone, Cleared, TypeOK, CountsOK,
     ThreadsOK, Unbroken
<1>3. ASSUME NEW r \in Runs, StartCells(r) PROVE Unbroken'
  <2>1. \A x \in Threads : pc'[x] = pc[x] \/ (pc'[x] = "pop" /\ pc[x] # "stopped")
    <3>1. ASSUME NEW x \in Crew(r) PROVE pc[x] = "off"
      BY <1>3, <3>1 DEF StartCells, Crewed, Crew, TypeOK, ThreadsOK
    <3> QED BY <1>3, <3>1 DEF StartCells
  <2>2. fails' = fails
    BY <1>3 DEF StartCells
  <2> QED BY <2>1, <2>2 DEF Unbroken
<1>4. ASSUME NEW w \in Threads, NEW k \in Keys, Pop(w, k) PROVE Unbroken'
  BY <1>4, SizesAssumption, CrewAssumption DEF Pop, Looks, TypeOK, CountsOK,
     ThreadsOK, Unbroken
<1>5. ASSUME NEW w \in Threads, NEW k \in Keys, PassOverQueue(w, k) PROVE Unbroken'
  BY <1>5, SizesAssumption, CrewAssumption DEF PassOverQueue, Looks, TypeOK,
     CountsOK, ThreadsOK, Unbroken
<1>6. ASSUME NEW w \in Threads, ProbeFails(w) PROVE Unbroken'
  BY <1>6, SizesAssumption, CrewAssumption DEF ProbeFails, Fault, GiveBack, Drop,
     TypeOK, CountsOK, ThreadsOK, Unbroken
<1>7. ASSUME NEW w \in Threads, ProbeAnswers(w) PROVE Unbroken'
  BY <1>7, SizesAssumption, CrewAssumption DEF ProbeAnswers, Record, TypeOK,
     CountsOK, ThreadsOK, Unbroken
<1>8. ASSUME NEW w \in Threads, WriteFails(w) PROVE Unbroken'
  BY <1>8, SizesAssumption, CrewAssumption DEF WriteFails, Fault, Drop, TypeOK,
     CountsOK, ThreadsOK, Unbroken
<1>9. ASSUME NEW w \in Threads, Acquire(w) PROVE Unbroken'
  BY <1>9, SizesAssumption, CrewAssumption DEF Acquire, TypeOK, CountsOK, ThreadsOK,
     Unbroken
<1>10. ASSUME NEW w \in Threads, ExecErrs(w) PROVE Unbroken'
  BY <1>10, SizesAssumption, CrewAssumption DEF ExecErrs, Fault, Release, GiveBack,
     Drop, TypeOK, CountsOK, ThreadsOK, Unbroken
<1>11. ASSUME NEW w \in Threads, ExecExits(w) PROVE Unbroken'
  BY <1>11, SizesAssumption, CrewAssumption DEF ExecExits, Release, Record, Drop,
     TypeOK, CountsOK, ThreadsOK, Unbroken
<1>12. ASSUME NEW w \in Threads, ResultLost(w) PROVE Unbroken'
  BY <1>12, SizesAssumption, CrewAssumption DEF ResultLost, Fault, Release, Drop,
     TypeOK, CountsOK, ThreadsOK, Unbroken
<1>13. ASSUME NEW w \in Threads, WaitProbe(w) PROVE Unbroken'
  BY <1>13, SizesAssumption, CrewAssumption DEF WaitProbe, Fault, TypeOK, CountsOK,
     ThreadsOK, Unbroken
<1>14. ASSUME NEW w \in Threads, GiveUp(w) PROVE Unbroken'
  BY <1>14, SizesAssumption, CrewAssumption DEF GiveUp, TypeOK, CountsOK, ThreadsOK,
     Unbroken
<1>15. ASSUME NEW w \in Threads, RejoinSync(w) PROVE Unbroken'
  BY <1>15, SizesAssumption, CrewAssumption DEF RejoinSync, Release, TypeOK,
     CountsOK, ThreadsOK, Unbroken
<1>16. ASSUME NEW r \in Runs, Launch(r) \/ RouteNext(r) \/ FirstPass(r) \/
   EndCells(r) PROVE UNCHANGED <<pc, fails>>
  BY <1>16 DEF Launch, threadVars, RouteNext, FirstPass, StartPass, EndCells
<1>17. ASSUME NEW r \in Runs, NEW t \in Clients, PassAcquire(r, t) \/ PassRelease(r,
   t) PROVE UNCHANGED <<pc, fails>>
  BY <1>17 DEF PassAcquire, threadVars, PassRelease
<1>18. CASE UNCHANGED vars
  BY <1>1, <1>18 DEF vars, threadVars
<1> QED
  BY <1>1, <1>2, <1>3, <1>4, <1>5, <1>6, <1>7, <1>8, <1>9, <1>10, <1>11, <1>12,
     <1>13, <1>14, <1>15, <1>16, <1>17, <1>18, StepCases

\* Cells are taken on once, while routing.
LEMMA FreshStep ==
    ASSUME TypeOK, Fresh, [Next]_vars
    PROVE  Fresh'
<1>1. ASSUME UNCHANGED <<phase, route, owed>> PROVE Fresh'
  BY <1>1 DEF TypeOK, InvocationsOK, Fresh
<1>2. ASSUME NEW r \in Runs, Launch(r) PROVE Fresh'
  BY <1>2, CrewAssumption DEF Launch, TypeOK, InvocationsOK, Fresh
<1>3. ASSUME NEW r \in Runs, Gone(r) PROVE Fresh'
  BY <1>3, CrewAssumption DEF Gone, Cleared, TypeOK, InvocationsOK, Fresh
<1>4. ASSUME NEW r \in Runs, RouteNext(r) PROVE Fresh'
  BY <1>4, CrewAssumption DEF RouteNext, TypeOK, InvocationsOK, Fresh
<1>5. ASSUME NEW r \in Runs, FirstPass(r) PROVE Fresh'
  <2>1. phase' = [phase EXCEPT ![r] = "initial"] /\ UNCHANGED <<route, owed>>
    BY <1>5 DEF FirstPass, StartPass
  <2>2. phase[r] = "routing" /\ route[r] = {}
    BY <1>5 DEF FirstPass
  <2> QED BY <2>1, <2>2 DEF TypeOK, InvocationsOK, Fresh
<1>6. ASSUME NEW r \in Runs, StartCells(r) PROVE Fresh'
  BY <1>6, CrewAssumption DEF StartCells, TypeOK, InvocationsOK, Fresh
<1>7. ASSUME NEW r \in Runs, EndCells(r) PROVE Fresh'
  BY <1>7, CrewAssumption DEF EndCells, StartPass, TypeOK, InvocationsOK, Fresh
<1>8. ASSUME NEW w \in Threads, WriteFails(w) PROVE Fresh'
  BY <1>8, CrewAssumption DEF WriteFails, Fault, Drop, runVars, TypeOK,
     InvocationsOK, Fresh
<1>9. ASSUME NEW w \in Threads, ExecExits(w) PROVE Fresh'
  BY <1>9, CrewAssumption DEF ExecExits, Release, Record, Drop, TypeOK,
     InvocationsOK, Fresh
<1>10. ASSUME NEW w \in Threads, ResultLost(w) PROVE Fresh'
  BY <1>10, CrewAssumption DEF ResultLost, Fault, Release, Drop, TypeOK,
     InvocationsOK, Fresh
<1>11. ASSUME NEW r \in Runs, NEW t \in Clients, PassAcquire(r, t) \/ PassRelease(r,
   t) PROVE UNCHANGED <<phase, route, owed>>
  BY <1>11 DEF PassAcquire, PassRelease
<1>12. ASSUME NEW w \in Threads, NEW k \in Keys, Pop(w, k) \/ PassOverQueue(w, k)
   PROVE UNCHANGED <<phase, route, owed>>
  BY <1>12 DEF Pop, Looks, PassOverQueue, runVars
<1>13. ASSUME NEW w \in Threads, ProbeFails(w) \/ ProbeAnswers(w) \/ Acquire(w) \/
   ExecErrs(w) \/ WaitProbe(w) \/ GiveUp(w) \/ RejoinSync(w) PROVE UNCHANGED
   <<phase, route, owed>>
  BY <1>13 DEF ProbeFails, Fault, GiveBack, Drop, ProbeAnswers, Record, runVars,
     Acquire, ExecErrs, Release, WaitProbe, GiveUp, RejoinSync
<1>14. CASE UNCHANGED vars
  BY <1>1, <1>14 DEF vars, runVars
<1> QED
  BY <1>1, <1>2, <1>3, <1>4, <1>5, <1>6, <1>7, <1>8, <1>9, <1>10, <1>11, <1>12,
     <1>13, <1>14, StepCases

\* An invocation keeps to its shard.
LEMMA ShardedStep ==
    ASSUME TypeOK, Sharded, [Next]_vars
    PROVE  Sharded'
<1>1. ASSUME UNCHANGED <<route, owed>> PROVE Sharded'
  BY <1>1 DEF TypeOK, InvocationsOK, Sharded, InShard
<1>2. ASSUME NEW r \in Runs, Launch(r) PROVE Sharded'
  <2>1. PICK o \in Options :
          route' = [route EXCEPT ![r] = Limited(Selected(r, StateIndex, o), o.limit)]
    BY <1>2 DEF Launch
  <2>2. \A c \in Limited(Selected(r, StateIndex, o), o.limit) : InShard(r, c)
    BY DEF Limited, Selected
  <2>3. UNCHANGED owed
    BY <1>2 DEF Launch
  <2> QED BY <2>1, <2>2, <2>3 DEF TypeOK, InvocationsOK, Sharded, InShard
<1>3. ASSUME NEW r \in Runs, Gone(r) PROVE Sharded'
  BY <1>3, CrewAssumption DEF Gone, Cleared, TypeOK, InvocationsOK, Sharded, InShard
<1>4. ASSUME NEW r \in Runs, RouteNext(r) PROVE Sharded'
  BY <1>4, CrewAssumption DEF RouteNext, TypeOK, InvocationsOK, Sharded, InShard
<1>5. ASSUME NEW w \in Threads, WriteFails(w) PROVE Sharded'
  BY <1>5, CrewAssumption DEF WriteFails, Fault, Drop, runVars, TypeOK,
     InvocationsOK, Sharded, InShard
<1>6. ASSUME NEW w \in Threads, ExecExits(w) PROVE Sharded'
  BY <1>6, CrewAssumption DEF ExecExits, Release, Record, Drop, TypeOK,
     InvocationsOK, Sharded, InShard
<1>7. ASSUME NEW w \in Threads, ResultLost(w) PROVE Sharded'
  BY <1>7, CrewAssumption DEF ResultLost, Fault, Release, Drop, TypeOK,
     InvocationsOK, Sharded, InShard
<1>8. ASSUME NEW r \in Runs, FirstPass(r) \/ StartCells(r) \/ EndCells(r) PROVE
   UNCHANGED <<route, owed>>
  BY <1>8 DEF FirstPass, StartPass, StartCells, EndCells
<1>9. ASSUME NEW r \in Runs, NEW t \in Clients, PassAcquire(r, t) \/ PassRelease(r,
   t) PROVE UNCHANGED <<route, owed>>
  BY <1>9 DEF PassAcquire, PassRelease
<1>10. ASSUME NEW w \in Threads, NEW k \in Keys, Pop(w, k) \/ PassOverQueue(w, k)
   PROVE UNCHANGED <<route, owed>>
  BY <1>10 DEF Pop, Looks, PassOverQueue, runVars
<1>11. ASSUME NEW w \in Threads, ProbeFails(w) \/ ProbeAnswers(w) \/ Acquire(w) \/
   ExecErrs(w) \/ WaitProbe(w) \/ GiveUp(w) \/ RejoinSync(w) PROVE UNCHANGED
   <<route, owed>>
  BY <1>11 DEF ProbeFails, Fault, GiveBack, Drop, ProbeAnswers, Record, runVars,
     Acquire, ExecErrs, Release, WaitProbe, GiveUp, RejoinSync
<1>12. CASE UNCHANGED vars
  BY <1>1, <1>12 DEF vars, runVars
<1> QED
  BY <1>1, <1>2, <1>3, <1>4, <1>5, <1>6, <1>7, <1>8, <1>9, <1>10, <1>11, <1>12,
     StepCases

\* What an invocation loaded stays in the file: events are only appended.
LEMMA LoadedStep ==
    ASSUME TypeOK, HandOK, Loaded, [Next]_vars
    PROVE  Loaded'
<1>1. ASSUME UNCHANGED <<log, loaded>> PROVE Loaded'
  BY <1>1 DEF Loaded
<1>2. ASSUME NEW r \in Runs, Launch(r) PROVE Loaded'
  <2>1. /\ loaded' = [loaded EXCEPT ![r] = [k \in CellKeys |-> Len(log[k])]]
        /\ log' = log
    BY <1>2 DEF Launch
  <2>2. \A k \in CellKeys : Len(log[k]) \in Nat
    BY LenProperties DEF TypeOK, FileOK
  <2> QED BY <2>1, <2>2 DEF TypeOK, InvocationsOK, Loaded
<1>3. ASSUME NEW r \in Runs, Gone(r) PROVE Loaded'
  <2>1. /\ log' = log /\ \A k \in CellKeys : loaded'[r][k] = 0
        /\ \A s \in Runs : s # r => loaded'[s] = loaded[s]
    BY <1>3, GoneFacts
  <2>2. \A k \in CellKeys : Len(log[k]) \in Nat
    BY LenProperties DEF TypeOK, FileOK
  <2> QED BY <2>1, <2>2 DEF Loaded
<1>4. ASSUME NEW w \in Threads, NEW status \in {"started", "success", "failed"},
             pc[w] \in {"probe", "exec"}, Record(cell[w], status, w), UNCHANGED loaded
      PROVE  Loaded'
  <2>1. /\ \A k \in CellKeys : k # CellKey[cell[w]] => log'[k] = log[k]
        /\ Len(log'[CellKey[cell[w]]]) = Len(log[CellKey[cell[w]]]) + 1
        /\ \A k \in CellKeys : Len(log[k]) \in Nat
    BY <1>4, RecordFacts
  <2>2. ASSUME NEW r \in Runs, NEW k \in CellKeys PROVE loaded[r][k] <= Len(log'[k])
    <3>1. /\ loaded[r][k] \in Nat /\ Len(log[k]) \in Nat /\ loaded[r][k] <= Len(log[k])
      BY <2>1 DEF TypeOK, InvocationsOK, Loaded
    <3>2. Len(log'[k]) = Len(log[k]) \/ Len(log'[k]) = Len(log[k]) + 1
      BY <2>1
    <3> QED BY <3>1, <3>2
  <2> QED BY <1>4, <2>2 DEF Loaded
<1>5. ASSUME NEW w \in Threads, ProbeAnswers(w) PROVE Loaded'
  BY <1>4, <1>5 DEF ProbeAnswers, runVars
<1>6. ASSUME NEW w \in Threads, ExecExits(w) PROVE Loaded'
  BY <1>4, <1>6 DEF ExecExits
<1>7. ASSUME NEW r \in Runs, RouteNext(r) \/ FirstPass(r) \/ StartCells(r) \/ EndCells(r)
      PROVE  UNCHANGED <<log, loaded>>
  BY <1>7 DEF RouteNext, FirstPass, StartCells, EndCells
<1>8. ASSUME NEW r \in Runs, NEW t \in Clients, PassAcquire(r, t) \/ PassRelease(r, t)
      PROVE  UNCHANGED <<log, loaded>>
  BY <1>8 DEF PassAcquire, PassRelease
<1>9. ASSUME NEW w \in Threads, NEW k \in Keys, Pop(w, k) \/ PassOverQueue(w, k)
      PROVE  UNCHANGED <<log, loaded>>
  BY <1>9 DEF Pop, PassOverQueue, runVars
<1>10. ASSUME NEW w \in Threads,
              ProbeFails(w) \/ WriteFails(w) \/ Acquire(w) \/ ExecErrs(w) \/ ResultLost(w)
              \/ WaitProbe(w) \/ GiveUp(w) \/ RejoinSync(w)
       PROVE  UNCHANGED <<log, loaded>>
  BY <1>10 DEF ProbeFails, WriteFails, runVars, Acquire, ExecErrs, ResultLost, WaitProbe,
     GiveUp, RejoinSync
<1>11. CASE UNCHANGED vars
  BY <1>1, <1>11 DEF vars, runVars
<1> QED
  BY <1>1, <1>2, <1>3, <1>5, <1>6, <1>7, <1>8, <1>9, <1>10, <1>11, StepCases

\* The cell a thread records something about is still to be routed by no
\* invocation, and owed by its own alone.
LEMMA WritersOwn ==
    ASSUME TypeOK, HandOK, Fresh, Owed, Sharded, NEW w \in Threads,
           pc[w] \in {"probe", "exec"}
    PROVE  /\ RunOf[w] \in Runs /\ cell[w] \in owed[RunOf[w]]
           /\ \A s \in Runs : \A c \in route[s] : c \in Cells /\ c # cell[w]
           /\ \A s \in Runs : \A c \in owed[s] :
                c \in Cells /\ (s # RunOf[w] => c # cell[w])
<1>1. RunOf[w] \in Runs /\ cell[w] \in owed[RunOf[w]]
  BY CrewAssumption DEF HandOK, Owed
<1>2. \A s \in Runs : route[s] \cup owed[s] \subseteq Cells
  BY DEF TypeOK, InvocationsOK
<1>3. ASSUME NEW s \in Runs, s # RunOf[w], NEW c \in route[s] \cup owed[s]
      PROVE  c # cell[w]
  BY <1>1, <1>3, ShardAssumption DEF Sharded, InShard
<1>4. \A c \in route[RunOf[w]] : c # cell[w]
  BY <1>1 DEF Fresh
<1> QED BY <1>1, <1>2, <1>3, <1>4

\* The index stays true of what was loaded, and nobody else writes about a cell
\* that is still to be routed.
LEMMA IndexStep ==
    ASSUME TypeOK, HandOK, Fresh, Owed, Sharded, Loaded, IndexFresh, [Next]_vars
    PROVE  IndexFresh'
<1>1. ASSUME UNCHANGED <<log, loaded, phase, index, route>> PROVE IndexFresh'
  BY <1>1 DEF IndexFresh
<1>2. ASSUME NEW r \in Runs, Launch(r) PROVE IndexFresh'
  <2>1. /\ phase' = [phase EXCEPT ![r] = "routing"]
        /\ index' = [index EXCEPT ![r] = StateIndex]
        /\ loaded' = [loaded EXCEPT ![r] = [k \in CellKeys |-> Len(log[k])]]
        /\ log' = log
    BY <1>2 DEF Launch
  <2>2. PICK S \in SUBSET Cells : route' = [route EXCEPT ![r] = S]
    <3>1. PICK o \in Options :
            route' = [route EXCEPT ![r] = Limited(Selected(r, StateIndex, o), o.limit)]
      BY <1>2 DEF Launch
    <3>2. Limited(Selected(r, StateIndex, o), o.limit) \subseteq Cells
      BY DEF Limited, Selected
    <3> QED BY <3>1, <3>2
  <2>3. ASSUME NEW s \in Runs, s # r
        PROVE  /\ phase'[s] = phase[s] /\ index'[s] = index[s] /\ loaded'[s] = loaded[s]
               /\ route'[s] = route[s]
    BY <2>1, <2>3, <2>2 DEF TypeOK, InvocationsOK
  <2>4. /\ index'[r] = StateIndex /\ loaded'[r] = [k \in CellKeys |-> Len(log[k])]
        /\ route'[r] \subseteq Cells
    BY <2>1, <2>2 DEF TypeOK, InvocationsOK
  <2>5. ASSUME NEW k \in CellKeys
        PROVE  /\ Len(log[k]) \in Nat
               /\ index'[r][k].pin = IF loaded'[r][k] = 0 THEN NoClient
                                    ELSE log[k][loaded'[r][k]].client
    BY <2>4, PinType DEF TypeOK, FileOK, StateIndex
  <2>6. ASSUME NEW c \in route'[r], NEW i \in 1 .. Len(log[CellKey[c]]),
               i > loaded'[r][CellKey[c]]
        PROVE  FALSE
    BY <2>4, <2>5, <2>6, KeyAssumption
  <2> QED BY <2>1, <2>3, <2>5, <2>6 DEF IndexFresh
<1>3. ASSUME NEW r \in Runs, Gone(r) PROVE IndexFresh'
  <2>1. /\ phase'[r] = "off" /\ route'[r] = {} /\ log' = log
        /\ \A s \in Runs : s # r => /\ phase'[s] = phase[s] /\ index'[s] = index[s]
                                   /\ loaded'[s] = loaded[s] /\ route'[s] = route[s]
    BY <1>3, GoneFacts
  <2> QED BY <2>1 DEF IndexFresh
<1>4. ASSUME NEW r \in Runs, FirstPass(r) PROVE IndexFresh'
  <2>1. /\ phase' = [phase EXCEPT ![r] = "initial"] /\ UNCHANGED <<log, loaded, route>>
        /\ index' = [index EXCEPT ![r] = NoIndex]
    BY <1>4 DEF FirstPass, StartPass
  <2>2. /\ phase'[r] = "initial"
        /\ \A s \in Runs : s # r => phase'[s] = phase[s] /\ index'[s] = index[s]
    BY <2>1 DEF TypeOK, InvocationsOK
  <2> QED BY <2>1, <2>2 DEF IndexFresh
<1>5. ASSUME NEW r \in Runs, RouteNext(r) PROVE IndexFresh'
  <2>1. UNCHANGED <<log, loaded, phase, index>> /\ \A s \in Runs : route'[s] \subseteq route[s]
    BY <1>5 DEF RouteNext, TypeOK, InvocationsOK
  <2> QED BY <2>1 DEF IndexFresh
<1>6. ASSUME NEW r \in Runs, StartCells(r) \/ EndCells(r) PROVE IndexFresh'
  <2>1. UNCHANGED <<log, loaded, index, route>>
    BY <1>6 DEF StartCells, EndCells
  <2>2. \A s \in Runs : phase'[s] = "routing" => phase[s] = "routing"
    BY <1>6 DEF StartCells, EndCells, StartPass, TypeOK, InvocationsOK
  <2> QED BY <2>1, <2>2 DEF IndexFresh
<1>7. ASSUME NEW w \in Threads, NEW status \in {"started", "success", "failed"},
             pc[w] \in {"probe", "exec"}, Record(cell[w], status, w),
             UNCHANGED <<phase, index, loaded, route>>
      PROVE  IndexFresh'
  <2> DEFINE K == CellKey[cell[w]]
  <2>1. /\ \A k \in CellKeys : k # K => log'[k] = log[k]
        /\ \A k \in CellKeys : Len(log[k]) \in Nat
        /\ Len(log'[K]) = Len(log[K]) + 1
        /\ \A i \in 1 .. Len(log[K]) : log'[K][i] = log[K][i]
        /\ log'[K][Len(log[K]) + 1].cell = cell[w]
    BY <1>7, RecordFacts
  <2>2. ASSUME NEW s \in Runs, NEW k \in CellKeys, loaded[s][k] # 0
        PROVE  log'[k][loaded[s][k]] = log[k][loaded[s][k]]
    <3>1. loaded[s][k] \in 1 .. Len(log[k])
      BY <2>1, <2>2 DEF TypeOK, InvocationsOK, Loaded
    <3> QED BY <2>1, <3>1
  <2>3. ASSUME NEW s \in Runs, NEW c \in route[s], NEW i \in 1 .. Len(log'[CellKey[c]]),
               i > loaded[s][CellKey[c]]
        PROVE  log'[CellKey[c]][i].cell # c
    <3>1. c \in Cells /\ c # cell[w] /\ CellKey[c] \in CellKeys
      BY <1>7, WritersOwn, KeyAssumption
    <3>2. CASE i \in 1 .. Len(log[CellKey[c]])
      <4>1. log[CellKey[c]][i].cell # c
        BY <2>3, <3>2 DEF IndexFresh
      <4>2. log'[CellKey[c]][i] = log[CellKey[c]][i]
        BY <2>1, <3>1, <3>2
      <4> QED BY <4>1, <4>2
    <3>3. CASE i \notin 1 .. Len(log[CellKey[c]])
      <4>1. CellKey[c] = K /\ i = Len(log[K]) + 1
        BY <2>1, <2>3, <3>1, <3>3
      <4> QED BY <2>1, <3>1, <4>1
    <3> QED BY <3>2, <3>3
  <2> QED BY <1>7, <2>2, <2>3 DEF IndexFresh
<1>8. ASSUME NEW w \in Threads, ProbeAnswers(w) PROVE IndexFresh'
  BY <1>7, <1>8 DEF ProbeAnswers, runVars
<1>9. ASSUME NEW w \in Threads, ExecExits(w) PROVE IndexFresh'
  BY <1>7, <1>9 DEF ExecExits
<1>10. ASSUME NEW r \in Runs, NEW t \in Clients, PassAcquire(r, t) \/ PassRelease(r, t)
       PROVE  UNCHANGED <<log, loaded, phase, index, route>>
  BY <1>10 DEF PassAcquire, PassRelease
<1>11. ASSUME NEW w \in Threads, NEW k \in Keys, Pop(w, k) \/ PassOverQueue(w, k)
       PROVE  UNCHANGED <<log, loaded, phase, index, route>>
  BY <1>11 DEF Pop, PassOverQueue, runVars
<1>12. ASSUME NEW w \in Threads,
              ProbeFails(w) \/ WriteFails(w) \/ Acquire(w) \/ ExecErrs(w) \/ ResultLost(w)
              \/ WaitProbe(w) \/ GiveUp(w) \/ RejoinSync(w)
       PROVE  UNCHANGED <<log, loaded, phase, index, route>>
  BY <1>12 DEF ProbeFails, WriteFails, runVars, Acquire, ExecErrs, ResultLost, WaitProbe,
     GiveUp, RejoinSync
<1>13. CASE UNCHANGED vars
  BY <1>1, <1>13 DEF vars, runVars
<1> QED
  BY <1>1, <1>2, <1>3, <1>4, <1>5, <1>6, <1>8, <1>9, <1>10, <1>11, <1>12, <1>13, StepCases

\* A done cell stays out.
LEMMA NotDoneStep ==
    ASSUME TypeOK, HandOK, Fresh, Owed, Sharded, Loaded, NotDone, [Next]_vars
    PROVE  NotDone'
<1>1. ASSUME log' = log,
             \A s \in Runs : opts'[s].done \/ route'[s] \cup owed'[s] = {} \/
                /\ opts'[s] = opts[s] /\ loaded'[s] = loaded[s]
                /\ route'[s] \cup owed'[s] \subseteq route[s] \cup owed[s]
      PROVE  NotDone'
  BY <1>1, SameFile DEF NotDone
<1>2. ASSUME NEW r \in Runs, Launch(r) PROVE NotDone'
  <2>1. PICK o \in Options :
          /\ opts' = [opts EXCEPT ![r] = o]
          /\ route' = [route EXCEPT ![r] = Limited(Selected(r, StateIndex, o), o.limit)]
    BY <1>2 DEF Launch
  <2>2. /\ UNCHANGED <<owed, log>> /\ phase[r] = "off"
        /\ loaded' = [loaded EXCEPT ![r] = [k \in CellKeys |-> Len(log[k])]]
    BY <1>2 DEF Launch
  <2>3. opts'[r] = o /\ owed[r] = {}
        /\ route'[r] = Limited(Selected(r, StateIndex, o), o.limit)
    BY <2>1, <2>2 DEF TypeOK, InvocationsOK, Fresh
  <2>4. \A s \in Runs : s # r =>
          opts'[s] = opts[s] /\ route'[s] = route[s] /\ loaded'[s] = loaded[s]
    BY <2>1, <2>2 DEF TypeOK, InvocationsOK
  <2>5. ASSUME NEW c \in route'[r], ~ o.done, NEW i \in 1 .. Len(log[CellKey[c]])
        PROVE  log[CellKey[c]][i].status # "success"
    <3>1. c \in Cells /\ Wanted(StateIndex[CellKey[c]], o) /\ CellKey[c] \in CellKeys
      BY <2>3, <2>5, KeyAssumption DEF Limited, Selected
    <3>2. CellState(log[CellKey[c]]) # "done"
      BY <2>5, <3>1 DEF Wanted, StateIndex
    <3>3. DOMAIN log[CellKey[c]] = 1 .. Len(log[CellKey[c]])
      BY <3>1, LenProperties DEF TypeOK, FileOK
    <3> QED BY <2>5, <3>2, <3>3 DEF CellState
  <2>6. ASSUME NEW c \in route'[r], ~ o.done, NEW i \in Known(r, c)'
        PROVE  log'[CellKey[c]][i].status # "success"
    BY <2>2, <2>5, <2>6 DEF Known
  <2>7. ASSUME NEW s \in Runs, s # r, ~ opts[s].done, NEW c \in route[s] \cup owed[s],
               NEW i \in Known(s, c)'
        PROVE  log'[CellKey[c]][i].status # "success"
    BY <2>2, <2>4, <2>7, SameFile DEF NotDone
  <2> QED BY <2>2, <2>3, <2>4, <2>6, <2>7 DEF NotDone
<1>3. ASSUME NEW r \in Runs, Gone(r) PROVE NotDone'
  <2>1. /\ log' = log /\ route'[r] \cup owed'[r] = {}
        /\ \A s \in Runs : s # r => /\ opts'[s] = opts[s] /\ loaded'[s] = loaded[s]
                                   /\ route'[s] = route[s] /\ owed'[s] = owed[s]
    BY <1>3, GoneFacts
  <2> QED BY <1>1, <2>1
<1>4. ASSUME NEW r \in Runs, RouteNext(r) PROVE NotDone'
  <2>1. PICK c \in route[r] :
          /\ route' = [route EXCEPT ![r] = @ \ {c}]
          /\ UNCHANGED owed \/ owed' = [owed EXCEPT ![r] = @ \cup {c}]
    BY <1>4 DEF RouteNext
  <2>2. UNCHANGED <<opts, log, loaded>>
    BY <1>4 DEF RouteNext
  <2>3. \A s \in Runs : route'[s] \cup owed'[s] \subseteq route[s] \cup owed[s]
    BY <2>1 DEF TypeOK, InvocationsOK
  <2> QED BY <1>1, <2>2, <2>3
<1>5. ASSUME NEW w \in Threads, ProbeAnswers(w) PROVE NotDone'
  <2>1. /\ pc[w] \in {"probe", "exec"} /\ Record(cell[w], "started", w)
        /\ UNCHANGED <<opts, route, owed, loaded>>
    BY <1>5 DEF ProbeAnswers, runVars
  <2>2. ASSUME NEW s \in Runs, ~ opts[s].done, NEW c \in route[s] \cup owed[s],
               NEW i \in Known(s, c)'
        PROVE  log'[CellKey[c]][i].status # "success"
    <3>1. c \in Cells
      BY <2>2 DEF TypeOK, InvocationsOK
    <3>2. CASE c = cell[w]
      BY <2>1, <2>2, <3>2, RecordHere DEF NotDone
    <3>3. CASE c # cell[w]
      BY <2>1, <2>2, <3>1, <3>3, RecordElsewhere DEF NotDone
    <3> QED BY <3>2, <3>3
  <2> QED BY <2>1, <2>2 DEF NotDone
<1>6. ASSUME NEW w \in Threads, ExecExits(w) PROVE NotDone'
  <2>1. PICK status \in {"success", "failed"} : Record(cell[w], status, w)
    BY <1>6 DEF ExecExits
  <2>2. /\ pc[w] \in {"probe", "exec"} /\ UNCHANGED <<opts, route, loaded>>
        /\ owed' = [owed EXCEPT ![RunOf[w]] = @ \ {cell[w]}]
    BY <1>6 DEF ExecExits
  <2>3. ASSUME NEW s \in Runs, NEW c \in route'[s] \cup owed'[s]
        PROVE  c \in route[s] \cup owed[s] /\ c # cell[w] /\ c \in Cells
    <3>1. CASE s = RunOf[w]
      BY <2>2, <2>3, <3>1, WritersOwn DEF TypeOK, InvocationsOK
    <3>2. CASE s # RunOf[w]
      BY <2>2, <2>3, <3>2, WritersOwn DEF TypeOK, InvocationsOK
    <3> QED BY <3>1, <3>2
  <2>4. ASSUME NEW s \in Runs, ~ opts[s].done, NEW c \in route'[s] \cup owed'[s],
               NEW i \in Known(s, c)'
        PROVE  log'[CellKey[c]][i].status # "success"
    <3>1. c \in route[s] \cup owed[s] /\ c # cell[w] /\ c \in Cells
      BY <2>3, <2>4
    <3> QED BY <2>1, <2>2, <2>4, <3>1, RecordElsewhere DEF NotDone
  <2> QED BY <2>2, <2>4 DEF NotDone
<1>7. ASSUME NEW w \in Threads, WriteFails(w) \/ ResultLost(w) PROVE NotDone'
  <2>1. /\ UNCHANGED <<log, opts, loaded, route>>
        /\ owed' = [owed EXCEPT ![RunOf[w]] = @ \ {cell[w]}]
    BY <1>7 DEF WriteFails, ResultLost, runVars
  <2>2. \A s \in Runs : owed'[s] \subseteq owed[s]
    BY <2>1 DEF TypeOK, InvocationsOK
  <2> QED BY <1>1, <2>1, <2>2
<1>8. ASSUME NEW r \in Runs, FirstPass(r) \/ StartCells(r) \/ EndCells(r)
      PROVE  UNCHANGED <<log, opts, loaded, route, owed>>
  BY <1>8 DEF FirstPass, StartCells, EndCells
<1>9. ASSUME NEW r \in Runs, NEW t \in Clients, PassAcquire(r, t) \/ PassRelease(r, t)
      PROVE  UNCHANGED <<log, opts, loaded, route, owed>>
  BY <1>9 DEF PassAcquire, PassRelease
<1>10. ASSUME NEW w \in Threads, NEW k \in Keys, Pop(w, k) \/ PassOverQueue(w, k)
       PROVE  UNCHANGED <<log, opts, loaded, route, owed>>
  BY <1>10 DEF Pop, PassOverQueue, runVars
<1>11. ASSUME NEW w \in Threads,
              ProbeFails(w) \/ Acquire(w) \/ ExecErrs(w) \/ WaitProbe(w) \/ GiveUp(w)
              \/ RejoinSync(w)
       PROVE  UNCHANGED <<log, opts, loaded, route, owed>>
  BY <1>11 DEF ProbeFails, Acquire, ExecErrs, WaitProbe, runVars, GiveUp, RejoinSync
<1>12. ASSUME UNCHANGED <<log, opts, loaded, route, owed>> PROVE NotDone'
  BY <1>1, <1>12
<1>13. CASE UNCHANGED vars
  BY <1>12, <1>13 DEF vars, runVars
<1> QED
  BY <1>2, <1>3, <1>4, <1>5, <1>6, <1>7, <1>8, <1>9, <1>10, <1>11, <1>12, <1>13, StepCases

\* A cell that is owed is somewhere, and nothing else is.
LEMMA OwedStep ==
    ASSUME TypeOK, HandOK, Fresh, Owed, Once, [Next]_vars
    PROVE  Owed'
<1>1. ASSUME UNCHANGED <<queue, cell, owed>> PROVE Owed'
  BY <1>1 DEF TypeOK, InvocationsOK, QueuesOK, ThreadsOK, Owed
<1>2. ASSUME NEW r \in Runs, Gone(r) PROVE Owed'
  <2>1. ASSUME NEW s \in Runs, s # r
        PROVE  owed'[s] = owed[s] /\ \A k \in Keys : queue'[s][k] = queue[s][k]
    BY <1>2, <2>1, GoneFacts
  <2>2. owed'[r] = {} /\ \A k \in Keys : Elements(queue'[r][k]) = {}
    BY <1>2, GoneFacts, NoElements
  <2>3. \A w \in Threads : cell'[w] = IF RunOf[w] = r THEN 0 ELSE cell[w]
    BY <1>2, GoneFacts
  <2>4. \A s \in Runs, k \in Keys : Elements(queue'[s][k]) \subseteq owed'[s]
    BY <2>1, <2>2 DEF Owed
  <2>5. \A w \in Threads : cell'[w] # 0 => cell'[w] \in owed'[RunOf[w]]
    BY <2>1, <2>3, CrewAssumption DEF Owed
  <2>6. \A s \in Runs : \A c \in owed'[s] :
          \/ \E k \in Keys : c \in Elements(queue'[s][k])
          \/ \E w \in Threads : RunOf[w] = s /\ cell'[w] = c
    BY <2>1, <2>2, <2>3 DEF Owed
  <2> QED BY <2>4, <2>5, <2>6 DEF Owed
<1>3. ASSUME NEW r \in Runs, RouteNext(r) PROVE Owed'
  <2>1. PICK c \in route[r] :
          \/ UNCHANGED <<queue, owed>>
          \/ /\ RouteCell(r, c) # NoRoute
             /\ queue' = [queue EXCEPT ![r][RouteCell(r, c)] = Append(@, c)]
             /\ owed' = [owed EXCEPT ![r] = @ \cup {c}]
    BY <1>3 DEF RouteNext
  <2>2. c \in Cells /\ UNCHANGED cell
    BY <1>3 DEF RouteNext, threadVars, TypeOK, InvocationsOK
  <2>3. CASE UNCHANGED <<queue, owed>>
    BY <2>2, <2>3 DEF Owed
  <2>4. ASSUME NEW k, k = RouteCell(r, c), k # NoRoute,
               queue' = [queue EXCEPT ![r][k] = Append(@, c)],
               owed' = [owed EXCEPT ![r] = @ \cup {c}]
        PROVE  Owed'
    <3>1. k \in Keys /\ QueuesOK
      BY <2>2, <2>4, RouteKey DEF TypeOK
    <3>2. owed'[r] = owed[r] \cup {c} /\ \A s \in Runs : s # r => owed'[s] = owed[s]
      BY <2>4 DEF TypeOK, InvocationsOK
    <3>3. /\ \A s \in Runs, l \in Keys : s # r \/ l # k => queue'[s][l] = queue[s][l]
          /\ Elements(queue'[r][k]) = Elements(queue[r][k]) \cup {c}
      <4>1. queue' = [queue EXCEPT ![r][k] = Append(@, c)]
        BY <2>4
      <4> QED BY <2>2, <3>1, <4>1, QueueAppend
    <3>4. \A s \in Runs, l \in Keys :
            /\ Elements(queue'[s][l]) \subseteq owed'[s]
            /\ Elements(queue[s][l]) \subseteq Elements(queue'[s][l])
      BY <3>1, <3>2, <3>3 DEF Owed
    <3>5. \A s \in Runs : owed[s] \subseteq owed'[s]
      BY <3>2
    <3>6. ASSUME NEW s \in Runs, NEW d \in owed'[s]
          PROVE  \/ \E l \in Keys : d \in Elements(queue'[s][l])
                 \/ \E w \in Threads : RunOf[w] = s /\ cell[w] = d
      <4>1. CASE d \in owed[s]
        BY <3>4, <4>1 DEF Owed
      <4>2. CASE s = r /\ d = c
        BY <3>1, <3>3, <4>2
      <4> QED BY <3>2, <3>6, <4>1, <4>2
    <3> QED BY <2>2, <3>4, <3>5, <3>6, CrewAssumption DEF Owed
  <2> QED BY <2>1, <2>3, <2>4
<1>4. ASSUME NEW w \in Threads, NEW k \in Keys, Pop(w, k) PROVE Owed'
  <2>1. PICK r \in Runs : r = RunOf[w]
    BY CrewAssumption
  <2>2. PICK c \in Cells : c = Head(queue[r][k])
    BY <1>4, <2>1, QueueTail DEF Pop, TypeOK
  <2>3. /\ \A s \in Runs, l \in Keys : s # r \/ l # k => queue'[s][l] = queue[s][l]
        /\ c \in Elements(queue[r][k]) /\ c # 0
        /\ Elements(queue'[r][k]) = Elements(queue[r][k]) \ {c}
    BY <1>4, <2>1, <2>2, QueueTail DEF Pop, TypeOK, Once
  <2>4. /\ cell'[w] = c /\ cell[w] = 0 /\ UNCHANGED owed
        /\ \A x \in Threads : x # w => cell'[x] = cell[x]
    BY <1>4, <2>1, <2>2 DEF Pop, Looks, TypeOK, ThreadsOK, HandOK
  <2>5. \A s \in Runs, l \in Keys : Elements(queue'[s][l]) \subseteq Elements(queue[s][l])
    BY <2>3
  <2>6. \A x \in Threads : cell'[x] # 0 => cell'[x] \in owed[RunOf[x]]
    BY <2>1, <2>3, <2>4 DEF Owed
  <2>7. ASSUME NEW s \in Runs, NEW d \in owed[s]
        PROVE  \/ \E l \in Keys : d \in Elements(queue'[s][l])
               \/ \E x \in Threads : RunOf[x] = s /\ cell'[x] = d
    <3>1. CASE s = r /\ d = c
      BY <2>1, <2>4, <3>1
    <3>2. ASSUME NEW l \in Keys, d \in Elements(queue[s][l]), s # r \/ d # c
          PROVE  d \in Elements(queue'[s][l])
      BY <2>3, <3>2
    <3>3. ASSUME NEW x \in Threads, RunOf[x] = s, cell[x] = d PROVE cell'[x] = d
      <4>1. d # 0
        BY <2>7 DEF TypeOK, InvocationsOK, Cells
      <4> QED BY <2>4, <3>3, <4>1
    <3> QED BY <2>7, <3>1, <3>2, <3>3 DEF Owed
  <2> QED BY <2>4, <2>5, <2>6, <2>7 DEF Owed
<1>5. ASSUME NEW w \in Threads, ProbeFails(w) PROVE Owed'
  <2>1. PICK k \in Keys : queue' = [queue EXCEPT ![RunOf[w]][k] = Append(@, cell[w])]
    BY <1>5, CrewAssumption DEF ProbeFails, GiveBack, TypeOK, ThreadsOK, Keys
  <2>2. PICK r \in Runs, c \in Cells : r = RunOf[w] /\ c = cell[w]
    BY <1>5, CrewAssumption DEF ProbeFails, TypeOK, ThreadsOK, HandOK
  <2>3. /\ cell'[w] = 0 /\ UNCHANGED owed
        /\ \A x \in Threads : x # w => cell'[x] = cell[x]
    BY <1>5 DEF ProbeFails, GiveBack, Drop, TypeOK, ThreadsOK
  <2>4. /\ \A s \in Runs, l \in Keys : s # r \/ l # k => queue'[s][l] = queue[s][l]
        /\ Elements(queue'[r][k]) = Elements(queue[r][k]) \cup {c}
    BY ZenonT(40), <2>1, <2>2, QueueAppend DEF TypeOK
  <2>5. c \in owed[r]
    BY <1>5, <2>2 DEF ProbeFails, HandOK, Owed
  <2>6. \A s \in Runs, l \in Keys : /\ Elements(queue'[s][l]) \subseteq owed[s]
                                    /\ Elements(queue[s][l]) \subseteq Elements(queue'[s][l])
    BY <2>4, <2>5 DEF Owed
  <2>7. ASSUME NEW s \in Runs, NEW d \in owed[s]
        PROVE  \/ \E l \in Keys : d \in Elements(queue'[s][l])
               \/ \E x \in Threads : RunOf[x] = s /\ cell'[x] = d
    <3>1. CASE s = r /\ d = c
      BY <2>4, <3>1
    <3>2. CASE \E l \in Keys : d \in Elements(queue[s][l])
      BY <2>6, <3>2
    <3>3. CASE \E x \in Threads : x # w /\ RunOf[x] = s /\ cell[x] = d
      BY <2>3, <3>3
    <3> QED BY <2>2, <2>7, <3>1, <3>2, <3>3 DEF Owed
  <2> QED BY <2>3, <2>6, <2>7 DEF Owed
<1>6. ASSUME NEW w \in Threads, WriteFails(w) PROVE Owed'
  <2>1. /\ owed' = [owed EXCEPT ![RunOf[w]] = @ \ {cell[w]}] /\ UNCHANGED queue
        /\ cell'[w] = 0 /\ \A x \in Threads : x # w => cell'[x] = cell[x]
    BY <1>6 DEF WriteFails, Drop, runVars, TypeOK, ThreadsOK
  <2>2. PICK r \in Runs, c \in Cells : r = RunOf[w] /\ c = cell[w] /\ c # 0
    <3>1. pc[w] \in {"probe", "exec"}
      BY <1>6 DEF WriteFails
    <3> QED BY <3>1, CrewAssumption DEF TypeOK, ThreadsOK, HandOK
  <2>3. owed'[r] = owed[r] \ {c} /\ \A s \in Runs : s # r => owed'[s] = owed[s]
    BY <2>1, <2>2 DEF TypeOK, InvocationsOK
  <2>4. \A s \in Runs, l \in Keys : Elements(queue[s][l]) \subseteq owed'[s]
    BY <2>2, <2>3 DEF Owed, Once
  <2>5. ASSUME NEW x \in Threads, cell'[x] # 0 PROVE cell'[x] \in owed'[RunOf[x]]
    BY <2>1, <2>2, <2>3, <2>5, CrewAssumption DEF Owed, Once
  <2>6. ASSUME NEW s \in Runs, NEW d \in owed'[s]
        PROVE  \/ \E l \in Keys : d \in Elements(queue[s][l])
               \/ \E x \in Threads : RunOf[x] = s /\ cell'[x] = d
    <3>1. d \in owed[s] /\ ~ (s = r /\ d = c)
      BY <2>3, <2>6
    <3>2. ASSUME NEW x \in Threads, RunOf[x] = s, cell[x] = d PROVE cell'[x] = d
      BY <2>1, <2>2, <3>1, <3>2
    <3> QED BY <3>1, <3>2 DEF Owed
  <2> QED BY <2>1, <2>4, <2>5, <2>6 DEF Owed
<1>7. ASSUME NEW w \in Threads, ExecErrs(w) PROVE Owed'
  <2>1. PICK k \in Keys : queue' = [queue EXCEPT ![RunOf[w]][k] = Append(@, cell[w])]
    BY ZenonT(40), <1>7, CrewAssumption DEF ExecErrs, GiveBack, TypeOK, ThreadsOK, Keys
  <2>2. PICK r \in Runs, c \in Cells : r = RunOf[w] /\ c = cell[w]
    BY <1>7, CrewAssumption DEF ExecErrs, TypeOK, ThreadsOK, HandOK
  <2>3. /\ cell'[w] = 0 /\ UNCHANGED owed
        /\ \A x \in Threads : x # w => cell'[x] = cell[x]
    BY <1>7 DEF ExecErrs, GiveBack, Drop, TypeOK, ThreadsOK
  <2>4. /\ \A s \in Runs, l \in Keys : s # r \/ l # k => queue'[s][l] = queue[s][l]
        /\ Elements(queue'[r][k]) = Elements(queue[r][k]) \cup {c}
    BY ZenonT(40), <2>1, <2>2, QueueAppend DEF TypeOK
  <2>5. c \in owed[r]
    BY <1>7, <2>2 DEF ExecErrs, HandOK, Owed
  <2>6. \A s \in Runs, l \in Keys : /\ Elements(queue'[s][l]) \subseteq owed[s]
                                    /\ Elements(queue[s][l]) \subseteq Elements(queue'[s][l])
    BY <2>4, <2>5 DEF Owed
  <2>7. ASSUME NEW s \in Runs, NEW d \in owed[s]
        PROVE  \/ \E l \in Keys : d \in Elements(queue'[s][l])
               \/ \E x \in Threads : RunOf[x] = s /\ cell'[x] = d
    <3>1. CASE s = r /\ d = c
      BY <2>4, <3>1
    <3>2. CASE \E l \in Keys : d \in Elements(queue[s][l])
      BY <2>6, <3>2
    <3>3. CASE \E x \in Threads : x # w /\ RunOf[x] = s /\ cell[x] = d
      BY <2>3, <3>3
    <3> QED BY <2>2, <2>7, <3>1, <3>2, <3>3 DEF Owed
  <2> QED BY <2>3, <2>6, <2>7 DEF Owed
<1>8. ASSUME NEW w \in Threads, ExecExits(w) PROVE Owed'
  <2>1. /\ owed' = [owed EXCEPT ![RunOf[w]] = @ \ {cell[w]}] /\ UNCHANGED queue
        /\ cell'[w] = 0 /\ \A x \in Threads : x # w => cell'[x] = cell[x]
    BY <1>8 DEF ExecExits, Drop, runVars, TypeOK, ThreadsOK
  <2>2. PICK r \in Runs, c \in Cells : r = RunOf[w] /\ c = cell[w] /\ c # 0
    <3>1. pc[w] \in {"probe", "exec"}
      BY <1>8 DEF ExecExits
    <3> QED BY <3>1, CrewAssumption DEF TypeOK, ThreadsOK, HandOK
  <2>3. owed'[r] = owed[r] \ {c} /\ \A s \in Runs : s # r => owed'[s] = owed[s]
    BY <2>1, <2>2 DEF TypeOK, InvocationsOK
  <2>4. \A s \in Runs, l \in Keys : Elements(queue[s][l]) \subseteq owed'[s]
    BY <2>2, <2>3 DEF Owed, Once
  <2>5. ASSUME NEW x \in Threads, cell'[x] # 0 PROVE cell'[x] \in owed'[RunOf[x]]
    BY <2>1, <2>2, <2>3, <2>5, CrewAssumption DEF Owed, Once
  <2>6. ASSUME NEW s \in Runs, NEW d \in owed'[s]
        PROVE  \/ \E l \in Keys : d \in Elements(queue[s][l])
               \/ \E x \in Threads : RunOf[x] = s /\ cell'[x] = d
    <3>1. d \in owed[s] /\ ~ (s = r /\ d = c)
      BY <2>3, <2>6
    <3>2. ASSUME NEW x \in Threads, RunOf[x] = s, cell[x] = d PROVE cell'[x] = d
      BY <2>1, <2>2, <3>1, <3>2
    <3> QED BY <3>1, <3>2 DEF Owed
  <2> QED BY <2>1, <2>4, <2>5, <2>6 DEF Owed
<1>9. ASSUME NEW w \in Threads, ResultLost(w) PROVE Owed'
  <2>1. /\ owed' = [owed EXCEPT ![RunOf[w]] = @ \ {cell[w]}] /\ UNCHANGED queue
        /\ cell'[w] = 0 /\ \A x \in Threads : x # w => cell'[x] = cell[x]
    BY <1>9 DEF ResultLost, Drop, runVars, TypeOK, ThreadsOK
  <2>2. PICK r \in Runs, c \in Cells : r = RunOf[w] /\ c = cell[w] /\ c # 0
    <3>1. pc[w] \in {"probe", "exec"}
      BY <1>9 DEF ResultLost
    <3> QED BY <3>1, CrewAssumption DEF TypeOK, ThreadsOK, HandOK
  <2>3. owed'[r] = owed[r] \ {c} /\ \A s \in Runs : s # r => owed'[s] = owed[s]
    BY <2>1, <2>2 DEF TypeOK, InvocationsOK
  <2>4. \A s \in Runs, l \in Keys : Elements(queue[s][l]) \subseteq owed'[s]
    BY <2>2, <2>3 DEF Owed, Once
  <2>5. ASSUME NEW x \in Threads, cell'[x] # 0 PROVE cell'[x] \in owed'[RunOf[x]]
    BY <2>1, <2>2, <2>3, <2>5, CrewAssumption DEF Owed, Once
  <2>6. ASSUME NEW s \in Runs, NEW d \in owed'[s]
        PROVE  \/ \E l \in Keys : d \in Elements(queue[s][l])
               \/ \E x \in Threads : RunOf[x] = s /\ cell'[x] = d
    <3>1. d \in owed[s] /\ ~ (s = r /\ d = c)
      BY <2>3, <2>6
    <3>2. ASSUME NEW x \in Threads, RunOf[x] = s, cell[x] = d PROVE cell'[x] = d
      BY <2>1, <2>2, <3>1, <3>2
    <3> QED BY <3>1, <3>2 DEF Owed
  <2> QED BY <2>1, <2>4, <2>5, <2>6 DEF Owed
<1>10. ASSUME NEW r \in Runs, Launch(r) \/ FirstPass(r) \/ StartCells(r) \/
   EndCells(r) PROVE UNCHANGED <<queue, cell, owed>>
  BY <1>10 DEF Launch, threadVars, FirstPass, StartPass, StartCells, EndCells
<1>11. ASSUME NEW r \in Runs, NEW t \in Clients, PassAcquire(r, t) \/ PassRelease(r,
   t) PROVE UNCHANGED <<queue, cell, owed>>
  BY <1>11 DEF PassAcquire, threadVars, PassRelease
<1>12. ASSUME NEW w \in Threads, NEW k \in Keys, PassOverQueue(w, k) PROVE UNCHANGED
   <<queue, cell, owed>>
  BY <1>12 DEF PassOverQueue, Looks, runVars
<1>13. ASSUME NEW w \in Threads, ProbeAnswers(w) \/ Acquire(w) \/ WaitProbe(w) \/
   GiveUp(w) \/ RejoinSync(w) PROVE UNCHANGED <<queue, cell, owed>>
  BY <1>13 DEF ProbeAnswers, Record, runVars, Acquire, WaitProbe, Fault, GiveUp,
     RejoinSync, Release
<1>14. CASE UNCHANGED vars
  BY <1>1, <1>14 DEF vars, runVars, threadVars
<1> QED
  BY <1>1, <1>2, <1>3, <1>4, <1>5, <1>6, <1>7, <1>8, <1>9, <1>10, <1>11, <1>12,
     <1>13, <1>14, StepCases

\* And it is in one place only.
LEMMA OnceStep ==
    ASSUME TypeOK, HandOK, Fresh, Owed, Once, [Next]_vars
    PROVE  Once'
<1>1. ASSUME UNCHANGED <<queue, cell>> PROVE Once'
  BY <1>1 DEF TypeOK, InvocationsOK, QueuesOK, ThreadsOK, Owed, Once
<1>2. ASSUME NEW r \in Runs, Gone(r) PROVE Once'
  <2>1. ASSUME NEW s \in Runs, s # r PROVE \A k \in Keys : queue'[s][k] = queue[s][k]
    BY <1>2, <2>1, GoneFacts
  <2>2. \A k \in Keys : Elements(queue'[r][k]) = {} /\ NoRepeat(queue'[r][k])
    BY <1>2, GoneFacts, NoElements
  <2>3. \A w \in Threads : cell'[w] = IF RunOf[w] = r THEN 0 ELSE cell[w]
    BY <1>2, GoneFacts
  <2>4. \A s \in Runs, k \in Keys : NoRepeat(queue'[s][k])
    BY <2>1, <2>2 DEF Once
  <2>5. \A s \in Runs, k, l \in Keys :
          k # l => Elements(queue'[s][k]) \cap Elements(queue'[s][l]) = {}
    BY <2>1, <2>2 DEF Once
  <2>6. \A v, w \in Threads :
          RunOf[v] = RunOf[w] /\ cell'[v] = cell'[w] /\ cell'[v] # 0 => v = w
    BY <2>3 DEF Once
  <2>7. \A w \in Threads, k \in Keys : cell'[w] \notin Elements(queue'[RunOf[w]][k])
    BY ZenonT(40), <2>1, <2>2, <2>3, CrewAssumption DEF Once
  <2> QED BY <2>4, <2>5, <2>6, <2>7 DEF Once
<1>3. ASSUME NEW r \in Runs, RouteNext(r) PROVE Once'
  <2>1. PICK c \in route[r] :
          \/ UNCHANGED queue
          \/ /\ RouteCell(r, c) # NoRoute
             /\ queue' = [queue EXCEPT ![r][RouteCell(r, c)] = Append(@, c)]
    BY <1>3 DEF RouteNext
  <2>2. c \in Cells /\ c # 0 /\ UNCHANGED cell /\ c \notin owed[r]
    BY <1>3 DEF RouteNext, threadVars, TypeOK, InvocationsOK, Fresh, Cells
  <2>3. CASE UNCHANGED queue
    BY <2>2, <2>3 DEF Once
  <2>4. ASSUME NEW k, k = RouteCell(r, c), k # NoRoute,
               queue' = [queue EXCEPT ![r][k] = Append(@, c)]
        PROVE  Once'
    <3>1. k \in Keys /\ QueuesOK
      BY <2>2, <2>4, RouteKey DEF TypeOK
    <3>2. \A l \in Keys : c \notin Elements(queue[r][l])
      BY <2>2 DEF Owed
    <3>3. /\ \A s \in Runs, l \in Keys : s # r \/ l # k => queue'[s][l] = queue[s][l]
          /\ Elements(queue'[r][k]) = Elements(queue[r][k]) \cup {c}
          /\ NoRepeat(queue'[r][k])
      <4>1. queue' = [queue EXCEPT ![r][k] = Append(@, c)] /\ NoRepeat(queue[r][k])
        BY <2>4, <3>1 DEF Once
      <4> QED BY ZenonT(40), <2>2, <3>1, <3>2, <4>1, QueueAppend
    <3>4. \A s \in Runs, l \in Keys : NoRepeat(queue'[s][l])
      BY <3>3 DEF Once
    <3>5. \A s \in Runs, l, m \in Keys :
            l # m => Elements(queue'[s][l]) \cap Elements(queue'[s][m]) = {}
      BY <3>2, <3>3 DEF Once
    <3>6. \A w \in Threads, l \in Keys : cell[w] \notin Elements(queue'[RunOf[w]][l])
      BY <2>2, <3>3, CrewAssumption DEF Once, Owed
    <3> QED BY <2>2, <3>4, <3>5, <3>6 DEF Once
  <2> QED BY <2>1, <2>3, <2>4
<1>4. ASSUME NEW w \in Threads, NEW k \in Keys, Pop(w, k) PROVE Once'
  <2>1. PICK r \in Runs : r = RunOf[w]
    BY CrewAssumption
  <2>2. PICK c \in Cells : c = Head(queue[r][k])
    BY <1>4, <2>1, QueueTail DEF Pop, TypeOK
  <2>3. /\ \A s \in Runs, l \in Keys : s # r \/ l # k => queue'[s][l] = queue[s][l]
        /\ c \in Elements(queue[r][k]) /\ c # 0
        /\ Elements(queue'[r][k]) = Elements(queue[r][k]) \ {c}
        /\ NoRepeat(queue'[r][k])
    BY <1>4, <2>1, <2>2, QueueTail DEF Pop, TypeOK, Once
  <2>4. cell'[w] = c /\ \A x \in Threads : x # w => cell'[x] = cell[x]
    BY <1>4, <2>1, <2>2 DEF Pop, TypeOK, ThreadsOK
  <2>5. \A s \in Runs, l \in Keys : /\ NoRepeat(queue'[s][l])
                                    /\ Elements(queue'[s][l]) \subseteq Elements(queue[s][l])
    BY <2>3 DEF Once
  <2>6. \A s \in Runs, l, m \in Keys :
          l # m => Elements(queue'[s][l]) \cap Elements(queue'[s][m]) = {}
    BY <2>5 DEF Once
  <2>7. \A x \in Threads : RunOf[x] = r => cell[x] # c
    BY <2>1, <2>3 DEF Once
  <2>8. \A l \in Keys : c \notin Elements(queue'[r][l])
    BY <2>3 DEF Once
  <2>9. \A x \in Threads, l \in Keys : cell'[x] \notin Elements(queue'[RunOf[x]][l])
    BY <2>1, <2>4, <2>5, <2>8, CrewAssumption DEF Once
  <2>10. \A v, x \in Threads :
          RunOf[v] = RunOf[x] /\ cell'[v] = cell'[x] /\ cell'[v] # 0 => v = x
    BY <2>1, <2>4, <2>7 DEF Once
  <2> QED BY <2>5, <2>6, <2>9, <2>10 DEF Once
<1>5. ASSUME NEW w \in Threads, ProbeFails(w) PROVE Once'
  <2>1. PICK k \in Keys : queue' = [queue EXCEPT ![RunOf[w]][k] = Append(@, cell[w])]
    BY <1>5, CrewAssumption DEF ProbeFails, GiveBack, TypeOK, ThreadsOK, Keys
  <2>2. PICK r \in Runs, c \in Cells : r = RunOf[w] /\ c = cell[w] /\ c # 0
    BY <1>5, CrewAssumption DEF ProbeFails, TypeOK, ThreadsOK, HandOK
  <2>3. cell'[w] = 0 /\ \A x \in Threads : x # w => cell'[x] = cell[x]
    BY <1>5 DEF ProbeFails, GiveBack, Drop, TypeOK, ThreadsOK
  <2>4. \A l \in Keys : c \notin Elements(queue[r][l])
    BY <2>2 DEF Once
  <2>5. /\ \A s \in Runs, l \in Keys : s # r \/ l # k => queue'[s][l] = queue[s][l]
        /\ Elements(queue'[r][k]) = Elements(queue[r][k]) \cup {c}
        /\ NoRepeat(queue'[r][k])
        /\ queue' \in [Runs -> [Keys -> Seq(Cells)]]
    <3>1. queue' = [queue EXCEPT ![r][k] = Append(@, c)] /\ NoRepeat(queue[r][k]) /\ QueuesOK
      BY <2>1, <2>2 DEF Once, TypeOK
    <3> QED BY ZenonT(40), <2>4, <3>1, QueueAppend
  <2>6. \A s \in Runs, l \in Keys : NoRepeat(queue'[s][l])
    BY <2>5 DEF Once
  <2>7. ASSUME NEW s \in Runs, NEW l \in Keys, NEW m \in Keys, l # m
        PROVE  Elements(queue'[s][l]) \cap Elements(queue'[s][m]) = {}
    <3>1. Elements(queue[s][l]) \cap Elements(queue[s][m]) = {}
      BY <2>7 DEF Once
    <3> QED BY ZenonT(40), <2>4, <2>5, <2>7, <3>1
  <2>8. \A l \in Keys : 0 \notin Elements(queue'[r][l])
    BY <2>5, ElementsAreCells
  <2>9. \A x \in Threads : x # w /\ RunOf[x] = r => cell[x] # c
    BY <2>2 DEF Once
  <2>10. \A x \in Threads, l \in Keys : cell'[x] \notin Elements(queue'[RunOf[x]][l])
    <3>1. \A l \in Keys : cell'[w] \notin Elements(queue'[RunOf[w]][l])
      BY <2>2, <2>3, <2>8
    <3>2. ASSUME NEW x \in Threads, x # w, NEW l \in Keys
          PROVE  cell[x] \notin Elements(queue'[RunOf[x]][l])
      BY ZenonT(40), <2>5, <2>9, <3>2, CrewAssumption DEF Once
    <3> QED BY <2>3, <3>1, <3>2
  <2>11. \A v, x \in Threads :
          RunOf[v] = RunOf[x] /\ cell'[v] = cell'[x] /\ cell'[v] # 0 => v = x
    BY <2>3 DEF Once
  <2> QED BY <2>6, <2>7, <2>10, <2>11 DEF Once
<1>6. ASSUME NEW w \in Threads, WriteFails(w) PROVE Once'
  <2>1. /\ UNCHANGED queue
        /\ cell'[w] = 0 /\ \A x \in Threads : x # w => cell'[x] = cell[x]
    BY <1>6 DEF WriteFails, Drop, runVars, TypeOK, ThreadsOK
  <2>2. \A s \in Runs, l \in Keys : 0 \notin Elements(queue[s][l])
    BY ElementsAreCells DEF TypeOK, QueuesOK
  <2> QED BY <2>1, <2>2, CrewAssumption DEF Once
<1>7. ASSUME NEW w \in Threads, ExecErrs(w) PROVE Once'
  <2>1. PICK k \in Keys : queue' = [queue EXCEPT ![RunOf[w]][k] = Append(@, cell[w])]
    BY ZenonT(40), <1>7, CrewAssumption DEF ExecErrs, GiveBack, TypeOK, ThreadsOK, Keys
  <2>2. PICK r \in Runs, c \in Cells : r = RunOf[w] /\ c = cell[w] /\ c # 0
    BY <1>7, CrewAssumption DEF ExecErrs, TypeOK, ThreadsOK, HandOK
  <2>3. cell'[w] = 0 /\ \A x \in Threads : x # w => cell'[x] = cell[x]
    BY <1>7 DEF ExecErrs, GiveBack, Drop, TypeOK, ThreadsOK
  <2>4. \A l \in Keys : c \notin Elements(queue[r][l])
    BY <2>2 DEF Once
  <2>5. /\ \A s \in Runs, l \in Keys : s # r \/ l # k => queue'[s][l] = queue[s][l]
        /\ Elements(queue'[r][k]) = Elements(queue[r][k]) \cup {c}
        /\ NoRepeat(queue'[r][k])
        /\ queue' \in [Runs -> [Keys -> Seq(Cells)]]
    <3>1. queue' = [queue EXCEPT ![r][k] = Append(@, c)] /\ NoRepeat(queue[r][k]) /\ QueuesOK
      BY <2>1, <2>2 DEF Once, TypeOK
    <3> QED BY ZenonT(40), <2>4, <3>1, QueueAppend
  <2>6. \A s \in Runs, l \in Keys : NoRepeat(queue'[s][l])
    BY <2>5 DEF Once
  <2>7. ASSUME NEW s \in Runs, NEW l \in Keys, NEW m \in Keys, l # m
        PROVE  Elements(queue'[s][l]) \cap Elements(queue'[s][m]) = {}
    <3>1. Elements(queue[s][l]) \cap Elements(queue[s][m]) = {}
      BY <2>7 DEF Once
    <3> QED BY ZenonT(40), <2>4, <2>5, <2>7, <3>1
  <2>8. \A l \in Keys : 0 \notin Elements(queue'[r][l])
    BY <2>5, ElementsAreCells
  <2>9. \A x \in Threads : x # w /\ RunOf[x] = r => cell[x] # c
    BY <2>2 DEF Once
  <2>10. \A x \in Threads, l \in Keys : cell'[x] \notin Elements(queue'[RunOf[x]][l])
    <3>1. \A l \in Keys : cell'[w] \notin Elements(queue'[RunOf[w]][l])
      BY <2>2, <2>3, <2>8
    <3>2. ASSUME NEW x \in Threads, x # w, NEW l \in Keys
          PROVE  cell[x] \notin Elements(queue'[RunOf[x]][l])
      BY ZenonT(40), <2>5, <2>9, <3>2, CrewAssumption DEF Once
    <3> QED BY <2>3, <3>1, <3>2
  <2>11. \A v, x \in Threads :
          RunOf[v] = RunOf[x] /\ cell'[v] = cell'[x] /\ cell'[v] # 0 => v = x
    BY <2>3 DEF Once
  <2> QED BY <2>6, <2>7, <2>10, <2>11 DEF Once
<1>8. ASSUME NEW w \in Threads, ExecExits(w) PROVE Once'
  <2>1. /\ UNCHANGED queue
        /\ cell'[w] = 0 /\ \A x \in Threads : x # w => cell'[x] = cell[x]
    BY <1>8 DEF ExecExits, Drop, runVars, TypeOK, ThreadsOK
  <2>2. \A s \in Runs, l \in Keys : 0 \notin Elements(queue[s][l])
    BY ElementsAreCells DEF TypeOK, QueuesOK
  <2> QED BY <2>1, <2>2, CrewAssumption DEF Once
<1>9. ASSUME NEW w \in Threads, ResultLost(w) PROVE Once'
  <2>1. /\ UNCHANGED queue
        /\ cell'[w] = 0 /\ \A x \in Threads : x # w => cell'[x] = cell[x]
    BY <1>9 DEF ResultLost, Drop, runVars, TypeOK, ThreadsOK
  <2>2. \A s \in Runs, l \in Keys : 0 \notin Elements(queue[s][l])
    BY ElementsAreCells DEF TypeOK, QueuesOK
  <2> QED BY <2>1, <2>2, CrewAssumption DEF Once
<1>10. ASSUME NEW r \in Runs, Launch(r) \/ FirstPass(r) \/ StartCells(r) \/
   EndCells(r) PROVE UNCHANGED <<queue, cell>>
  BY <1>10 DEF Launch, threadVars, FirstPass, StartPass, StartCells, EndCells
<1>11. ASSUME NEW r \in Runs, NEW t \in Clients, PassAcquire(r, t) \/ PassRelease(r,
   t) PROVE UNCHANGED <<queue, cell>>
  BY <1>11 DEF PassAcquire, threadVars, PassRelease
<1>12. ASSUME NEW w \in Threads, NEW k \in Keys, PassOverQueue(w, k) PROVE UNCHANGED
   <<queue, cell>>
  BY <1>12 DEF PassOverQueue, Looks, runVars
<1>13. ASSUME NEW w \in Threads, ProbeAnswers(w) \/ Acquire(w) \/ WaitProbe(w) \/
   GiveUp(w) \/ RejoinSync(w) PROVE UNCHANGED <<queue, cell>>
  BY <1>13 DEF ProbeAnswers, Record, runVars, Acquire, WaitProbe, Fault, GiveUp,
     RejoinSync, Release
<1>14. CASE UNCHANGED vars
  BY <1>1, <1>14 DEF vars, runVars, threadVars
<1> QED
  BY <1>1, <1>2, <1>3, <1>4, <1>5, <1>6, <1>7, <1>8, <1>9, <1>10, <1>11, <1>12,
     <1>13, <1>14, StepCases

\* Threads and queues that stay as they are wait for whom they waited for, while
\* the file stays as it is.
LEMMA PinnedKept ==
    ASSUME TypeOK, Pinned, log' = log,
           \A r \in Runs : Strict(r)' =>
              \/ Strict(r) /\ loaded'[r] = loaded[r]
              \/ /\ \A k \in Keys : Elements(queue'[r][k]) = {}
                 /\ \A w \in Threads :
                      RunOf[w] = r => pc'[w] \notin {"probe", "acquire", "exec"},
           \A r \in Runs, k \in Keys : \A c \in Elements(queue'[r][k]) :
              Strict(r) => c \in Elements(queue[r][k]) \/ Waits(r, c, k),
           \A w \in Threads :
              /\ pc'[w] = "probe" /\ Strict(RunOf[w]) =>
                   Waits(RunOf[w], cell'[w], from'[w])
              /\ pc'[w] \in {"acquire", "exec"} =>
                   pc[w] \in {"acquire", "exec"} /\ cell'[w] = cell[w]
    PROVE  Pinned'
<1>1. ASSUME NEW r \in Runs, NEW k \in Keys, Strict(r)', NEW c \in Elements(queue'[r][k])
      PROVE  Waits(r, c, k)'
  <2>1. Strict(r) /\ loaded'[r] = loaded[r]
    BY <1>1
  <2>2. Waits(r, c, k)
    BY <1>1, <2>1 DEF Pinned
  <2> QED BY <2>1, <2>2, SameFile
<1>2. ASSUME NEW w \in Threads, Strict(RunOf[w])'
      PROVE  /\ pc'[w] = "probe" => Waits(RunOf[w], cell[w], from[w])'
             /\ pc'[w] \in {"acquire", "exec"} => Bound(RunOf[w], cell[w], ClientOf[w])'
  <2>1. RunOf[w] \in Runs
    BY CrewAssumption
  <2>2. CASE Strict(RunOf[w]) /\ loaded'[RunOf[w]] = loaded[RunOf[w]]
    <3>1. pc'[w] = "probe" => Waits(RunOf[w], cell[w], from[w])'
      BY <2>1, <2>2, SameFile
    <3>2. pc'[w] \in {"acquire", "exec"} => Bound(RunOf[w], cell'[w], ClientOf[w])
      BY <2>2 DEF Pinned
    <3> QED BY <2>1, <2>2, <3>1, <3>2, SameFile
  <2> QED BY <1>2, <2>1, <2>2
<1> QED BY <1>1, <1>2 DEF Pinned

\* A cell stays with the client it is bound to.
LEMMA PinnedStep ==
    ASSUME TypeOK, HandOK, Fresh, Owed, Once, Sharded, Loaded, IndexFresh, Pinned,
           [Next]_vars
    PROVE  Pinned'
<1>1. ASSUME UNCHANGED <<log, loaded, opts, queue, pc, cell, from>> PROVE Pinned'
  BY <1>1, PinnedKept, CrewAssumption DEF Pinned, Strict
<1>2. ASSUME NEW r \in Runs, Launch(r) PROVE Pinned'
  <2>1. PICK o \in Options : opts' = [opts EXCEPT ![r] = o]
    BY <1>2 DEF Launch
  <2>2. /\ UNCHANGED <<queue, log, pc, cell, from>> /\ phase[r] = "off" /\ owed[r] = {}
        /\ loaded' = [loaded EXCEPT ![r] = [k \in CellKeys |-> Len(log[k])]]
    BY <1>2 DEF Launch, threadVars, Fresh
  <2>3. \A s \in Runs : s # r => opts'[s] = opts[s] /\ loaded'[s] = loaded[s]
    BY <2>1, <2>2 DEF TypeOK, InvocationsOK
  <2>4. \A k \in Keys : Elements(queue[r][k]) = {}
    BY <2>2 DEF Owed
  <2>5. \A w \in Threads : RunOf[w] = r => pc[w] \notin {"probe", "acquire", "exec"}
    BY <2>2 DEF Owed, HandOK
  <2>6. \A s \in Runs : Strict(s)' =>
           \/ Strict(s) /\ loaded'[s] = loaded[s]
           \/ /\ \A k \in Keys : Elements(queue'[s][k]) = {}
              /\ \A w \in Threads :
                   RunOf[w] = s => pc'[w] \notin {"probe", "acquire", "exec"}
    BY <2>2, <2>3, <2>4, <2>5 DEF Strict
  <2> QED BY <2>2, <2>6, PinnedKept DEF Pinned
<1>3. ASSUME NEW r \in Runs, Gone(r) PROVE Pinned'
  <2>1. /\ \A s \in Runs : s # r =>
             opts'[s] = opts[s] /\ queue'[s] = queue[s] /\ loaded'[s] = loaded[s]
        /\ \A w \in Threads : RunOf[w] # r =>
             pc'[w] = pc[w] /\ cell'[w] = cell[w] /\ from'[w] = from[w]
        /\ \A w \in Threads : RunOf[w] = r => pc'[w] = "off"
        /\ log' = log
    BY <1>3, GoneFacts
  <2>2. \A k \in Keys : Elements(queue'[r][k]) = {}
    BY <1>3, GoneFacts, NoElements
  <2>3. \A s \in Runs : s # r => (Strict(s)' <=> Strict(s))
    BY <2>1 DEF Strict
  <2>4. \A w \in Threads :
           /\ pc'[w] = "probe" /\ Strict(RunOf[w]) => Waits(RunOf[w], cell'[w], from'[w])
           /\ pc'[w] \in {"acquire", "exec"} =>
                pc[w] \in {"acquire", "exec"} /\ cell'[w] = cell[w]
    BY <2>1 DEF Pinned
  <2>5. \A s \in Runs, k \in Keys : Elements(queue'[s][k]) \subseteq Elements(queue[s][k])
    BY <2>1, <2>2
  <2> QED BY <2>1, <2>2, <2>3, <2>4, <2>5, PinnedKept
<1>4. ASSUME NEW r \in Runs, RouteNext(r) PROVE Pinned'
  <2>1. PICK c \in route[r] :
          \/ UNCHANGED queue
          \/ /\ RouteCell(r, c) # NoRoute
             /\ queue' = [queue EXCEPT ![r][RouteCell(r, c)] = Append(@, c)]
    BY <1>4 DEF RouteNext
  <2>2. /\ c \in Cells /\ phase[r] = "routing"
        /\ UNCHANGED <<opts, log, loaded, pc, cell, from>>
    BY <1>4 DEF RouteNext, threadVars, TypeOK, InvocationsOK
  <2>3. CASE UNCHANGED queue
    BY <1>1, <2>2, <2>3
  <2>4. ASSUME NEW k, k = RouteCell(r, c), k # NoRoute,
               queue' = [queue EXCEPT ![r][k] = Append(@, c)]
        PROVE  Pinned'
    <3>1. k \in Keys /\ QueuesOK
      BY <2>2, <2>4, RouteKey DEF TypeOK
    <3>2. /\ \A s \in Runs, l \in Keys : s # r \/ l # k => queue'[s][l] = queue[s][l]
          /\ Elements(queue'[r][k]) = Elements(queue[r][k]) \cup {c}
      <4>1. queue' = [queue EXCEPT ![r][k] = Append(@, c)]
        BY <2>4
      <4> QED BY <2>2, <3>1, <4>1, QueueAppend
    <3>3. ASSUME Strict(r) PROVE Waits(r, c, k)
      <4> DEFINE K == CellKey[c]
                 n == loaded[r][K]
      <4>1. K \in CellKeys /\ n \in Nat /\ n <= Len(log[K]) /\ log[K] \in Seq(Event)
        BY <2>2, KeyAssumption DEF TypeOK, FileOK, InvocationsOK, Loaded
      <4>2. Binding(r, c) \subseteq {n}
        BY <4>1 DEF IndexFresh, Binding
      <4>3. CASE n \in Binding(r, c)
        <5>1. n # 0 /\ n \in 1 .. Len(log[K])
          BY <4>3 DEF Binding
        <5>2. log[K][n] \in Event
          BY <4>1, <5>1, ElementOfSeq
        <5>3. index[r][K].pin = log[K][n].client /\ log[K][n].client \in Clients
          BY <2>2, <4>1, <5>1, <5>2 DEF IndexFresh, Event
        <5>4. k = {log[K][n].client}
          BY <2>4, <3>3, <5>3, CrewAssumption DEF RouteCell, Strict
        <5> QED BY <4>2, <5>3, <5>4 DEF Waits, Bound
      <4>4. CASE n \notin Binding(r, c)
        BY <4>2, <4>4 DEF Waits
      <4> QED BY <4>3, <4>4
    <3>4. \A s \in Runs, l \in Keys : \A d \in Elements(queue'[s][l]) :
             Strict(s) => d \in Elements(queue[s][l]) \/ Waits(s, d, l)
      BY <3>1, <3>2, <3>3
    <3> QED BY <2>2, <3>4, PinnedKept DEF Pinned, Strict
  <2> QED BY <2>1, <2>3, <2>4
<1>5. ASSUME NEW r \in Runs, StartCells(r) PROVE Pinned'
  <2>1. UNCHANGED <<log, loaded, opts, queue, cell, from>>
    BY <1>5 DEF StartCells
  <2>2. \A w \in Threads : pc'[w] = pc[w] \/ pc'[w] = "pop"
    BY <1>5 DEF StartCells
  <2> QED BY <2>1, <2>2, PinnedKept DEF Pinned, Strict
<1>6. ASSUME NEW w \in Threads, NEW k \in Keys, Pop(w, k) PROVE Pinned'
  <2>1. PICK r \in Runs : r = RunOf[w]
    BY CrewAssumption
  <2>2. PICK c \in Cells : c = Head(queue[r][k])
    BY <1>6, <2>1, QueueTail DEF Pop, TypeOK
  <2>3. /\ \A s \in Runs, l \in Keys : s # r \/ l # k => queue'[s][l] = queue[s][l]
        /\ c \in Elements(queue[r][k])
        /\ Elements(queue'[r][k]) = Elements(queue[r][k]) \ {c}
    BY <1>6, <2>1, <2>2, QueueTail DEF Pop, TypeOK, Once
  <2>4. /\ cell'[w] = c /\ pc'[w] = "probe" /\ from'[w] = k
        /\ \A x \in Threads : x # w =>
             cell'[x] = cell[x] /\ pc'[x] = pc[x] /\ from'[x] = from[x]
        /\ UNCHANGED <<log, loaded, opts>>
    BY <1>6, <2>1, <2>2 DEF Pop, TypeOK, ThreadsOK
  <2>5. \A s \in Runs, l \in Keys : Elements(queue'[s][l]) \subseteq Elements(queue[s][l])
    BY <2>3
  <2>6. Strict(r) => Waits(r, c, k)
    BY <2>1, <2>3 DEF Pinned
  <2>7. \A x \in Threads :
           /\ pc'[x] = "probe" /\ Strict(RunOf[x]) => Waits(RunOf[x], cell'[x], from'[x])
           /\ pc'[x] \in {"acquire", "exec"} =>
                pc[x] \in {"acquire", "exec"} /\ cell'[x] = cell[x]
    BY <2>1, <2>4, <2>6 DEF Pinned
  <2> QED BY <2>4, <2>5, <2>7, PinnedKept DEF Strict
<1>7. ASSUME NEW w \in Threads, ProbeFails(w) \/ ExecErrs(w) PROVE Pinned'
  <2>1. PICK r \in Runs, c \in Cells, k \in Keys :
          /\ r = RunOf[w] /\ c = cell[w]
          /\ \/ pc[w] = "probe" /\ k = from[w]
             \/ pc[w] = "exec" /\ k = {ClientOf[w]}
          /\ queue' = [queue EXCEPT ![r][k] = Append(@, c)]
    <3>1. RunOf[w] \in Runs /\ cell[w] \in Cells /\ from[w] \in Keys /\ {ClientOf[w]} \in Keys
      BY <1>7, CrewAssumption DEF ProbeFails, ExecErrs, TypeOK, ThreadsOK, HandOK, Keys
    <3>2. CASE ProbeFails(w)
      BY <3>1, <3>2 DEF ProbeFails, GiveBack
    <3>3. CASE ExecErrs(w)
      BY <3>1, <3>3 DEF ExecErrs, GiveBack
    <3> QED BY <1>7, <3>2, <3>3
  <2>2. /\ pc'[w] = "wait" /\ UNCHANGED <<log, loaded, opts>>
        /\ \A x \in Threads : x # w =>
             cell'[x] = cell[x] /\ pc'[x] = pc[x] /\ from'[x] = from[x]
    BY <1>7 DEF ProbeFails, ExecErrs, GiveBack, Drop, TypeOK, ThreadsOK
  <2>3. /\ \A s \in Runs, l \in Keys : s # r \/ l # k => queue'[s][l] = queue[s][l]
        /\ Elements(queue'[r][k]) = Elements(queue[r][k]) \cup {c}
    <3>1. queue' = [queue EXCEPT ![r][k] = Append(@, c)] /\ QueuesOK
      BY <2>1 DEF TypeOK
    <3> QED BY <3>1, QueueAppend
  <2>4. Strict(r) => Waits(r, c, k)
    <3>1. CASE pc[w] = "probe" /\ k = from[w]
      BY <2>1, <3>1 DEF Pinned
    <3>2. CASE pc[w] = "exec" /\ k = {ClientOf[w]}
      <4>1. Strict(r) => Bound(r, c, ClientOf[w])
        BY <2>1, <3>2 DEF Pinned
      <4> QED BY <3>2, <4>1, CrewAssumption DEF Waits
    <3> QED BY <2>1, <3>1, <3>2
  <2>5. \A s \in Runs, l \in Keys : \A d \in Elements(queue'[s][l]) :
           Strict(s) => d \in Elements(queue[s][l]) \/ Waits(s, d, l)
    BY <2>3, <2>4
  <2>6. \A x \in Threads :
           /\ pc'[x] = "probe" /\ Strict(RunOf[x]) => Waits(RunOf[x], cell'[x], from'[x])
           /\ pc'[x] \in {"acquire", "exec"} =>
                pc[x] \in {"acquire", "exec"} /\ cell'[x] = cell[x]
    BY <2>2 DEF Pinned
  <2> QED BY <2>2, <2>5, <2>6, PinnedKept DEF Strict
<1>8. ASSUME NEW w \in Threads, NEW status \in {"started", "success", "failed"},
             pc[w] \in {"probe", "exec"}, Record(cell[w], status, w),
             UNCHANGED <<loaded, opts, queue>>,
             pc'[w] = "probe" => FALSE,
             pc'[w] \in {"acquire", "exec"} => cell'[w] = cell[w],
             \A x \in Threads : x # w =>
                 pc'[x] = pc[x] /\ cell'[x] = cell[x] /\ from'[x] = from[x]
      PROVE  Pinned'
  <2>1. \A s \in Runs : Strict(s)' <=> Strict(s)
    BY <1>8 DEF Strict
  <2>2. ASSUME NEW s \in Runs, NEW k \in Keys, Strict(s), NEW c \in Elements(queue[s][k])
        PROVE  Waits(s, c, k)'
    <3>1. c \in Cells /\ c # cell[w]
      BY <1>8, <2>2, OwnCell
    <3>2. Waits(s, c, k)
      BY <2>2 DEF Pinned
    <3> QED BY <1>8, <3>1, <3>2, RecordElsewhere
  <2>3. ASSUME NEW x \in Threads, x # w, Strict(RunOf[x])
        PROVE  /\ pc'[x] = "probe" => Waits(RunOf[x], cell[x], from[x])'
               /\ pc'[x] \in {"acquire", "exec"} => Bound(RunOf[x], cell[x], ClientOf[x])'
    <3>1. CASE pc[x] \in {"probe", "acquire", "exec"}
      <4>1. PICK r \in Runs, c \in Cells, k \in Keys :
              r = RunOf[x] /\ c = cell[x] /\ k = from[x]
        BY <3>1, CrewAssumption DEF TypeOK, ThreadsOK, HandOK
      <4>2. c # cell[w]
        BY <1>8, <2>3, <3>1, <4>1, OwnCell DEF HandOK
      <4>3. /\ Waits(r, c, k)' <=> Waits(r, c, k)
            /\ Bound(r, c, ClientOf[x])' <=> Bound(r, c, ClientOf[x])
        BY <1>8, <4>2, RecordElsewhere
      <4>4. /\ pc[x] = "probe" => Waits(r, c, k)
            /\ pc[x] \in {"acquire", "exec"} => Bound(r, c, ClientOf[x])
        BY <2>3, <4>1 DEF Pinned
      <4> QED BY <1>8, <2>3, <4>1, <4>3, <4>4
    <3> QED BY <1>8, <2>3, <3>1
  <2>4. ASSUME Strict(RunOf[w]), pc'[w] \in {"acquire", "exec"}
        PROVE  Bound(RunOf[w], cell[w], ClientOf[w])'
    <3>1. PICK r \in Runs, c \in Cells : r = RunOf[w] /\ c = cell[w]
      BY <1>8, CrewAssumption, RecordFacts
    <3>2. Bound(r, c, ClientOf[w])
      <4>1. CASE pc[w] = "exec"
        BY <2>4, <3>1, <4>1 DEF Pinned
      <4>2. CASE pc[w] = "probe"
        <5>1. Waits(r, c, from[w]) /\ from[w] \in Eligible(w)
          BY <2>4, <3>1, <4>2 DEF Pinned, HandOK
        <5> QED BY <5>1 DEF Waits, Bound, Eligible
      <4> QED BY <1>8, <4>1, <4>2
    <3>3. Bound(r, c, ClientOf[w])'
      BY <1>8, <3>1, <3>2, RecordHere
    <3> QED BY <1>8, <2>4, <3>1, <3>3
  <2>5. ASSUME NEW s \in Runs, NEW k \in Keys, Strict(s)', NEW c \in Elements(queue'[s][k])
        PROVE  Waits(s, c, k)'
    BY <1>8, <2>1, <2>2, <2>5
  <2>6. ASSUME NEW x \in Threads, Strict(RunOf[x])'
        PROVE  /\ pc'[x] = "probe" => Waits(RunOf[x], cell[x], from[x])'
               /\ pc'[x] \in {"acquire", "exec"} => Bound(RunOf[x], cell[x], ClientOf[x])'
    <3>1. Strict(RunOf[x])
      BY <2>1, <2>6, CrewAssumption
    <3>2. CASE x = w
      BY <1>8, <2>4, <3>1, <3>2
    <3> QED BY <2>3, <3>1, <3>2
  <2> QED BY <2>5, <2>6 DEF Pinned
<1>9. ASSUME NEW w \in Threads, ProbeAnswers(w) PROVE Pinned'
  <2>1. /\ pc[w] \in {"probe", "exec"} /\ Record(cell[w], "started", w)
        /\ UNCHANGED <<loaded, opts, queue, cell, from>> /\ pc'[w] = "acquire"
        /\ \A x \in Threads : x # w => pc'[x] = pc[x]
    BY <1>9 DEF ProbeAnswers, runVars, TypeOK, ThreadsOK
  <2> QED BY <1>8, <2>1
<1>10. ASSUME NEW w \in Threads, ExecExits(w) PROVE Pinned'
  <2>1. PICK status \in {"success", "failed"} : Record(cell[w], status, w)
    BY <1>10 DEF ExecExits
  <2>2. /\ pc[w] = "exec" /\ UNCHANGED <<loaded, opts, queue>>
        /\ pc'[w] \in {"pop", "stopped"}
        /\ \A x \in Threads : x # w =>
             pc'[x] = pc[x] /\ cell'[x] = cell[x] /\ from'[x] = from[x]
    BY <1>10 DEF ExecExits, Drop, TypeOK, ThreadsOK
  <2> QED BY <1>8, <2>1, <2>2
<1>11. ASSUME UNCHANGED <<log, loaded, opts, queue>>,
              \A w \in Threads :
                 \/ pc'[w] = pc[w] /\ cell'[w] = cell[w] /\ from'[w] = from[w]
                 \/ pc[w] = "acquire" /\ pc'[w] = "exec" /\ cell'[w] = cell[w]
                 \/ pc'[w] \notin {"probe", "acquire", "exec"}
       PROVE  Pinned'
  BY <1>11, PinnedKept DEF Pinned, Strict
<1>12. ASSUME NEW w \in Threads, NEW k \in Keys, PassOverQueue(w, k) PROVE Pinned'
  <2>1. /\ UNCHANGED <<log, loaded, opts, queue, cell, from>>
        /\ \A x \in Threads : pc'[x] = pc[x] \/ pc'[x] \in {"pop", "drained"}
    BY <1>12 DEF PassOverQueue, runVars, TypeOK, ThreadsOK
  <2> QED BY <1>11, <2>1
<1>13. ASSUME NEW w \in Threads, WriteFails(w) \/ ResultLost(w) PROVE Pinned'
  <2>1. /\ UNCHANGED <<log, loaded, opts, queue>> /\ pc'[w] = "stopped"
        /\ \A x \in Threads : x # w =>
             pc'[x] = pc[x] /\ cell'[x] = cell[x] /\ from'[x] = from[x]
    BY <1>13 DEF WriteFails, ResultLost, Drop, runVars, TypeOK, ThreadsOK
  <2> QED BY <1>11, <2>1
<1>14. ASSUME NEW w \in Threads, Acquire(w) PROVE Pinned'
  <2>1. /\ UNCHANGED <<log, loaded, opts, queue, cell, from>>
        /\ \/ pc[w] = "acquire" /\ pc'[w] = "exec"
           \/ pc[w] = "rejoin" /\ pc'[w] = "sync"
        /\ \A x \in Threads : x # w => pc'[x] = pc[x]
    BY <1>14 DEF Acquire, TypeOK, ThreadsOK
  <2> QED BY <1>11, <2>1
<1>15. ASSUME NEW w \in Threads, WaitProbe(w) \/ GiveUp(w) \/ RejoinSync(w) PROVE Pinned'
  <2>1. /\ UNCHANGED <<log, loaded, opts, queue, cell, from>>
        /\ \A x \in Threads : pc'[x] = pc[x] \/ pc'[x] \in {"rejoin", "stopped", "pop"}
    BY <1>15 DEF WaitProbe, GiveUp, RejoinSync, runVars, TypeOK, ThreadsOK
  <2> QED BY <1>11, <2>1
<1>16. ASSUME NEW r \in Runs, FirstPass(r) \/ EndCells(r)
       PROVE  UNCHANGED <<log, loaded, opts, queue, pc, cell, from>>
  BY <1>16 DEF FirstPass, threadVars, EndCells
<1>17. ASSUME NEW r \in Runs, NEW t \in Clients, PassAcquire(r, t) \/ PassRelease(r, t)
       PROVE  UNCHANGED <<log, loaded, opts, queue, pc, cell, from>>
  BY <1>17 DEF PassAcquire, threadVars, PassRelease
<1>18. CASE UNCHANGED vars
  BY <1>1, <1>18 DEF vars, runVars, threadVars
<1> QED
  BY <1>1, <1>2, <1>3, <1>4, <1>5, <1>6, <1>7, <1>9, <1>10, <1>12, <1>13, <1>14, <1>15,
     <1>16, <1>17, <1>18, StepCases

\* Syncs happen in passes.
LEMMA PassingStep ==
    ASSUME TypeOK, Passing, [Next]_vars
    PROVE  Passing'
<1>1. ASSUME UNCHANGED <<phase, pass>> PROVE Passing'
  BY <1>1 DEF TypeOK, InvocationsOK, SlotsOK, Passing, PassOver, NoPass
<1>2. ASSUME NEW r \in Runs, Launch(r) PROVE Passing'
  BY <1>2, CrewAssumption DEF Launch, TypeOK, InvocationsOK, SlotsOK, Passing,
     PassOver, NoPass
<1>3. ASSUME NEW r \in Runs, Gone(r) PROVE Passing'
  BY <1>3, CrewAssumption DEF Gone, Cleared, TypeOK, InvocationsOK, SlotsOK,
     Passing, PassOver, NoPass
<1>4. ASSUME NEW r \in Runs, FirstPass(r) PROVE Passing'
  BY <1>4, CrewAssumption DEF FirstPass, StartPass, TypeOK, InvocationsOK, SlotsOK,
     Passing, PassOver, NoPass
<1>5. ASSUME NEW r \in Runs, StartCells(r) PROVE Passing'
  BY <1>5, CrewAssumption DEF StartCells, TypeOK, InvocationsOK, SlotsOK, Passing,
     PassOver, NoPass
<1>6. ASSUME NEW r \in Runs, EndCells(r) PROVE Passing'
  BY <1>6, CrewAssumption DEF EndCells, StartPass, TypeOK, InvocationsOK, SlotsOK,
     Passing, PassOver, NoPass
<1>7. ASSUME NEW r \in Runs, NEW t \in Clients, PassAcquire(r, t) PROVE Passing'
  BY <1>7, CrewAssumption DEF PassAcquire, TypeOK, InvocationsOK, SlotsOK, Passing,
     PassOver, NoPass
<1>8. ASSUME NEW r \in Runs, NEW t \in Clients, PassRelease(r, t) PROVE Passing'
  BY <1>8, CrewAssumption DEF PassRelease, TypeOK, InvocationsOK, SlotsOK, Passing,
     PassOver, NoPass
<1>9. ASSUME NEW r \in Runs, RouteNext(r) PROVE UNCHANGED <<phase, pass>>
  BY <1>9 DEF RouteNext
<1>10. ASSUME NEW w \in Threads, NEW k \in Keys, Pop(w, k) \/ PassOverQueue(w, k)
   PROVE UNCHANGED <<phase, pass>>
  BY <1>10 DEF Pop, Looks, PassOverQueue, runVars
<1>11. ASSUME NEW w \in Threads, ProbeFails(w) \/ ProbeAnswers(w) \/ WriteFails(w)
   \/ Acquire(w) \/ ExecErrs(w) \/ ExecExits(w) \/ ResultLost(w) \/ WaitProbe(w) \/
   GiveUp(w) \/ RejoinSync(w) PROVE UNCHANGED <<phase, pass>>
  BY <1>11 DEF ProbeFails, Fault, GiveBack, Drop, ProbeAnswers, Record, runVars,
     WriteFails, Acquire, ExecErrs, Release, ExecExits, ResultLost, WaitProbe,
     GiveUp, RejoinSync
<1>12. CASE UNCHANGED vars
  BY <1>1, <1>12 DEF vars, runVars
<1> QED
  BY <1>1, <1>2, <1>3, <1>4, <1>5, <1>6, <1>7, <1>8, <1>9, <1>10, <1>11, <1>12,
     StepCases

\* A slot is taken and given back with the command.
LEMMA SlotsStep ==
    ASSUME TypeOK, Crewed, Passing, Slots, [Next]_vars
    PROVE  Slots'
<1>1. ASSUME UNCHANGED <<phase, plan, pass, free, pc>> PROVE Slots'
  BY <1>1, SlotsKept
<1>2. ASSUME NEW r \in Runs, Launch(r) PROVE Slots'
  <2>1. /\ phase'[r] = "routing" /\ UNCHANGED <<pass, free, pc>>
        /\ \A s \in Runs : s # r => phase'[s] = phase[s] /\ plan'[s] = plan[s]
    BY <1>2 DEF Launch, threadVars, TypeOK, InvocationsOK
  <2>2. ASSUME NEW s \in Runs, NEW b \in Boxes, s # r
        PROVE  Busy(s, b)' = Busy(s, b) /\ Capacity(s, b)' = Capacity(s, b)
    BY <2>1, <2>2, SameBudget
  <2> QED BY <2>1, <2>2 DEF Slots
<1>3. ASSUME NEW r \in Runs, Gone(r) PROVE Slots'
  <2>1. /\ phase'[r] = "off"
        /\ \A s \in Runs : s # r => /\ phase'[s] = phase[s] /\ plan'[s] = plan[s]
                                    /\ pass'[s] = pass[s] /\ free'[s] = free[s]
        /\ \A w \in Threads : RunOf[w] # r => pc'[w] = pc[w]
    BY <1>3, GoneFacts
  <2>2. ASSUME NEW s \in Runs, NEW b \in Boxes, s # r
        PROVE  Busy(s, b)' = Busy(s, b) /\ Capacity(s, b)' = Capacity(s, b)
    BY <2>1, <2>2, SameBudget
  <2> QED BY <2>1, <2>2 DEF Slots
<1>4. ASSUME NEW r \in Runs, FirstPass(r) PROVE Slots'
  <2>1. /\ UNCHANGED <<plan, pc>> /\ free' = [free EXCEPT ![r] = Capacities(r)]
        /\ \A s \in Runs : s # r => phase'[s] = phase[s] /\ pass'[s] = pass[s]
    BY <1>4 DEF FirstPass, StartPass, threadVars, TypeOK, InvocationsOK, SlotsOK
  <2>2. \A t \in Clients : pass'[r][t] # "held"
    BY <1>4 DEF FirstPass, StartPass, TypeOK, SlotsOK
  <2>3. ASSUME NEW w \in Threads, RunOf[w] = r PROVE pc[w] \notin {"exec", "sync"}
    BY <1>4, <2>3 DEF FirstPass, Crewed, Crew
  <2> QED BY <2>1, <2>2, <2>3, SlotsFresh
<1>5. ASSUME NEW r \in Runs, StartCells(r) PROVE Slots'
  <2>1. /\ UNCHANGED <<plan, pass>> /\ free' = [free EXCEPT ![r] = Capacities(r)]
        /\ \A s \in Runs : s # r => phase'[s] = phase[s]
    BY <1>5 DEF StartCells, TypeOK, InvocationsOK
  <2>2. \A t \in Clients : pass'[r][t] # "held"
    BY <1>5 DEF StartCells, PassOver
  <2>3. ASSUME NEW w \in Threads
        PROVE  IF RunOf[w] = r THEN pc'[w] \notin {"exec", "sync"} ELSE pc'[w] = pc[w]
    BY <1>5 DEF StartCells, Crewed, Crew
  <2> QED BY <2>1, <2>2, <2>3, SlotsFresh
<1>6. ASSUME NEW r \in Runs, EndCells(r) PROVE Slots'
  <2>1. /\ UNCHANGED <<plan, pc>> /\ free' = [free EXCEPT ![r] = Capacities(r)]
        /\ \A s \in Runs : s # r => phase'[s] = phase[s] /\ pass'[s] = pass[s]
    BY <1>6 DEF EndCells, StartPass, threadVars, TypeOK, InvocationsOK, SlotsOK
  <2>2. \A t \in Clients : pass'[r][t] # "held"
    BY <1>6 DEF EndCells, StartPass, TypeOK, SlotsOK
  <2>3. ASSUME NEW w \in Threads, RunOf[w] = r PROVE pc[w] \notin {"exec", "sync"}
    BY <1>6, <2>3 DEF EndCells, Crewed, Crew
  <2> QED BY <2>1, <2>2, <2>3, SlotsFresh
<1>7. ASSUME NEW r \in Runs, NEW t \in Clients, PassAcquire(r, t) PROVE Slots'
  <2>1. PICK b \in Boxes : b = BoxOf[t]
    BY CrewAssumption
  <2>2. /\ UNCHANGED <<phase, plan, pc>> /\ free' = [free EXCEPT ![r][b] = @ - 1]
        /\ pass[r][t] = "todo" /\ pass'[r][t] = "held"
        /\ \A s \in Runs, u \in Clients : s # r \/ u # t => pass'[s][u] = pass[s][u]
    BY <1>7, <2>1 DEF PassAcquire, threadVars, TypeOK, SlotsOK
  <2>3. \A s \in Runs, a \in Boxes : Working(s, a)' = Working(s, a)
    BY <2>2 DEF Working
  <2>4. ASSUME NEW s \in Runs, NEW a \in Boxes, s # r \/ a # b
        PROVE  Busy(s, a)' = Busy(s, a)
    <3>1. Syncing(s, a)' = Syncing(s, a)
      BY <2>1, <2>2, <2>4 DEF Syncing
    <3> QED BY <2>3, <3>1 DEF Busy
  <2>5. Syncing(r, b)' = Syncing(r, b) \cup {t} /\ t \notin Syncing(r, b)
    BY <2>1, <2>2 DEF Syncing
  <2>6. Cardinality(Syncing(r, b)') = Cardinality(Syncing(r, b)) + 1
    BY <2>5, BusyFinite, FS_AddElement
  <2>7. Busy(r, b)' = Busy(r, b) + 1
    BY <2>3, <2>6, BusyFinite DEF Busy
  <2> QED BY <2>2, <2>4, <2>7, SlotMoves
<1>8. ASSUME NEW r \in Runs, NEW t \in Clients, PassRelease(r, t) PROVE Slots'
  <2>1. PICK b \in Boxes : b = BoxOf[t]
    BY CrewAssumption
  <2>2. /\ UNCHANGED <<phase, plan, pc>> /\ free' = [free EXCEPT ![r][b] = @ + 1]
        /\ pass[r][t] = "held" /\ pass'[r][t] = "done"
        /\ \A s \in Runs, u \in Clients : s # r \/ u # t => pass'[s][u] = pass[s][u]
    BY <1>8, <2>1 DEF PassRelease, threadVars, TypeOK, SlotsOK
  <2>3. \A s \in Runs, a \in Boxes : Working(s, a)' = Working(s, a)
    BY <2>2 DEF Working
  <2>4. ASSUME NEW s \in Runs, NEW a \in Boxes, s # r \/ a # b
        PROVE  Busy(s, a)' = Busy(s, a)
    <3>1. Syncing(s, a)' = Syncing(s, a)
      BY <2>1, <2>2, <2>4 DEF Syncing
    <3> QED BY <2>3, <3>1 DEF Busy
  <2>5. Syncing(r, b)' = Syncing(r, b) \ {t} /\ t \in Syncing(r, b)
    BY <2>1, <2>2 DEF Syncing
  <2>6. Cardinality(Syncing(r, b)') = Cardinality(Syncing(r, b)) - 1
    BY <2>5, BusyFinite, FS_RemoveElement
  <2>7. Busy(r, b)' = Busy(r, b) + (-1)
    BY <2>3, <2>6, BusyFinite DEF Busy
  <2>8. free' = [free EXCEPT ![r][b] = @ - (-1)]
    <3>1. free[r][b] + 1 = free[r][b] - (-1)
      BY DEF TypeOK, SlotsOK
    <3> QED BY <2>2, <3>1
  <2> QED BY <2>2, <2>4, <2>7, <2>8, SlotMoves
<1>9. ASSUME NEW w \in Threads, NEW k \in Keys, Pop(w, k) PROVE Slots'
  <2>1. /\ UNCHANGED <<phase, plan, pass, free>> /\ pc[w] \notin {"exec", "sync"}
        /\ pc'[w] \notin {"exec", "sync"}
        /\ \A x \in Threads : x # w => pc'[x] = pc[x]
    BY <1>9 DEF Pop, Looks, TypeOK, ThreadsOK
  <2> QED BY <2>1, SlotsKept
<1>10. ASSUME NEW w \in Threads, NEW k \in Keys, PassOverQueue(w, k) PROVE Slots'
  <2>1. /\ UNCHANGED <<phase, plan, pass, free>> /\ pc[w] \notin {"exec", "sync"}
        /\ pc'[w] \notin {"exec", "sync"}
        /\ \A x \in Threads : x # w => pc'[x] = pc[x]
    BY <1>10 DEF PassOverQueue, Looks, runVars, TypeOK, ThreadsOK
  <2> QED BY <2>1, SlotsKept
<1>11. ASSUME NEW w \in Threads, ProbeFails(w) PROVE Slots'
  <2>1. /\ UNCHANGED <<phase, plan, pass, free>> /\ pc[w] \notin {"exec", "sync"}
        /\ pc'[w] \notin {"exec", "sync"}
        /\ \A x \in Threads : x # w => pc'[x] = pc[x]
    BY <1>11 DEF ProbeFails, Fault, GiveBack, Drop, TypeOK, ThreadsOK
  <2> QED BY <2>1, SlotsKept
<1>12. ASSUME NEW w \in Threads, ProbeAnswers(w) PROVE Slots'
  <2>1. /\ UNCHANGED <<phase, plan, pass, free>> /\ pc[w] \notin {"exec", "sync"}
        /\ pc'[w] \notin {"exec", "sync"}
        /\ \A x \in Threads : x # w => pc'[x] = pc[x]
    BY <1>12 DEF ProbeAnswers, runVars, TypeOK, ThreadsOK
  <2> QED BY <2>1, SlotsKept
<1>13. ASSUME NEW w \in Threads, WriteFails(w) PROVE Slots'
  <2>1. /\ UNCHANGED <<phase, plan, pass, free>> /\ pc[w] \notin {"exec", "sync"}
        /\ pc'[w] \notin {"exec", "sync"}
        /\ \A x \in Threads : x # w => pc'[x] = pc[x]
    BY <1>13 DEF WriteFails, Fault, Drop, runVars, TypeOK, ThreadsOK
  <2> QED BY <2>1, SlotsKept
<1>14. ASSUME NEW w \in Threads, Acquire(w) PROVE Slots'
  <2>1. /\ UNCHANGED <<phase, plan, pass>>
        /\ \A x \in Threads : x # w => pc'[x] = pc[x]
        /\ \/ /\ pc[w] \notin {"exec", "sync"} /\ pc'[w] \in {"exec", "sync"}
              /\ free' = [free EXCEPT ![RunOf[w]][BoxOf[ClientOf[w]]] = @ - 1]
           \/ /\ pc[w] \in {"exec", "sync"} /\ pc'[w] \notin {"exec", "sync"}
              /\ free' = [free EXCEPT ![RunOf[w]][BoxOf[ClientOf[w]]] = @ + 1]
    BY <1>14 DEF Acquire, TypeOK, ThreadsOK
  <2> QED BY <2>1, ThreadMoves
<1>15. ASSUME NEW w \in Threads, ExecErrs(w) PROVE Slots'
  <2>1. /\ UNCHANGED <<phase, plan, pass>>
        /\ \A x \in Threads : x # w => pc'[x] = pc[x]
        /\ \/ /\ pc[w] \notin {"exec", "sync"} /\ pc'[w] \in {"exec", "sync"}
              /\ free' = [free EXCEPT ![RunOf[w]][BoxOf[ClientOf[w]]] = @ - 1]
           \/ /\ pc[w] \in {"exec", "sync"} /\ pc'[w] \notin {"exec", "sync"}
              /\ free' = [free EXCEPT ![RunOf[w]][BoxOf[ClientOf[w]]] = @ + 1]
    BY <1>15 DEF ExecErrs, Fault, Release, GiveBack, Drop, TypeOK, ThreadsOK
  <2> QED BY <2>1, ThreadMoves
<1>16. ASSUME NEW w \in Threads, ExecExits(w) PROVE Slots'
  <2>1. /\ UNCHANGED <<phase, plan, pass>>
        /\ \A x \in Threads : x # w => pc'[x] = pc[x]
        /\ \/ /\ pc[w] \notin {"exec", "sync"} /\ pc'[w] \in {"exec", "sync"}
              /\ free' = [free EXCEPT ![RunOf[w]][BoxOf[ClientOf[w]]] = @ - 1]
           \/ /\ pc[w] \in {"exec", "sync"} /\ pc'[w] \notin {"exec", "sync"}
              /\ free' = [free EXCEPT ![RunOf[w]][BoxOf[ClientOf[w]]] = @ + 1]
    BY <1>16 DEF ExecExits, Release, Drop, TypeOK, ThreadsOK
  <2> QED BY <2>1, ThreadMoves
<1>17. ASSUME NEW w \in Threads, ResultLost(w) PROVE Slots'
  <2>1. /\ UNCHANGED <<phase, plan, pass>>
        /\ \A x \in Threads : x # w => pc'[x] = pc[x]
        /\ \/ /\ pc[w] \notin {"exec", "sync"} /\ pc'[w] \in {"exec", "sync"}
              /\ free' = [free EXCEPT ![RunOf[w]][BoxOf[ClientOf[w]]] = @ - 1]
           \/ /\ pc[w] \in {"exec", "sync"} /\ pc'[w] \notin {"exec", "sync"}
              /\ free' = [free EXCEPT ![RunOf[w]][BoxOf[ClientOf[w]]] = @ + 1]
    BY <1>17 DEF ResultLost, Fault, Release, Drop, TypeOK, ThreadsOK
  <2> QED BY <2>1, ThreadMoves
<1>18. ASSUME NEW w \in Threads, WaitProbe(w) PROVE Slots'
  <2>1. /\ UNCHANGED <<phase, plan, pass, free>> /\ pc[w] \notin {"exec", "sync"}
        /\ pc'[w] \notin {"exec", "sync"}
        /\ \A x \in Threads : x # w => pc'[x] = pc[x]
    BY <1>18 DEF WaitProbe, Fault, runVars, TypeOK, ThreadsOK
  <2> QED BY <2>1, SlotsKept
<1>19. ASSUME NEW w \in Threads, GiveUp(w) PROVE Slots'
  <2>1. /\ UNCHANGED <<phase, plan, pass, free>> /\ pc[w] \notin {"exec", "sync"}
        /\ pc'[w] \notin {"exec", "sync"}
        /\ \A x \in Threads : x # w => pc'[x] = pc[x]
    BY <1>19 DEF GiveUp, runVars, TypeOK, ThreadsOK
  <2> QED BY <2>1, SlotsKept
<1>20. ASSUME NEW w \in Threads, RejoinSync(w) PROVE Slots'
  <2>1. /\ UNCHANGED <<phase, plan, pass>>
        /\ \A x \in Threads : x # w => pc'[x] = pc[x]
        /\ \/ /\ pc[w] \notin {"exec", "sync"} /\ pc'[w] \in {"exec", "sync"}
              /\ free' = [free EXCEPT ![RunOf[w]][BoxOf[ClientOf[w]]] = @ - 1]
           \/ /\ pc[w] \in {"exec", "sync"} /\ pc'[w] \notin {"exec", "sync"}
              /\ free' = [free EXCEPT ![RunOf[w]][BoxOf[ClientOf[w]]] = @ + 1]
    BY <1>20 DEF RejoinSync, Release, TypeOK, ThreadsOK
  <2> QED BY <2>1, ThreadMoves
<1>21. ASSUME NEW r \in Runs, RouteNext(r) PROVE UNCHANGED <<phase, plan, pass,
   free, pc>>
  BY <1>21 DEF RouteNext, threadVars
<1>22. CASE UNCHANGED vars
  BY <1>1, <1>22 DEF vars, runVars, threadVars
<1> QED
  BY <1>1, <1>2, <1>3, <1>4, <1>5, <1>6, <1>7, <1>8, <1>9, <1>10, <1>11, <1>12,
     <1>13, <1>14, <1>15, <1>16, <1>17, <1>18, <1>19, <1>20, <1>21, <1>22, StepCases

\* A cell that waits is waited for.
LEMMA AttendedStep ==
    ASSUME FullCrews, TypeOK, Crewed, HandOK, Attended, [Next]_vars
    PROVE  Attended'
<1>1. ASSUME UNCHANGED <<phase, plan, queue, pc, seen>> PROVE Attended'
  BY <1>1, AttendsSame DEF Attended
<1>2. ASSUME NEW r \in Runs, Launch(r) PROVE Attended'
  <2>1. /\ phase[r] = "off" /\ phase'[r] = "routing" /\ plan'[r] \in Plans
        /\ UNCHANGED <<queue, pc, seen>>
        /\ \A s \in Runs : s # r => phase'[s] = phase[s] /\ plan'[s] = plan[s]
    BY <1>2 DEF Launch, threadVars, TypeOK, InvocationsOK
  <2>2. ASSUME NEW s \in Runs, s # r, phase'[s] # "off" PROVE plan'[s] \in Plans
    BY <2>1, <2>2 DEF Attended
  <2>3. ASSUME NEW s \in Runs, NEW k \in Keys, queue[s][k] # <<>>, s # r
        PROVE  Attends(s, k)'
    BY <2>1, <2>3, AttendsSame DEF Attended
  <2>4. \A k \in Keys : queue[r][k] = <<>>
    BY <2>1 DEF Attended, Attends
  <2> QED BY <2>1, <2>2, <2>3, <2>4 DEF Attended
<1>3. ASSUME NEW r \in Runs, Gone(r) PROVE Attended'
  <2>1. /\ phase'[r] = "off"
        /\ \A s \in Runs : s # r => /\ phase'[s] = phase[s] /\ plan'[s] = plan[s]
                                    /\ queue'[s] = queue[s]
        /\ \A w \in Threads : RunOf[w] # r => pc'[w] = pc[w] /\ seen'[w] = seen[w]
        /\ \A k \in Keys : queue'[r][k] = <<>>
    BY <1>3, GoneFacts
  <2>2. ASSUME NEW s \in Runs, phase'[s] # "off" PROVE plan'[s] \in Plans
    BY <2>1, <2>2 DEF Attended
  <2>3. ASSUME NEW s \in Runs, NEW k \in Keys, queue'[s][k] # <<>>
        PROVE  Attends(s, k)'
    BY <2>1, <2>3, AttendsSame DEF Attended
  <2> QED BY <2>2, <2>3 DEF Attended
<1>4. ASSUME NEW r \in Runs, RouteNext(r) PROVE Attended'
  <2>1. PICK c \in route[r] :
          \/ UNCHANGED queue
          \/ /\ RouteCell(r, c) # NoRoute
             /\ queue' = [queue EXCEPT ![r][RouteCell(r, c)] = Append(@, c)]
    BY <1>4 DEF RouteNext
  <2>2. c \in Cells /\ UNCHANGED <<phase, plan, pc, seen>> /\ phase[r] = "routing"
    BY <1>4 DEF RouteNext, threadVars, TypeOK, InvocationsOK
  <2>3. ASSUME NEW s \in Runs, NEW k \in Keys, Attends(s, k) PROVE Attends(s, k)'
    BY <2>2, <2>3, AttendsSame
  <2>4. CASE UNCHANGED queue
    BY <2>2, <2>3, <2>4 DEF Attended
  <2>5. ASSUME NEW k, k = RouteCell(r, c), k # NoRoute,
               queue' = [queue EXCEPT ![r][k] = Append(@, c)]
        PROVE  Attended'
    <3>1. k \in Keys /\ k \subseteq plan[r].fleet /\ QueuesOK
      BY <2>2, <2>5, RouteKey DEF TypeOK
    <3>2. \A s \in Runs, l \in Keys : s # r \/ l # k => queue'[s][l] = queue[s][l]
      <4>1. queue' = [queue EXCEPT ![r][k] = Append(@, c)]
        BY <2>5
      <4> QED BY <2>2, <3>1, <4>1, QueueAppend
    <3>3. Attends(r, k)'
      BY <2>2, <3>1 DEF Attends
    <3> QED BY <2>2, <2>3, <3>2, <3>3 DEF Attended
  <2> QED BY <2>1, <2>4, <2>5
<1>5. ASSUME NEW r \in Runs, FirstPass(r) PROVE Attended'
  <2>1. /\ phase[r] = "routing" /\ phase'[r] = "initial" /\ UNCHANGED <<queue, plan, pc, seen>>
        /\ \A s \in Runs : s # r => phase'[s] = phase[s]
    BY <1>5 DEF FirstPass, StartPass, threadVars, TypeOK, InvocationsOK
  <2>2. ASSUME NEW s \in Runs, NEW k \in Keys, queue[s][k] # <<>>, s # r
        PROVE  Attends(s, k)'
    BY <2>1, <2>2, AttendsSame DEF Attended
  <2>3. ASSUME NEW k \in Keys, queue[r][k] # <<>> PROVE Attends(r, k)'
    BY <2>1, <2>3 DEF Attended, Attends
  <2> QED BY <2>1, <2>2, <2>3 DEF Attended
<1>6. ASSUME NEW r \in Runs, StartCells(r) PROVE Attended'
  <2>1. /\ phase[r] = "initial" /\ phase'[r] = "cells" /\ UNCHANGED <<queue, plan, seen>>
        /\ \A s \in Runs : s # r => phase'[s] = phase[s]
        /\ \A w \in Threads : pc'[w] = IF w \in Crew(r) THEN "pop" ELSE pc[w]
    BY <1>6 DEF StartCells, TypeOK, InvocationsOK
  <2>2. ASSUME NEW s \in Runs, NEW k \in Keys, queue[s][k] # <<>>, s # r
        PROVE  Attends(s, k)'
    <3>1. \A w \in Threads : RunOf[w] = s => pc'[w] = pc[w] /\ seen'[w] = seen[w]
      BY <2>1, <2>2 DEF Crew
    <3> QED BY <2>1, <2>2, <3>1, AttendsSame DEF Attended
  <2>3. ASSUME NEW k \in Keys, queue[r][k] # <<>> PROVE Attends(r, k)'
    <3>1. k \subseteq plan[r].fleet /\ plan[r] \in Plans
      BY <2>1, <2>3 DEF Attended, Attends
    <3>2. PICK t \in plan[r].fleet : k = {} \/ t \in k
      BY <3>1 DEF FullCrews
    <3>3. PICK w \in Threads : RunOf[w] = r /\ ClientOf[w] = t
      BY <3>1, <3>2 DEF FullCrews
    <3>4. w \in Crew(r) /\ k \in Eligible(w)
      BY <3>1, <3>2, <3>3 DEF Crew, Eligible
    <3>5. pc[w] = "off" /\ seen[w] = {}
      BY <2>1, <3>3 DEF Crewed, HandOK
    <3>6. w \in Crew(r)' /\ k \in Eligible(w)' /\ pc'[w] # "drained" /\ k \notin seen'[w]
      BY <2>1, <3>4, <3>5 DEF Crew, Eligible
    <3> QED BY <2>1, <3>1, <3>6 DEF Attends
  <2> QED BY <2>1, <2>2, <2>3 DEF Attended
<1>7. ASSUME NEW r \in Runs, EndCells(r) PROVE Attended'
  <2>1. /\ phase[r] = "cells" /\ phase'[r] = "final" /\ UNCHANGED <<queue, plan, pc, seen>>
        /\ \A s \in Runs : s # r => phase'[s] = phase[s]
    BY <1>7 DEF EndCells, StartPass, threadVars, TypeOK, InvocationsOK
  <2>2. ASSUME NEW s \in Runs, NEW k \in Keys, queue[s][k] # <<>> PROVE Attends(s, k)'
    <3>1. Crew(s)' = Crew(s) /\ \A w \in Threads : Eligible(w)' = Eligible(w)
      BY <2>1 DEF Crew, Eligible
    <3> QED BY <2>1, <2>2, <3>1 DEF Attended, Attends, Crew
  <2> QED BY <2>1, <2>2 DEF Attended
<1>8. ASSUME NEW w \in Threads, NEW k \in Keys, Pop(w, k) PROVE Attended'
  <2>1. PICK r \in Runs : r = RunOf[w]
    BY CrewAssumption
  <2>2. \A s \in Runs, l \in Keys : s # r \/ l # k => queue'[s][l] = queue[s][l]
    BY <1>8, <2>1, QueueTail DEF Pop, TypeOK
  <2>3. /\ UNCHANGED <<phase, plan>> /\ pc'[w] # "drained" /\ seen'[w] = {}
        /\ \A x \in Threads : x # w => pc'[x] = pc[x] /\ seen'[x] = seen[x]
        /\ queue[r][k] # <<>>
    BY <1>8, <2>1 DEF Pop, TypeOK, ThreadsOK
  <2>4. ASSUME NEW s \in Runs, NEW l \in Keys, Attends(s, l) PROVE Attends(s, l)'
    BY <2>3, <2>4, AttendsMore
  <2> QED BY <2>2, <2>3, <2>4 DEF Attended
<1>9. ASSUME NEW w \in Threads, NEW k \in Keys, PassOverQueue(w, k) PROVE Attended'
  <2>1. PICK r \in Runs : r = RunOf[w]
    BY CrewAssumption
  <2>2. /\ UNCHANGED <<phase, plan, queue>> /\ queue[r][k] = <<>>
        /\ \A x \in Threads : x # w => pc'[x] = pc[x] /\ seen'[x] = seen[x]
        /\ \/ seen[w] \cup {k} = Eligible(w)
           \/ pc'[w] = pc[w] /\ seen'[w] = seen[w] \cup {k}
    BY <1>9, <2>1 DEF PassOverQueue, runVars, TypeOK, ThreadsOK
  <2>3. ASSUME NEW s \in Runs, NEW l \in Keys, queue[s][l] # <<>> PROVE Attends(s, l)'
    <3>1. Attends(s, l) /\ (s # r \/ l # k)
      BY <2>2, <2>3 DEF Attended
    <3>2. ASSUME NEW x \in Crew(s), l \in Eligible(x), pc[x] # "drained", l \notin seen[x]
          PROVE  pc'[x] # "drained" /\ l \notin seen'[x]
      <4>1. x \in Threads /\ RunOf[x] = s
        BY DEF Crew
      <4>2. CASE x # w
        BY <2>2, <3>2, <4>1, <4>2
      <4>3. CASE x = w
        BY <2>1, <2>2, <3>1, <3>2, <4>1, <4>3
      <4> QED BY <4>2, <4>3
    <3>3. Crew(s)' = Crew(s) /\ \A x \in Threads : Eligible(x)' = Eligible(x)
      BY <2>2 DEF Crew, Eligible
    <3> QED BY <2>2, <3>1, <3>2, <3>3 DEF Attends, Crew
  <2> QED BY <2>2, <2>3 DEF Attended
<1>10. ASSUME NEW w \in Threads, ProbeFails(w) PROVE Attended'
  <2>1. PICK r \in Runs, c \in Cells : r = RunOf[w] /\ c = cell[w]
    <3>1. pc[w] \in {"probe", "exec"}
      BY <1>10 DEF ProbeFails
    <3> QED BY <3>1, CrewAssumption DEF TypeOK, ThreadsOK, HandOK
  <2>2. PICK k \in Keys : /\ queue' = [queue EXCEPT ![r][k] = Append(@, c)]
                          /\ k = from[w] \/ k = {ClientOf[w]}
    <3>1. from[w] \in Keys /\ {ClientOf[w]} \in Keys
      BY CrewAssumption DEF TypeOK, ThreadsOK, Keys
    <3>2. \/ queue' = [queue EXCEPT ![r][from[w]] = Append(@, c)]
          \/ queue' = [queue EXCEPT ![r][{ClientOf[w]}] = Append(@, c)]
      BY <1>10, <2>1 DEF ProbeFails, GiveBack
    <3> QED BY <3>1, <3>2
  <2>3. /\ UNCHANGED <<phase, plan, seen>> /\ pc[w] \in {"probe", "exec"} /\ pc'[w] = "wait"
        /\ \A x \in Threads : x # w => pc'[x] = pc[x]
    BY <1>10 DEF ProbeFails, GiveBack, TypeOK, ThreadsOK
  <2>4. \A s \in Runs, l \in Keys : s # r \/ l # k => queue'[s][l] = queue[s][l]
    BY <2>2, QueueAppend DEF TypeOK
  <2>5. ASSUME NEW s \in Runs, NEW l \in Keys, Attends(s, l) PROVE Attends(s, l)'
    BY <2>3, <2>5, AttendsMore
  <2>6. /\ ClientOf[w] \in plan[r].fleet /\ phase[r] # "off" /\ seen[w] = {}
        /\ from[w] \in Eligible(w)
    BY <2>1, <2>3 DEF Crewed, HandOK
  <2>7. k \in Eligible(w) /\ k \subseteq plan[r].fleet /\ w \in Crew(r)
    BY <2>1, <2>2, <2>6 DEF Eligible, Crew
  <2>8. k \in Eligible(w)' /\ w \in Crew(r)'
    BY <2>3, <2>7 DEF Eligible, Crew
  <2>9. Attends(r, k)'
    BY <2>3, <2>6, <2>7, <2>8 DEF Attends
  <2> QED BY <2>3, <2>4, <2>5, <2>9 DEF Attended
<1>11. ASSUME NEW w \in Threads, ProbeAnswers(w) PROVE Attended'
  <2>1. /\ UNCHANGED <<phase, plan, queue, seen>> /\ pc'[w] # "drained"
        /\ \A x \in Threads : x # w => pc'[x] = pc[x]
    BY <1>11 DEF ProbeAnswers, runVars, TypeOK, ThreadsOK
  <2>2. ASSUME NEW s \in Runs, NEW k \in Keys, Attends(s, k) PROVE Attends(s, k)'
    BY <2>1, <2>2, AttendsMore
  <2> QED BY <2>1, <2>2 DEF Attended
<1>12. ASSUME NEW w \in Threads, WriteFails(w) PROVE Attended'
  <2>1. /\ UNCHANGED <<phase, plan, queue, seen>> /\ pc'[w] # "drained"
        /\ \A x \in Threads : x # w => pc'[x] = pc[x]
    BY <1>12 DEF WriteFails, Fault, Drop, runVars, TypeOK, ThreadsOK
  <2>2. ASSUME NEW s \in Runs, NEW k \in Keys, Attends(s, k) PROVE Attends(s, k)'
    BY <2>1, <2>2, AttendsMore
  <2> QED BY <2>1, <2>2 DEF Attended
<1>13. ASSUME NEW w \in Threads, Acquire(w) PROVE Attended'
  <2>1. /\ UNCHANGED <<phase, plan, queue, seen>> /\ pc'[w] # "drained"
        /\ \A x \in Threads : x # w => pc'[x] = pc[x]
    BY <1>13 DEF Acquire, TypeOK, ThreadsOK
  <2>2. ASSUME NEW s \in Runs, NEW k \in Keys, Attends(s, k) PROVE Attends(s, k)'
    BY <2>1, <2>2, AttendsMore
  <2> QED BY <2>1, <2>2 DEF Attended
<1>14. ASSUME NEW w \in Threads, ExecErrs(w) PROVE Attended'
  <2>1. PICK r \in Runs, c \in Cells : r = RunOf[w] /\ c = cell[w]
    <3>1. pc[w] \in {"probe", "exec"}
      BY <1>14 DEF ExecErrs
    <3> QED BY <3>1, CrewAssumption DEF TypeOK, ThreadsOK, HandOK
  <2>2. PICK k \in Keys : /\ queue' = [queue EXCEPT ![r][k] = Append(@, c)]
                          /\ k = from[w] \/ k = {ClientOf[w]}
    <3>1. from[w] \in Keys /\ {ClientOf[w]} \in Keys
      BY CrewAssumption DEF TypeOK, ThreadsOK, Keys
    <3>2. \/ queue' = [queue EXCEPT ![r][from[w]] = Append(@, c)]
          \/ queue' = [queue EXCEPT ![r][{ClientOf[w]}] = Append(@, c)]
      BY <1>14, <2>1 DEF ExecErrs, GiveBack
    <3> QED BY <3>1, <3>2
  <2>3. /\ UNCHANGED <<phase, plan, seen>> /\ pc[w] \in {"probe", "exec"} /\ pc'[w] = "wait"
        /\ \A x \in Threads : x # w => pc'[x] = pc[x]
    BY <1>14 DEF ExecErrs, GiveBack, TypeOK, ThreadsOK
  <2>4. \A s \in Runs, l \in Keys : s # r \/ l # k => queue'[s][l] = queue[s][l]
    BY <2>2, QueueAppend DEF TypeOK
  <2>5. ASSUME NEW s \in Runs, NEW l \in Keys, Attends(s, l) PROVE Attends(s, l)'
    BY <2>3, <2>5, AttendsMore
  <2>6. /\ ClientOf[w] \in plan[r].fleet /\ phase[r] # "off" /\ seen[w] = {}
        /\ from[w] \in Eligible(w)
    BY <2>1, <2>3 DEF Crewed, HandOK
  <2>7. k \in Eligible(w) /\ k \subseteq plan[r].fleet /\ w \in Crew(r)
    BY <2>1, <2>2, <2>6 DEF Eligible, Crew
  <2>8. k \in Eligible(w)' /\ w \in Crew(r)'
    BY <2>3, <2>7 DEF Eligible, Crew
  <2>9. Attends(r, k)'
    BY <2>3, <2>6, <2>7, <2>8 DEF Attends
  <2> QED BY <2>3, <2>4, <2>5, <2>9 DEF Attended
<1>15. ASSUME NEW w \in Threads, ExecExits(w) PROVE Attended'
  <2>1. /\ UNCHANGED <<phase, plan, queue, seen>> /\ pc'[w] # "drained"
        /\ \A x \in Threads : x # w => pc'[x] = pc[x]
    BY <1>15 DEF ExecExits, Release, Drop, TypeOK, ThreadsOK
  <2>2. ASSUME NEW s \in Runs, NEW k \in Keys, Attends(s, k) PROVE Attends(s, k)'
    BY <2>1, <2>2, AttendsMore
  <2> QED BY <2>1, <2>2 DEF Attended
<1>16. ASSUME NEW w \in Threads, ResultLost(w) PROVE Attended'
  <2>1. /\ UNCHANGED <<phase, plan, queue, seen>> /\ pc'[w] # "drained"
        /\ \A x \in Threads : x # w => pc'[x] = pc[x]
    BY <1>16 DEF ResultLost, Fault, Release, Drop, TypeOK, ThreadsOK
  <2>2. ASSUME NEW s \in Runs, NEW k \in Keys, Attends(s, k) PROVE Attends(s, k)'
    BY <2>1, <2>2, AttendsMore
  <2> QED BY <2>1, <2>2 DEF Attended
<1>17. ASSUME NEW w \in Threads, WaitProbe(w) PROVE Attended'
  <2>1. /\ UNCHANGED <<phase, plan, queue, seen>> /\ pc'[w] # "drained"
        /\ \A x \in Threads : x # w => pc'[x] = pc[x]
    BY <1>17 DEF WaitProbe, Fault, runVars, TypeOK, ThreadsOK
  <2>2. ASSUME NEW s \in Runs, NEW k \in Keys, Attends(s, k) PROVE Attends(s, k)'
    BY <2>1, <2>2, AttendsMore
  <2> QED BY <2>1, <2>2 DEF Attended
<1>18. ASSUME NEW w \in Threads, GiveUp(w) PROVE Attended'
  <2>1. /\ UNCHANGED <<phase, plan, queue, seen>> /\ pc'[w] # "drained"
        /\ \A x \in Threads : x # w => pc'[x] = pc[x]
    BY <1>18 DEF GiveUp, runVars, TypeOK, ThreadsOK
  <2>2. ASSUME NEW s \in Runs, NEW k \in Keys, Attends(s, k) PROVE Attends(s, k)'
    BY <2>1, <2>2, AttendsMore
  <2> QED BY <2>1, <2>2 DEF Attended
<1>19. ASSUME NEW w \in Threads, RejoinSync(w) PROVE Attended'
  <2>1. /\ UNCHANGED <<phase, plan, queue, seen>> /\ pc'[w] # "drained"
        /\ \A x \in Threads : x # w => pc'[x] = pc[x]
    BY <1>19 DEF RejoinSync, Release, TypeOK, ThreadsOK
  <2>2. ASSUME NEW s \in Runs, NEW k \in Keys, Attends(s, k) PROVE Attends(s, k)'
    BY <2>1, <2>2, AttendsMore
  <2> QED BY <2>1, <2>2 DEF Attended
<1>20. ASSUME NEW r \in Runs, NEW t \in Clients, PassAcquire(r, t) \/ PassRelease(r,
   t) PROVE UNCHANGED <<phase, plan, queue, pc, seen>>
  BY <1>20 DEF PassAcquire, threadVars, PassRelease
<1>21. CASE UNCHANGED vars
  BY <1>1, <1>21 DEF vars, runVars, threadVars
<1> QED
  BY <1>1, <1>2, <1>3, <1>4, <1>5, <1>6, <1>7, <1>8, <1>9, <1>10, <1>11, <1>12,
     <1>13, <1>14, <1>15, <1>16, <1>17, <1>18, <1>19, <1>20, <1>21, StepCases

\* Init establishes the invariant.
LEMMA InitInv == Init => IInv /\ Attended
<1> SUFFICES ASSUME Init PROVE IInv /\ Attended
  OBVIOUS
<1>1. FileOK /\ InvocationsOK /\ QueuesOK /\ SlotsOK
  BY DEF Init, FileOK, InvocationsOK, QueuesOK, SlotsOK, NoQueue, NoPass, NoSlots, NoIndex,
     NothingLoaded
<1>2. ThreadsOK /\ CountsOK
  BY SizesAssumption DEF Init, ThreadsOK, CountsOK, Keys
<1>3. Crewed /\ HandOK /\ Unbroken /\ Fresh /\ Sharded /\ IndexFresh /\ NotDone
  BY SizesAssumption, CrewAssumption
     DEF Init, Crewed, HandOK, Unbroken, Fresh, Sharded, IndexFresh, NotDone
<1>4. Loaded
  BY DEF Init, NothingLoaded, Loaded
<1>5. \A r \in Runs, k \in Keys : queue[r][k] = <<>> /\ Elements(queue[r][k]) = {}
                                  /\ NoRepeat(queue[r][k])
  BY NoElements DEF Init, NoQueue
<1>6. Owed /\ Once /\ Pinned
  BY <1>5, CrewAssumption DEF Init, Owed, Once, Pinned
<1>7. Passing /\ Slots /\ Attended
  BY <1>5 DEF Init, Passing, NoPass, Slots, Attended
<1> QED BY <1>1, <1>2, <1>3, <1>4, <1>6, <1>7 DEF IInv, TypeOK

\* Every step keeps it.
LEMMA Inductive == ASSUME IInv, [Next]_vars PROVE IInv'
<1>1. TypeOK'
  BY FileStep, InvocationsStep, QueuesStep, SlotsOKStep, ThreadsStep, CountsStep
     DEF IInv, TypeOK
<1>2. Crewed' /\ HandOK' /\ Unbroken' /\ Fresh' /\ Sharded'
  BY CrewedStep, HandStep, UnbrokenStep, FreshStep, ShardedStep DEF IInv
<1>3. Loaded' /\ IndexFresh' /\ NotDone' /\ Owed' /\ Once' /\ Pinned'
  BY LoadedStep, IndexStep, NotDoneStep, OwedStep, OnceStep, PinnedStep DEF IInv
<1>4. Passing' /\ Slots'
  BY PassingStep, SlotsStep DEF IInv
<1> QED BY <1>1, <1>2, <1>3, <1>4 DEF IInv

\* Hence it always holds.
LEMMA Invariance == Spec => []IInv
<1>1. Init => IInv
  BY InitInv
<1>2. IInv /\ [Next]_vars => IInv'
  BY Inductive
<1> QED BY <1>1, <1>2, PTL DEF Spec

\* The type invariant.
THEOREM TypeCorrect == Spec => []TypeOK
<1>1. IInv => TypeOK
  BY DEF IInv
<1> QED BY <1>1, Invariance, PTL

\* A cell an invocation took on is in exactly one queue position or one thread's
\* hand until its result is written, and in none after, whatever fails.
THEOREM NothingLostNorDoubled == Spec => []CellsConserved
<1>1. ASSUME IInv, NEW r \in Runs, NEW c \in Cells
      PROVE  Cardinality(Places(r, c)) = IF c \in owed[r] THEN 1 ELSE 0
  <2>1. \A k \in Keys : queue[r][k] \in Seq(Cells) /\ DOMAIN queue[r][k] = 1 .. Len(queue[r][k])
    BY <1>1, LenProperties DEF IInv, TypeOK, QueuesOK
  <2>2. c # 0
    BY DEF Cells
  <2> DEFINE Spots(k) == {<<k, i>> : i \in {j \in DOMAIN queue[r][k] : queue[r][k][j] = c}}
             Hands == {w \in Threads : RunOf[w] = r /\ cell[w] = c}
  <2>3. Places(r, c) = (UNION {Spots(k) : k \in Keys}) \cup Hands
    BY DEF Places
  <2>4. ASSUME NEW k \in Keys, c \notin Elements(queue[r][k]) PROVE Spots(k) = {}
    BY <2>1, <2>4 DEF Elements
  <2>5. CASE c \notin owed[r]
    <3>1. \A k \in Keys : c \notin Elements(queue[r][k])
      BY <1>1, <2>5 DEF IInv, Owed
    <3>2. Hands = {}
      BY <1>1, <2>2, <2>5 DEF IInv, Owed
    <3>3. Places(r, c) = {}
      BY <2>3, <2>4, <3>1, <3>2
    <3> QED BY <2>5, <3>3, FS_EmptySet
  <2>6. ASSUME c \in owed[r], NEW k \in Keys, c \in Elements(queue[r][k])
        PROVE  Cardinality(Places(r, c)) = 1
    <3>1. PICK i \in 1 .. Len(queue[r][k]) : queue[r][k][i] = c
      BY <2>6 DEF Elements
    <3>2. Spots(k) = {<<k, i>>}
      <4>1. \A j \in 1 .. Len(queue[r][k]) : queue[r][k][j] = c => j = i
        BY <1>1, <3>1 DEF IInv, Once, NoRepeat
      <4> QED BY <2>1, <3>1, <4>1
    <3>3. \A l \in Keys : l # k => Spots(l) = {}
      BY <1>1, <2>4, <2>6 DEF IInv, Once
    <3>4. Hands = {}
      BY <1>1, <2>6 DEF IInv, Once
    <3>5. Places(r, c) = {<<k, i>>}
      <4> HIDE DEF Spots, Hands
      <4> QED BY <2>3, <3>2, <3>3, <3>4
    <3> QED BY <3>5, FS_Singleton
  <2>7. ASSUME c \in owed[r], \A k \in Keys : c \notin Elements(queue[r][k])
        PROVE  Cardinality(Places(r, c)) = 1
    <3>1. PICK w \in Threads : RunOf[w] = r /\ cell[w] = c
      BY <1>1, <2>7 DEF IInv, Owed
    <3>2. Hands = {w}
      BY <1>1, <2>2, <3>1 DEF IInv, Once
    <3>3. \A k \in Keys : Spots(k) = {}
      BY <2>4, <2>7
    <3>4. Places(r, c) = {w}
      <4> HIDE DEF Spots, Hands
      <4> QED BY <2>3, <3>2, <3>3
    <3> QED BY <3>4, FS_Singleton
  <2> QED BY <2>5, <2>6, <2>7
<1>2. IInv => CellsConserved
  BY <1>1 DEF CellsConserved
<1> QED BY <1>2, Invariance, PTL

\* Shards of one plan never hold the same cell.
THEOREM ShardsDisjoint == Spec => []ShardsApart
<1>1. IInv => ShardsApart
  BY ShardAssumption DEF IInv, Sharded, InShard, ShardsApart
<1> QED BY <1>1, Invariance, PTL

\* A box is never over the budget of its most parallel transport.
THEOREM BoxesWithinBudget == Spec => []BoxWithinBudget
<1>1. ASSUME IInv, NEW r \in Runs, NEW b \in Boxes, Busy(r, b) > 0
      PROVE  \E t \in Clients : BoxOf[t] = b /\ Busy(r, b) <= Parallelism(r, t)
  <2>1. Cardinality(Syncing(r, b)) \in Nat /\ Cardinality(Working(r, b)) \in Nat
    BY BusyFinite
  <2>2. phase[r] \in {"initial", "cells", "final"}
    <3>1. Syncing(r, b) # {} \/ Working(r, b) # {}
      BY <1>1, <2>1, FS_EmptySet DEF Busy
    <3>2. CASE Syncing(r, b) # {}
      BY <1>1, <3>2 DEF Syncing, IInv, Passing
    <3>3. CASE Working(r, b) # {}
      BY <1>1, <3>3 DEF Working, IInv, Crewed
    <3> QED BY <3>1, <3>2, <3>3
  <2>3. free[r][b] + Busy(r, b) = Capacity(r, b) /\ free[r][b] \in Nat
    BY <1>1, <2>2 DEF IInv, Slots, TypeOK, SlotsOK
  <2>4. Busy(r, b) \in Nat
    BY <2>1 DEF Busy
  <2>5. Busy(r, b) <= Capacity(r, b) /\ Capacity(r, b) # 0
    BY <1>1, <2>3, <2>4
  <2> QED BY <2>5, CapacityMax
<1>2. IInv => BoxWithinBudget
  BY <1>1 DEF BoxWithinBudget
<1> QED BY <1>2, Invariance, PTL

\* A cell is left in a queue only where a thread that could have taken it
\* stopped, in any plan that has transports with threads.
THEOREM LeftoversExplained == ASSUME FullCrews PROVE Spec => []LeftoverHasCause
<1>1. Init => IInv /\ Attended
  BY InitInv
<1>2. (IInv /\ Attended) /\ [Next]_vars => (IInv /\ Attended)'
  BY FullCrews, Inductive, AttendedStep DEF IInv
<1>3. IInv /\ Attended => LeftoverHasCause
  BY DEF IInv, Crewed, HandOK, Attended, Attends, LeftoverHasCause, Crew
<1> QED BY <1>1, <1>2, <1>3, PTL DEF Spec

\* A step that writes about a cell is a thread's, with the cell in its hand, and
\* appends one event.
LEMMA WriterHoldsCell ==
    ASSUME TypeOK, HandOK, [Next]_vars, NEW c \in Cells, Attempts(c)
    PROVE  \E w \in Threads, status \in {"started", "success", "failed"} :
             pc[w] \in {"probe", "exec"} /\ c = cell[w] /\ Record(cell[w], status, w)
<1>1. ASSUME NEW w \in Threads, NEW status \in {"started", "success", "failed"},
             pc[w] \in {"probe", "exec"}, Record(cell[w], status, w)
      PROVE  c = cell[w]
  <2>1. CellKey[c] = CellKey[cell[w]]
    BY <1>1, RecordFacts, KeyAssumption DEF Attempts
  <2>2. LastEvent(log'[CellKey[c]]).cell = cell[w]
    <3>1. /\ Len(log'[CellKey[cell[w]]]) = Len(log[CellKey[cell[w]]]) + 1
          /\ log'[CellKey[cell[w]]][Len(log[CellKey[cell[w]]]) + 1].cell = cell[w]
      BY <1>1, RecordFacts
    <3> QED BY <2>1, <3>1 DEF LastEvent
  <2> QED BY <2>2 DEF Attempts
<1>2. ASSUME NEW w \in Threads, ProbeAnswers(w)
      PROVE  pc[w] \in {"probe", "exec"} /\ Record(cell[w], "started", w)
  BY <1>2 DEF ProbeAnswers
<1>3. ASSUME NEW w \in Threads, ExecExits(w)
      PROVE  /\ pc[w] \in {"probe", "exec"}
             /\ \E status \in {"success", "failed"} : Record(cell[w], status, w)
  BY <1>3 DEF ExecExits
<1>4. log' # log
  BY DEF Attempts
<1>5. ASSUME NEW r \in Runs, Launch(r) \/ Gone(r) \/ RouteNext(r) \/ FirstPass(r)
                             \/ StartCells(r) \/ EndCells(r)
      PROVE  FALSE
  BY <1>5, <1>4 DEF Launch, Gone, RouteNext, FirstPass, StartCells, EndCells
<1>6. ASSUME NEW r \in Runs, NEW t \in Clients, PassAcquire(r, t) \/ PassRelease(r, t)
      PROVE  FALSE
  BY <1>6, <1>4 DEF PassAcquire, PassRelease
<1>7. ASSUME NEW w \in Threads, NEW k \in Keys, Pop(w, k) \/ PassOverQueue(w, k) PROVE FALSE
  BY <1>7, <1>4 DEF Pop, PassOverQueue
<1>8. ASSUME NEW w \in Threads,
             ProbeFails(w) \/ WriteFails(w) \/ Acquire(w) \/ ExecErrs(w) \/ ResultLost(w)
             \/ WaitProbe(w) \/ GiveUp(w) \/ RejoinSync(w)
      PROVE  FALSE
  BY <1>8, <1>4 DEF ProbeFails, WriteFails, Acquire, ExecErrs, ResultLost, WaitProbe,
     GiveUp, RejoinSync
<1>9. ~ UNCHANGED vars
  BY <1>4 DEF vars
<1>10. \E w \in Threads : ProbeAnswers(w) \/ ExecExits(w)
  BY <1>5, <1>6, <1>7, <1>8, <1>9, StepCases
<1> QED BY <1>1, <1>2, <1>3, <1>10

\* Device affinity survives transport errors, give-backs, kills and restarts: an
\* attempt that an invocation records is on the client of the last event it knows
\* of the cell (of those it loaded under the cell's key and the cell's own),
\* unless the invocation reassigns or ignores pins.
THEOREM AffinityRespected == Spec => AffinityKept
<1>1. ASSUME IInv, [Next]_vars, NEW c \in Cells, Attempts(c)
      PROVE  \E r \in Runs :
                /\ c \in owed[r]
                /\ Strict(r) => \A i \in Latest(Known(r, c)) :
                     LastEvent(log'[CellKey[c]]).client = log[CellKey[c]][i].client
  <2>1. PICK w \in Threads, status \in {"started", "success", "failed"} :
          pc[w] \in {"probe", "exec"} /\ c = cell[w] /\ Record(cell[w], status, w)
    BY <1>1, WriterHoldsCell DEF IInv
  <2>2. LastEvent(log'[CellKey[c]]).client = ClientOf[w]
    <3>1. /\ Len(log'[CellKey[c]]) = Len(log[CellKey[c]]) + 1
          /\ log'[CellKey[c]][Len(log[CellKey[c]]) + 1].client = ClientOf[w]
      BY <1>1, <2>1, RecordFacts DEF IInv
    <3> QED BY <3>1 DEF LastEvent
  <2>3. PICK r \in Runs : r = RunOf[w] /\ c \in owed[r]
    BY <1>1, <2>1, CrewAssumption DEF IInv, HandOK, Owed
  <2>4. ASSUME Strict(r) PROVE Bound(r, c, ClientOf[w])
    <3>1. CASE pc[w] = "exec"
      BY <1>1, <2>1, <2>3, <2>4, <3>1 DEF IInv, Pinned
    <3>2. CASE pc[w] = "probe"
      <4>1. Waits(r, c, from[w]) /\ from[w] \in Eligible(w)
        BY <1>1, <2>1, <2>3, <2>4, <3>2 DEF IInv, Pinned, HandOK
      <4> QED BY <4>1 DEF Waits, Bound, Eligible
    <3> QED BY <2>1, <3>1, <3>2
  <2>5. ASSUME NEW i \in Latest(Known(r, c)) PROVE i \in Binding(r, c)
    <3> DEFINE n == loaded[r][CellKey[c]]
    <3>1. n \in Nat /\ n <= Len(log[CellKey[c]]) /\ Len(log[CellKey[c]]) \in Nat
      BY <1>1, KeyAssumption, LenProperties DEF IInv, TypeOK, FileOK, InvocationsOK, Loaded
    <3>2. i \in Known(r, c) /\ \A j \in Known(r, c) : j <= i
      BY <2>5 DEF Latest
    <3>3. CASE i <= n
      <4>1. n \in Known(r, c)
        BY <3>1, <3>2, <3>3 DEF Known
      <4> QED BY <3>1, <3>2, <3>3, <4>1 DEF Known, Binding
    <3>4. CASE ~ (i <= n)
      BY <3>1, <3>2, <3>4 DEF Known, Binding
    <3> QED BY <3>3, <3>4
  <2> QED BY <2>2, <2>3, <2>4, <2>5 DEF Bound
<1>2. IInv /\ [Next]_vars =>
        [\A c \in Cells : Attempts(c) =>
            \E r \in Runs :
                /\ c \in owed[r]
                /\ Strict(r) => \A i \in Latest(Known(r, c)) :
                     LastEvent(log'[CellKey[c]]).client = log[CellKey[c]][i].client]_vars
  BY <1>1
<1> QED BY <1>2, Invariance, PTL DEF Spec, AffinityKept

\* Without --include-done no invocation writes about a cell it knows a success
\* of: one the cell wrote at any time, or one that any cell of its key had
\* written when the invocation loaded the file.
THEOREM DoneStaysDone == Spec => DoneNotRerun
<1>1. ASSUME IInv, [Next]_vars, NEW c \in Cells, Attempts(c)
      PROVE  \E r \in Runs :
                /\ c \in owed[r]
                /\ opts[r].done \/ \A i \in Known(r, c) :
                     log[CellKey[c]][i].status # "success"
  <2>1. PICK w \in Threads : pc[w] \in {"probe", "exec"} /\ c = cell[w]
    BY <1>1, WriterHoldsCell DEF IInv
  <2>2. RunOf[w] \in Runs /\ c \in owed[RunOf[w]]
    BY <1>1, <2>1, CrewAssumption DEF IInv, HandOK, Owed
  <2> QED BY <1>1, <2>2 DEF IInv, NotDone
<1>2. IInv /\ [Next]_vars =>
        [\A c \in Cells : Attempts(c) =>
            \E r \in Runs :
                /\ c \in owed[r]
                /\ opts[r].done \/ \A i \in Known(r, c) :
                     log[CellKey[c]][i].status # "success"]_vars
  BY <1>1
<1> QED BY <1>2, Invariance, PTL DEF Spec, DoneNotRerun

=============================================================================
