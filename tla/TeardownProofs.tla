--------------------------- MODULE TeardownProofs ---------------------------
(***************************************************************************)
(* Theorems about Teardown, for any number of services, containers and     *)
(* short commands, any number of threads starting them, and every setting  *)
(* of the switches.                                                        *)
(***************************************************************************)
EXTENDS Teardown, TLAPS

\* Every step of the starts, the two drainers and the ends of the process
\* keeps the inductive invariant.
LEMMA InvariantStep ==
    ASSUME TypeOK, RunsInPhase, TakenByDrainers, OwedInHand,
           NotedOnceStarted, AliveAccounted, SignalEndsStarts, LeftNoted,
           [Next]_vars
    PROVE  IInv'
<1> USE DEF childVars, drainVars
<1>1. ASSUME NEW c \in Children, BeginStart(c) PROVE IInv'
  BY <1>1 DEF BeginStart, Moves, Readable, TypeOK, RunsInPhase,
     TakenByDrainers, OwedInHand, NotedOnceStarted, AliveAccounted,
     SignalEndsStarts, LeftNoted, Phases, Drainers, Up, Unregistered,
     MidStart, IInv
<1>2. ASSUME NEW c \in Children, Spawn(c) PROVE IInv'
  <2>1. TypeOK' /\ TakenByDrainers' /\ LeftNoted'
    BY <1>2 DEF Spawn, Moves, TypeOK, TakenByDrainers, LeftNoted, Phases,
       Drainers, Up, MidStart
  <2>2. RunsInPhase'
    BY <1>2 DEF Spawn, Moves, RunsInPhase, TypeOK, Phases, Drainers
  <2>3. OwedInHand'
    BY <1>2 DEF Spawn, Moves, OwedInHand, Up, TypeOK, Phases, Drainers
  <2>4. NotedOnceStarted'
    BY <1>2 DEF Spawn, Moves, NotedOnceStarted, Up, TypeOK, Phases, Drainers
  <2>5. AliveAccounted'
    BY <1>2 DEF Spawn, Moves, AliveAccounted, Up, Unregistered, TypeOK,
       Phases, Drainers
  <2>6. SignalEndsStarts'
    BY <1>2 DEF Spawn, Moves, SignalEndsStarts, OwedInHand, Up
  <2> QED
    BY <2>1, <2>2, <2>3, <2>4, <2>5, <2>6 DEF IInv
<1>3. ASSUME NEW c \in Children, Register(c) PROVE IInv'
  <2>1. TypeOK' /\ RunsInPhase' /\ TakenByDrainers' /\ OwedInHand' /\
     AliveAccounted' /\ SignalEndsStarts' /\ LeftNoted'
    BY <1>3 DEF Register, Moves, TypeOK, RunsInPhase, TakenByDrainers,
       OwedInHand, AliveAccounted, SignalEndsStarts, LeftNoted, Phases,
       Drainers, Up, Unregistered, MidStart
  <2>2. NotedOnceStarted'
    BY <1>3 DEF Register, Moves, NotedOnceStarted, Up, TypeOK, Children
  <2> QED
    BY <2>1, <2>2 DEF IInv
<1>4. ASSUME NEW c \in Children, WriteNote(c) PROVE IInv'
  BY <1>4 DEF WriteNote, Noting, AfterNote, Moves, TypeOK, RunsInPhase,
     TakenByDrainers, OwedInHand, NotedOnceStarted, AliveAccounted,
     SignalEndsStarts, LeftNoted, Phases, Drainers, Up, Unregistered,
     MidStart, IInv
<1>5. ASSUME NEW c \in Children, NoteFails(c) PROVE IInv'
  <2>1. TakenByDrainers' /\ SignalEndsStarts' /\ LeftNoted'
    BY <1>5 DEF NoteFails, Noting, AfterNote, Moves, TakenByDrainers,
       SignalEndsStarts, LeftNoted, Up, MidStart
  <2>2. TypeOK'
    <3>1. CASE UNCHANGED drainVars
      BY <1>5, <3>1 DEF NoteFails, Noting, Moves, AfterNote, TypeOK, Phases
    <3>2. CASE ~UNCHANGED drainVars
      BY <1>5, <3>2 DEF NoteFails, Noting, TypeOK, Phases
    <3> QED
      BY <3>1, <3>2
  <2>3. RunsInPhase'
    BY <1>5 DEF NoteFails, Noting, AfterNote, Moves, RunsInPhase, TypeOK,
       Phases, Drainers
  <2>4. OwedInHand'
    BY <1>5 DEF NoteFails, Noting, AfterNote, Moves, OwedInHand, Up, TypeOK,
       Phases, Drainers
  <2>5. NotedOnceStarted'
    BY <1>5 DEF NoteFails, Noting, AfterNote, Moves, NotedOnceStarted, Up,
       TypeOK, Phases, Drainers
  <2>6. AliveAccounted'
    BY <1>5 DEF NoteFails, Noting, AfterNote, Moves, AliveAccounted, Up,
       Unregistered, TypeOK, Phases, Drainers
  <2> QED
    BY <2>1, <2>2, <2>3, <2>4, <2>5, <2>6 DEF IInv
<1>6. ASSUME NEW c \in Children, EndStart(c) PROVE IInv'
  BY <1>6 DEF EndStart, Moves, TypeOK, RunsInPhase, TakenByDrainers,
     OwedInHand, NotedOnceStarted, AliveAccounted, SignalEndsStarts,
     LeftNoted, Phases, Drainers, Up, Unregistered, MidStart, IInv
<1>7. ASSUME NEW c \in Children, ChildExits(c) PROVE IInv'
  BY <1>7 DEF ChildExits, TypeOK, RunsInPhase, TakenByDrainers, OwedInHand,
     NotedOnceStarted, AliveAccounted, SignalEndsStarts, LeftNoted, Phases,
     Drainers, Up, Unregistered, MidStart, IInv
<1>8. ASSUME NEW c \in Children, StopChild(c) PROVE IInv'
  BY <1>8 DEF StopChild, Moves, TypeOK, RunsInPhase, TakenByDrainers,
     OwedInHand, NotedOnceStarted, AliveAccounted, SignalEndsStarts,
     LeftNoted, Phases, Drainers, Up, Unregistered, MidStart, IInv
<1>9. ASSUME NEW c \in Children, Finish(c) PROVE IInv'
  <2>1. TypeOK' /\ RunsInPhase' /\ TakenByDrainers' /\ OwedInHand' /\
     NotedOnceStarted' /\ SignalEndsStarts' /\ LeftNoted'
    BY <1>9 DEF Finish, Moves, TypeOK, RunsInPhase, TakenByDrainers,
       OwedInHand, NotedOnceStarted, SignalEndsStarts, LeftNoted, Phases,
       Drainers, Up, MidStart
  <2>2. AliveAccounted'
    BY <1>9 DEF Finish, Moves, AliveAccounted, Up, Unregistered, RunsInPhase
  <2> QED
    BY <2>1, <2>2 DEF IInv
<1>10. CASE Signal
  BY <1>10 DEF Signal, TypeOK, RunsInPhase, TakenByDrainers, OwedInHand,
     NotedOnceStarted, AliveAccounted, SignalEndsStarts, LeftNoted, Phases,
     Drainers, Up, Unregistered, MidStart, IInv
<1>11. CASE SignalAbsorbed
  BY <1>11 DEF SignalAbsorbed, Readers, MidStart, Idle, CanAbsorb, TypeOK,
     RunsInPhase, TakenByDrainers, OwedInHand, NotedOnceStarted,
     AliveAccounted, SignalEndsStarts, LeftNoted, Phases, Drainers, Up,
     Unregistered, IInv
<1>12. CASE SignalTakes
  <2>1. TypeOK' /\ RunsInPhase' /\ TakenByDrainers' /\ NotedOnceStarted' /\
     LeftNoted'
    BY <1>12 DEF SignalTakes, Readers, MidStart, Idle, CanAbsorb, TypeOK,
       RunsInPhase, TakenByDrainers, NotedOnceStarted, LeftNoted, Phases,
       Drainers, Up
  <2>2. OwedInHand'
    BY <1>12 DEF SignalTakes, Readers, MidStart, OwedInHand, Up,
       AliveAccounted, Unregistered, RunsInPhase, TakenByDrainers, TypeOK,
       Drainers
  <2>3. AliveAccounted'
    BY <1>12 DEF SignalTakes, Readers, MidStart, Idle, CanAbsorb,
       AliveAccounted, Up, Unregistered, TypeOK, Phases, Drainers,
       TakenByDrainers
  <2>4. SignalEndsStarts'
    BY <1>12 DEF SignalTakes, Readers, MidStart, Idle, CanAbsorb,
       SignalEndsStarts, OwedInHand, Up
  <2> QED
    BY <2>1, <2>2, <2>3, <2>4 DEF IInv
<1>13. CASE CloseStderr
  BY <1>13 DEF CloseStderr, TypeOK, RunsInPhase, TakenByDrainers,
     OwedInHand, NotedOnceStarted, AliveAccounted, SignalEndsStarts,
     LeftNoted, Phases, Drainers, Up, Unregistered, MidStart, IInv
<1>14. CASE OutputClosed
  BY <1>14 DEF OutputClosed, TypeOK, RunsInPhase, TakenByDrainers,
     OwedInHand, NotedOnceStarted, AliveAccounted, SignalEndsStarts,
     LeftNoted, Phases, Drainers, Up, Unregistered, MidStart, IInv
<1>15. CASE OutputTakes
  <2>1. TypeOK' /\ RunsInPhase' /\ TakenByDrainers' /\ NotedOnceStarted' /\
     LeftNoted'
    BY <1>15 DEF OutputTakes, TypeOK, RunsInPhase, TakenByDrainers,
       NotedOnceStarted, LeftNoted, Phases, Drainers, Up, MidStart
  <2>2. OwedInHand'
    BY <1>15 DEF OutputTakes, OwedInHand, Up, TakenByDrainers
  <2>3. AliveAccounted'
    BY <1>15 DEF OutputTakes, AliveAccounted, Up, Unregistered, TypeOK,
       Phases, Drainers, TakenByDrainers
  <2>4. SignalEndsStarts'
    BY <1>15 DEF OutputTakes, SignalEndsStarts, TakenByDrainers
  <2> QED
    BY <2>1, <2>2, <2>3, <2>4 DEF IInv
<1>16. CASE MainReturns
  <2>1. TypeOK' /\ RunsInPhase' /\ TakenByDrainers' /\ OwedInHand' /\
     NotedOnceStarted' /\ AliveAccounted' /\ SignalEndsStarts'
    BY <1>16 DEF MainReturns, TypeOK, RunsInPhase, TakenByDrainers,
       OwedInHand, NotedOnceStarted, AliveAccounted, SignalEndsStarts,
       Phases, Drainers, Up, Unregistered
  <2>2. LeftNoted'
    BY <1>16 DEF MainReturns, LeftNoted, Up, MidStart, RunsInPhase, TypeOK
  <2> QED
    BY <2>1, <2>2 DEF IInv
<1>17. CASE Kill
  <2>1. TypeOK' /\ RunsInPhase' /\ TakenByDrainers' /\ OwedInHand' /\
     NotedOnceStarted' /\ AliveAccounted' /\ SignalEndsStarts'
    BY <1>17 DEF Kill, TypeOK, RunsInPhase, TakenByDrainers, OwedInHand,
       NotedOnceStarted, AliveAccounted, SignalEndsStarts, Phases, Drainers,
       Up, Unregistered
  <2>2. LeftNoted'
    BY <1>17 DEF Kill, LeftNoted, Up, MidStart, RunsInPhase,
       NotedOnceStarted, TypeOK
  <2> QED
    BY <2>1, <2>2 DEF IInv
<1>18. CASE ReapOrphans
  BY <1>18 DEF ReapOrphans, TypeOK, RunsInPhase, TakenByDrainers,
     OwedInHand, NotedOnceStarted, AliveAccounted, SignalEndsStarts,
     LeftNoted, Phases, Drainers, Up, Unregistered, MidStart, IInv
<1>19. ASSUME NEW d \in Drainers, NEW c \in Children, TearDownSession(d, c)
   PROVE IInv'
  BY <1>19 DEF TearDownSession, Draining, TypeOK, RunsInPhase,
     TakenByDrainers, OwedInHand, NotedOnceStarted, AliveAccounted,
     SignalEndsStarts, LeftNoted, Phases, Drainers, Up, Unregistered,
     MidStart, IInv
<1>20. ASSUME NEW d \in Drainers, StartDockerKill(d) PROVE IInv'
  BY <1>20 DEF StartDockerKill, Draining, Readable, TypeOK, RunsInPhase,
     TakenByDrainers, OwedInHand, NotedOnceStarted, AliveAccounted,
     SignalEndsStarts, LeftNoted, Phases, Drainers, Up, Unregistered,
     MidStart, IInv
<1>21. ASSUME NEW d \in Drainers, NEW c \in Children, TearDownContainer(d,
   c) PROVE IInv'
  BY <1>21 DEF TearDownContainer, TypeOK, RunsInPhase, TakenByDrainers,
     OwedInHand, NotedOnceStarted, AliveAccounted, SignalEndsStarts,
     LeftNoted, Phases, Drainers, Up, Unregistered, MidStart, IInv
<1>22. ASSUME NEW d \in Drainers, Exit(d) PROVE IInv'
  <2>1. TypeOK' /\ RunsInPhase' /\ TakenByDrainers' /\ OwedInHand' /\
     NotedOnceStarted' /\ AliveAccounted'
    BY <1>22 DEF Exit, Draining, TypeOK, RunsInPhase, TakenByDrainers,
       OwedInHand, NotedOnceStarted, AliveAccounted, Phases, Drainers, Up,
       Unregistered
  <2>2. SignalEndsStarts'
    BY <1>22 DEF Exit, Draining, SignalEndsStarts, OwedInHand, Up
  <2>3. LeftNoted'
    BY <1>22 DEF Exit, LeftNoted, Up, MidStart, RunsInPhase,
       NotedOnceStarted, TypeOK
  <2> QED
    BY <2>1, <2>2, <2>3 DEF IInv
<1>23. CASE UNCHANGED vars
  BY <1>23 DEF vars, IInv, TypeOK, RunsInPhase, TakenByDrainers, OwedInHand,
     NotedOnceStarted, AliveAccounted, SignalEndsStarts, LeftNoted, Phases,
     Drainers, Up, Unregistered, MidStart
<1> QED
  BY <1>1, <1>2, <1>3, <1>4, <1>5, <1>6, <1>7, <1>8, <1>9, <1>10, <1>11,
     <1>12, <1>13, <1>14, <1>15, <1>16, <1>17, <1>18, <1>19, <1>20, <1>21,
     <1>22, <1>23 DEF Next, StartStep, Drain

\* IInv: where a child's owner is, who has its teardown and whether it has a
\* note stay in step.
THEOREM Inductive == Spec => []IInv
<1>1. Init => IInv
  BY DEF Init, IInv, TypeOK, Phases, Drainers, RunsInPhase, TakenByDrainers,
     OwedInHand, NotedOnceStarted, AliveAccounted, SignalEndsStarts,
     LeftNoted, Up
<1>2. IInv /\ [Next]_vars => IInv'
  BY InvariantStep DEF IInv
<1> QED
  BY <1>1, <1>2, PTL DEF Spec

\* The types are respected.
THEOREM TypeCorrect == Spec => []TypeOK
<1>1. IInv => TypeOK
  BY DEF IInv
<1> QED
  BY <1>1, Inductive, PTL

\* While the process runs, every session of it has a registered teardown, is
\* in a drainer's hands, or belongs to a start that holds STARTS.
THEOREM EveryChildAccounted == Spec => []AliveAccounted
<1>1. IInv => AliveAccounted
  BY DEF IInv
<1> QED
  BY <1>1, Inductive, PTL

\* handle_signal ends every start that was in flight when it selected.
THEOREM SignalsEndStarts == Spec => []SignalEndsStarts
<1>1. IInv => SignalEndsStarts
  BY DEF IInv
<1> QED
  BY <1>1, Inductive, PTL

\* A session the process leaves behind after its start is one the next run's
\* reap_orphans finds, unless it has no note by design or by a failed write.
THEOREM WhatIsLeftIsNoted == Spec => []LeftNoted
<1>1. IInv => LeftNoted
  BY DEF IInv
<1> QED
  BY <1>1, Inductive, PTL

\* A signal absorbed by the stop flag leaves no service or container running,
\* except one the closed-output thread is tearing down.
THEOREM GracefulStopsAreIdle == Spec => GracefulSparesNoChild
<1>1. IInv => [SignalAbsorbed => alive \subseteq Shorts \cup taken["output"]]_vars
  BY DEF IInv, AliveAccounted, TakenByDrainers, TypeOK, Drainers,
     SignalAbsorbed, Readers, MidStart, Unregistered, Idle, Up
<1> QED
  BY <1>1, Inductive, PTL DEF GracefulSparesNoChild

=============================================================================
