---------------------------- MODULE WorkerProofs ----------------------------
(***************************************************************************)
(* Theorems about Worker, for every set of jobs and every value of the     *)
(* bounds: the types are respected, and the safety invariants and the      *)
(* action property the runs check on small instances hold.                 *)
(***************************************************************************)
EXTENDS Worker, TLAPS

USE NoJobAssumption, BoundsAssumption, FlagsAssumption

\* Every action keeps every variable in its type; the submit counter stays
\* within ATTEMPTS and the answered jobs within --max-jobs.
LEMMA TypeStep ==
    ASSUME StateOK, FlagsOK, Scopes, [Next]_vars PROVE StateOK'
<1> USE DEF serverVars, diskVars, clockVars, loopVars, markVars, runVars,
        leaseVars, postVars, drainVars, historyVars
<1>1. CASE ProfileReady
  BY <1>1 DEF ProfileReady, StateOK, PC
<1>2. CASE ProfileStops
  BY <1>2 DEF ProfileStops, Leave, ProcessEnds, StateOK, PC, Results, Bodies
<1>3. CASE LoopTop
  <2>1. CASE stop
    BY <1>3, <2>1 DEF LoopTop, Leave, ProcessEnds, StateOK, PC, Results,
       Bodies
  <2>2. CASE ~stop
    BY <1>3, <2>2 DEF LoopTop, Leave, StateOK, Scopes, Running, PC
  <2>3. QED
    BY <1>3, <2>1, <2>2
<1>4. CASE ClaimJob
  BY <1>4 DEF ClaimJob, Claimable, StateOK, Where, PC
<1>5. CASE ClaimIdle
  BY <1>5 DEF ClaimIdle, StateOK, PC
<1>6. CASE ClaimRefused
  BY <1>6 DEF ClaimRefused, Leave, ProcessEnds, StateOK, PC, Results, Bodies
<1>7. CASE ClaimTransient
  BY <1>7 DEF ClaimTransient, StateOK, Where, PC
<1>8. CASE ClaimBackoff
  <2>1. CASE stop
    BY <1>8, <2>1 DEF ClaimBackoff, Leave, ProcessEnds, StateOK, PC,
       Results, Bodies
  <2>2. CASE ~stop
    BY <1>8, <2>2 DEF ClaimBackoff, Leave, StateOK, Scopes, Running, PC
  <2>3. QED
    BY <1>8, <2>1, <2>2
<1>9. CASE DecideClaim
  BY <1>9 DEF DecideClaim, StateOK, PC, Bodies
<1>10. CASE RegisterTeardown
  BY <1>10 DEF RegisterTeardown, StateOK, PC
<1>11. CASE MarkRun
  <2>1. CASE MarkerWritten
    BY <1>11, <2>1 DEF MarkRun, MarkerWritten, MarkerRefused, StateOK, PC,
       Markers
  <2>2. CASE MarkerRefused
    BY <1>11, <2>2 DEF MarkRun, MarkerWritten, MarkerRefused, Disowned,
       StateOK, PC, Teardowns, Clock, Boots, NoMarker, Markers
  <2>3. QED
    BY <1>11, <2>1, <2>2 DEF MarkRun
<1>12. CASE StartEngine
  BY <1>12 DEF StartEngine, StateOK, Scopes, Unclaimed, PC
<1>13. CASE FinishRun
  BY <1>13 DEF FinishRun, RunOutcomes, StateOK, PC, Results
<1>14. CASE JoinHeartbeat
  BY <1>14 DEF JoinHeartbeat, StateOK, PC
<1>15. CASE Disarm
  BY <1>15 DEF Disarm, Retired, Disowned, StateOK, PC, Teardowns, Clock,
     Boots, NoMarker, Markers
<1>16. CASE HeldTouch
  BY <1>16 DEF HeldTouch, Leave, ProcessEnds, StateOK, PC, Results, Bodies
<1>17. CASE SkipSubmit
  <2>1. CASE Reached
    BY <1>17, <2>1 DEF SkipSubmit, JobDone, ProcessEnds, StateOK, PC,
       Results, Bodies
  <2>2. CASE ~Reached
    <3>1. completed' \in 0 .. MaxJobs
      BY <1>17, <2>2 DEF SkipSubmit, JobDone, NextJob, Reached, StateOK
    <3>2. QED
      BY <1>17, <2>2, <3>1 DEF SkipSubmit, JobDone, NextJob, StateOK, PC,
         Bodies, Results
  <2>3. QED
    BY <1>17, <2>1, <2>2
<1>18. CASE SubmitFinishedRun
  BY <1>18 DEF SubmitFinishedRun, StateOK, PC, Bodies
<1>19. CASE PostAccepted
  <2>1. CASE body = "success"
    BY <1>19, <2>1 DEF PostAccepted, Accept, Delivered, StateOK, Scopes,
       Unclaimed, Where, PC
  <2>2. CASE body # "success" /\ Reached
    BY <1>19, <2>2 DEF PostAccepted, Accept, Delivered, JobDone,
       ProcessEnds, StateOK, Scopes, Unclaimed, Where, PC, Results, Bodies,
       Clock, Boots, NoMarker, Markers
  <2>3. CASE body # "success" /\ ~Reached
    <3>1. completed' \in 0 .. MaxJobs
      BY <1>19, <2>3 DEF PostAccepted, Accept, Delivered, JobDone, NextJob,
         Reached, StateOK
    <3>2. QED
      BY <1>19, <2>3, <3>1 DEF PostAccepted, Accept, Delivered, JobDone,
         NextJob, StateOK, Scopes, Unclaimed, Where, PC, Bodies, Results,
         NoMarker, Markers, Clock, Boots
  <2>4. QED
    BY <1>19, <2>1, <2>2, <2>3
<1>20. CASE PostSuperseded
  <2>1. CASE body = "success"
    BY <1>20, <2>1 DEF PostSuperseded, Delivered, StateOK, Scopes,
       Unclaimed, PC
  <2>2. CASE body # "success" /\ Reached
    BY <1>20, <2>2 DEF PostSuperseded, Delivered, JobDone, ProcessEnds,
       StateOK, PC, Results, Bodies, Clock, Boots, NoMarker, Markers
  <2>3. CASE body # "success" /\ ~Reached
    <3>1. completed' \in 0 .. MaxJobs
      BY <1>20, <2>3 DEF PostSuperseded, Delivered, JobDone, NextJob,
         Reached, StateOK
    <3>2. QED
      BY <1>20, <2>3, <3>1 DEF PostSuperseded, Delivered, JobDone, NextJob,
         StateOK, PC, Bodies, Results, NoMarker, Markers, Clock, Boots
  <2>4. QED
    BY <1>20, <2>1, <2>2, <2>3
<1>21. CASE PostNotFound
  BY <1>21 DEF PostNotFound, StateOK, PC
<1>22. CASE PostTransient
  BY <1>22 DEF PostTransient, Accept, StateOK, Scopes, Unclaimed, Where, PC
<1>23. CASE PostRefused
  <2>1. CASE body = "success"
    BY <1>23, <2>1 DEF PostRefused, StateOK, Bodies
  <2>2. CASE body # "success"
    BY <1>23, <2>2 DEF PostRefused, ProcessEnds, StateOK, PC, Results,
       Bodies
  <2>3. QED
    BY <1>23, <2>1, <2>2
<1>24. CASE ReclaimOk
  BY <1>24 DEF ReclaimOk, StateOK, Scopes, Unclaimed, Where, PC
<1>25. CASE ReclaimTransient
  BY <1>25 DEF ReclaimTransient, StateOK, Where, PC
<1>26. CASE ReclaimRefused
  <2>1. CASE body = "success"
    BY <1>26, <2>1 DEF ReclaimRefused, Delivered, StateOK, Scopes,
       Unclaimed, PC
  <2>2. CASE body # "success" /\ Reached
    BY <1>26, <2>2 DEF ReclaimRefused, Delivered, JobDone, ProcessEnds,
       StateOK, PC, Results, Bodies, Clock, Boots, NoMarker, Markers
  <2>3. CASE body # "success" /\ ~Reached
    <3>1. completed' \in 0 .. MaxJobs
      BY <1>26, <2>3 DEF ReclaimRefused, Delivered, JobDone, NextJob,
         Reached, StateOK
    <3>2. QED
      BY <1>26, <2>3, <3>1 DEF ReclaimRefused, Delivered, JobDone, NextJob,
         StateOK, PC, Bodies, Results, NoMarker, Markers, Clock, Boots
  <2>4. QED
    BY <1>26, <2>1, <2>2, <2>3
<1>27. CASE SubmitBackoff
  <2>1. CASE (stop \/ tries = Attempts) /\ Reached
    BY <1>27, <2>1 DEF SubmitBackoff, Undelivered, JobDone, ProcessEnds,
       StateOK, PC, Results, Bodies
  <2>2. CASE (stop \/ tries = Attempts) /\ ~Reached
    <3>1. completed' \in 0 .. MaxJobs
      BY <1>27, <2>2 DEF SubmitBackoff, Undelivered, JobDone, NextJob,
         Reached, StateOK
    <3>2. QED
      BY <1>27, <2>2, <3>1 DEF SubmitBackoff, Undelivered, JobDone, NextJob,
         StateOK, PC, Bodies, Results
  <2>3. CASE ~(stop \/ tries = Attempts)
    <3>1. tries' \in 0 .. Attempts
      BY <1>27, <2>3 DEF SubmitBackoff, Undelivered, StateOK
    <3>2. QED
      BY <1>27, <2>3, <3>1 DEF SubmitBackoff, Undelivered, StateOK, PC
  <2>4. QED
    BY <1>27, <2>1, <2>2, <2>3
<1>28. CASE StoreResult
  BY <1>28 DEF StoreResult, StateOK, Scopes, Unclaimed, PC
<1>29. CASE RetireCheckpoint
  <2>1. CASE Reached
    BY <1>29, <2>1 DEF RetireCheckpoint, JobDone, ProcessEnds, StateOK, PC,
       Results, Bodies
  <2>2. CASE ~Reached
    <3>1. completed' \in 0 .. MaxJobs
      BY <1>29, <2>2 DEF RetireCheckpoint, JobDone, NextJob, Reached,
         StateOK
    <3>2. QED
      BY <1>29, <2>2, <3>1 DEF RetireCheckpoint, JobDone, NextJob, StateOK,
         PC, Bodies, Results
  <2>3. QED
    BY <1>29, <2>1, <2>2
<1>30. CASE BeatRefresh
  BY <1>30 DEF BeatRefresh, StateOK, Markers
<1>31. CASE BeatStops
  BY <1>31 DEF BeatStops, Retired, StateOK, Clock, Boots, NoMarker, Markers
<1>32. CASE HeartbeatNotFound
  BY <1>32 DEF HeartbeatNotFound, StateOK
<1>33. CASE HeartbeatSuperseded
  BY <1>33 DEF HeartbeatSuperseded, StateOK
<1>34. CASE HeartbeatReclaim
  BY <1>34 DEF HeartbeatReclaim, StateOK, Where
<1>35. CASE HeartbeatAborts
  BY <1>35 DEF HeartbeatAborts, StateOK
<1>36. CASE TearDownMarker
  BY <1>36 DEF TearDownMarker, Retired, StateOK, Clock, Boots, NoMarker,
     Markers
<1>37. CASE TearDownOldMarker
  BY <1>37 DEF TearDownOldMarker, StateOK, Clock, Boots, NoMarker, Markers
<1>38. CASE TearDownEngine
  BY <1>38 DEF TearDownEngine, StateOK
<1>39. CASE ForcedExit
  BY <1>39 DEF ForcedExit, ProcessEnds, Abandoned, StateOK, Scopes,
     Unclaimed, Running, PC, Results, Bodies
<1>40. CASE StartWorker
  BY <1>40 DEF StartWorker, StateOK, PC
<1>41. CASE SignalGraceful
  BY <1>41 DEF SignalGraceful, StateOK
<1>42. CASE SignalForced
  BY <1>42 DEF SignalForced, Registered, StateOK, Teardowns
<1>43. CASE OutputClosed
  BY <1>43 DEF OutputClosed, Registered, StateOK, Teardowns
<1>44. CASE Kill
  BY <1>44 DEF Kill, ProcessEnds, Abandoned, StateOK, Scopes, Unclaimed,
     Running, PC, Results, Bodies
<1>45. CASE PowerCycle
  BY <1>45 DEF PowerCycle, ProcessEnds, Abandoned, StateOK, Scopes,
     Unclaimed, Running, PC, Results, Bodies, Clock, Boots
<1>46. CASE Tick
  BY <1>46 DEF Tick, StateOK, Clock
<1>47. CASE LeaseLapses
  BY <1>47 DEF LeaseLapses, StateOK, Where
<1>48. CASE OtherClaims
  BY <1>48 DEF OtherClaims, StateOK, Where
<1>49. CASE OtherSettles
  BY <1>49 DEF OtherSettles, StateOK, Where
<1>50. CASE UNCHANGED vars
  BY <1>50 DEF vars, StateOK
<1>51. QED
  BY <1>1, <1>2, <1>3, <1>4, <1>5, <1>6, <1>7, <1>8, <1>9, <1>10, <1>11,
     <1>12, <1>13, <1>14, <1>15, <1>16, <1>17, <1>18, <1>19, <1>20, <1>21,
     <1>22, <1>23, <1>24, <1>25, <1>26, <1>27, <1>28, <1>29, <1>30, <1>31,
     <1>32, <1>33, <1>34, <1>35, <1>36, <1>37, <1>38, <1>39, <1>40, <1>41,
     <1>42, <1>43, <1>44, <1>45, <1>46, <1>47, <1>48, <1>49, <1>50 DEF Next,
     MainStep, ClaimStep, RunStep, SubmitStep, BeatStep, HeartbeatStep,
     DrainStep, Environment

\* The flags of the process and of its threads stay Boolean.
LEMMA FlagsStep ==
    ASSUME FlagsOK, [Next]_vars PROVE FlagsOK'
<1> USE DEF serverVars, diskVars, clockVars, loopVars, markVars, runVars,
        leaseVars, postVars, drainVars, historyVars
<1>1. CASE ProfileReady
  BY <1>1, Zenon DEF ProfileReady, FlagsOK
<1>2. CASE ProfileStops
  BY <1>2, Zenon DEF ProfileStops, Leave, ProcessEnds, FlagsOK
<1>3. CASE LoopTop
  BY <1>3, Zenon DEF LoopTop, Leave, ProcessEnds, FlagsOK
<1>4. CASE ClaimJob
  BY <1>4, Zenon DEF ClaimJob, FlagsOK
<1>5. CASE ClaimIdle
  BY <1>5, Zenon DEF ClaimIdle, FlagsOK
<1>6. CASE ClaimRefused
  BY <1>6, Zenon DEF ClaimRefused, Leave, ProcessEnds, FlagsOK
<1>7. CASE ClaimTransient
  BY <1>7, Zenon DEF ClaimTransient, FlagsOK
<1>8. CASE ClaimBackoff
  BY <1>8, Zenon DEF ClaimBackoff, Leave, ProcessEnds, FlagsOK
<1>9. CASE DecideClaim
  BY <1>9, Zenon DEF DecideClaim, FlagsOK
<1>10. CASE RegisterTeardown
  BY <1>10, Zenon DEF RegisterTeardown, FlagsOK
<1>11. CASE MarkRun
  BY <1>11, Zenon DEF MarkRun, MarkerWritten, MarkerRefused, FlagsOK
<1>12. CASE StartEngine
  BY <1>12, Zenon DEF StartEngine, FlagsOK
<1>13. CASE FinishRun
  BY <1>13, Zenon DEF FinishRun, FlagsOK
<1>14. CASE JoinHeartbeat
  BY <1>14, Zenon DEF JoinHeartbeat, FlagsOK
<1>15. CASE Disarm
  BY <1>15, Zenon DEF Disarm, FlagsOK
<1>16. CASE HeldTouch
  BY <1>16, Zenon DEF HeldTouch, Leave, ProcessEnds, FlagsOK
<1>17. CASE SkipSubmit
  BY <1>17, Zenon DEF SkipSubmit, JobDone, NextJob, ProcessEnds, FlagsOK
<1>18. CASE SubmitFinishedRun
  BY <1>18, Zenon DEF SubmitFinishedRun, FlagsOK
<1>19. CASE PostAccepted
  BY <1>19, Zenon DEF PostAccepted, Accept, Delivered, JobDone, NextJob,
     ProcessEnds, FlagsOK
<1>20. CASE PostSuperseded
  BY <1>20, Zenon DEF PostSuperseded, Delivered, JobDone, NextJob,
     ProcessEnds, FlagsOK
<1>21. CASE PostNotFound
  BY <1>21, Zenon DEF PostNotFound, FlagsOK
<1>22. CASE PostTransient
  BY <1>22, Zenon DEF PostTransient, Accept, FlagsOK
<1>23. CASE PostRefused
  BY <1>23, Zenon DEF PostRefused, ProcessEnds, FlagsOK
<1>24. CASE ReclaimOk
  BY <1>24, Zenon DEF ReclaimOk, FlagsOK
<1>25. CASE ReclaimTransient
  BY <1>25, Zenon DEF ReclaimTransient, FlagsOK
<1>26. CASE ReclaimRefused
  BY <1>26, Zenon DEF ReclaimRefused, Delivered, JobDone, NextJob,
     ProcessEnds, FlagsOK
<1>27. CASE SubmitBackoff
  BY <1>27, Zenon DEF SubmitBackoff, Undelivered, JobDone, NextJob,
     ProcessEnds, FlagsOK
<1>28. CASE StoreResult
  BY <1>28, Zenon DEF StoreResult, FlagsOK
<1>29. CASE RetireCheckpoint
  BY <1>29, Zenon DEF RetireCheckpoint, JobDone, NextJob, ProcessEnds,
     FlagsOK
<1>30. CASE BeatRefresh
  BY <1>30, Zenon DEF BeatRefresh, FlagsOK
<1>31. CASE BeatStops
  BY <1>31, Zenon DEF BeatStops, FlagsOK
<1>32. CASE HeartbeatNotFound
  BY <1>32, Zenon DEF HeartbeatNotFound, FlagsOK
<1>33. CASE HeartbeatSuperseded
  BY <1>33, Zenon DEF HeartbeatSuperseded, FlagsOK
<1>34. CASE HeartbeatReclaim
  BY <1>34, Zenon DEF HeartbeatReclaim, FlagsOK
<1>35. CASE HeartbeatAborts
  BY <1>35, Zenon DEF HeartbeatAborts, FlagsOK
<1>36. CASE TearDownMarker
  BY <1>36, Zenon DEF TearDownMarker, FlagsOK
<1>37. CASE TearDownOldMarker
  BY <1>37, Zenon DEF TearDownOldMarker, FlagsOK
<1>38. CASE TearDownEngine
  BY <1>38, Zenon DEF TearDownEngine, FlagsOK
<1>39. CASE ForcedExit
  BY <1>39, Zenon DEF ForcedExit, ProcessEnds, FlagsOK
<1>40. CASE StartWorker
  BY <1>40, Zenon DEF StartWorker, FlagsOK
<1>41. CASE SignalGraceful
  BY <1>41, Zenon DEF SignalGraceful, FlagsOK
<1>42. CASE SignalForced
  BY <1>42, Zenon DEF SignalForced, FlagsOK
<1>43. CASE OutputClosed
  BY <1>43, Zenon DEF OutputClosed, FlagsOK
<1>44. CASE Kill
  BY <1>44, Zenon DEF Kill, ProcessEnds, FlagsOK
<1>45. CASE PowerCycle
  BY <1>45, Zenon DEF PowerCycle, ProcessEnds, FlagsOK
<1>46. CASE Tick
  BY <1>46, Zenon DEF Tick, FlagsOK
<1>47. CASE LeaseLapses
  BY <1>47, Zenon DEF LeaseLapses, FlagsOK
<1>48. CASE OtherClaims
  BY <1>48, Zenon DEF OtherClaims, FlagsOK
<1>49. CASE OtherSettles
  BY <1>49, Zenon DEF OtherSettles, FlagsOK
<1>50. CASE UNCHANGED vars
  BY <1>50, Zenon DEF vars, FlagsOK
<1>51. QED
  BY <1>1, <1>2, <1>3, <1>4, <1>5, <1>6, <1>7, <1>8, <1>9, <1>10, <1>11,
     <1>12, <1>13, <1>14, <1>15, <1>16, <1>17, <1>18, <1>19, <1>20, <1>21,
     <1>22, <1>23, <1>24, <1>25, <1>26, <1>27, <1>28, <1>29, <1>30, <1>31,
     <1>32, <1>33, <1>34, <1>35, <1>36, <1>37, <1>38, <1>39, <1>40, <1>41,
     <1>42, <1>43, <1>44, <1>45, <1>46, <1>47, <1>48, <1>49, <1>50 DEF Next,
     MainStep, ClaimStep, RunStep, SubmitStep, BeatStep, HeartbeatStep,
     DrainStep, Environment

\* A thread or a guard of a run exists only in the scope that owns it.
LEMMA ScopesStep ==
    ASSUME StateOK, FlagsOK, Scopes, [Next]_vars PROVE Scopes'
<1> USE DEF serverVars, diskVars, clockVars, loopVars, markVars, runVars,
        leaseVars, postVars, drainVars, historyVars
<1>1. CASE ProfileReady
  BY <1>1 DEF ProfileReady, Scopes, Unclaimed, Running
<1>2. CASE ProfileStops
  BY <1>2 DEF ProfileStops, Leave, ProcessEnds, Scopes, Unclaimed
<1>3. CASE LoopTop
  BY <1>3 DEF LoopTop, Leave, ProcessEnds, Scopes, Unclaimed, Running
<1>4. CASE ClaimJob
  BY <1>4 DEF ClaimJob, Claimable, Scopes, Running
<1>5. CASE ClaimIdle
  BY <1>5 DEF ClaimIdle, Scopes, Unclaimed, Running
<1>6. CASE ClaimRefused
  BY <1>6 DEF ClaimRefused, Leave, ProcessEnds, Scopes, Unclaimed
<1>7. CASE ClaimTransient
  BY <1>7 DEF ClaimTransient, Scopes, Unclaimed, Running
<1>8. CASE ClaimBackoff
  BY <1>8 DEF ClaimBackoff, Leave, ProcessEnds, Scopes, Unclaimed, Running
<1>9. CASE DecideClaim
  BY <1>9 DEF DecideClaim, Scopes, Unclaimed, Running
<1>10. CASE RegisterTeardown
  BY <1>10 DEF RegisterTeardown, Scopes, Unclaimed, Running
<1>11. CASE MarkRun
  BY <1>11 DEF MarkRun, MarkerWritten, MarkerRefused, Disowned, Scopes,
     Unclaimed, Running
<1>12. CASE StartEngine
  BY <1>12 DEF StartEngine, Scopes, Unclaimed, Running
<1>13. CASE FinishRun
  BY <1>13 DEF FinishRun, Scopes, Unclaimed, Running
<1>14. CASE JoinHeartbeat
  BY <1>14 DEF JoinHeartbeat, Scopes, Unclaimed
<1>15. CASE Disarm
  BY <1>15 DEF Disarm, Disowned, Scopes, Unclaimed, Running
<1>16. CASE HeldTouch
  BY <1>16 DEF HeldTouch, Leave, ProcessEnds, Scopes, Unclaimed
<1>17. CASE SkipSubmit
  BY <1>17 DEF SkipSubmit, JobDone, NextJob, ProcessEnds, Scopes, Unclaimed,
     Running
<1>18. CASE SubmitFinishedRun
  BY <1>18 DEF SubmitFinishedRun, Scopes, Unclaimed, Running
<1>19. CASE PostAccepted
  BY <1>19 DEF PostAccepted, Accept, Delivered, JobDone, NextJob,
     ProcessEnds, Scopes, Unclaimed, Running
<1>20. CASE PostSuperseded
  BY <1>20 DEF PostSuperseded, Delivered, JobDone, NextJob, ProcessEnds,
     Scopes, Unclaimed, Running
<1>21. CASE PostNotFound
  BY <1>21 DEF PostNotFound, Scopes, Unclaimed, Running
<1>22. CASE PostTransient
  BY <1>22 DEF PostTransient, Accept, Scopes, Unclaimed, Running
<1>23. CASE PostRefused
  BY <1>23 DEF PostRefused, ProcessEnds, Scopes, Unclaimed
<1>24. CASE ReclaimOk
  BY <1>24 DEF ReclaimOk, Scopes, Unclaimed, Running
<1>25. CASE ReclaimTransient
  BY <1>25 DEF ReclaimTransient, Scopes, Unclaimed, Running
<1>26. CASE ReclaimRefused
  BY <1>26 DEF ReclaimRefused, Delivered, JobDone, NextJob, ProcessEnds,
     Scopes, Unclaimed, Running
<1>27. CASE SubmitBackoff
  BY <1>27 DEF SubmitBackoff, Undelivered, JobDone, NextJob, ProcessEnds,
     Scopes, Unclaimed, Running
<1>28. CASE StoreResult
  BY <1>28 DEF StoreResult, Scopes, Unclaimed, Running
<1>29. CASE RetireCheckpoint
  BY <1>29 DEF RetireCheckpoint, JobDone, NextJob, ProcessEnds, Scopes,
     Unclaimed, Running
<1>30. CASE BeatRefresh
  BY <1>30 DEF BeatRefresh, Scopes
<1>31. CASE BeatStops
  BY <1>31 DEF BeatStops, Scopes
<1>32. CASE HeartbeatNotFound
  BY <1>32 DEF HeartbeatNotFound, Scopes
<1>33. CASE HeartbeatSuperseded
  BY <1>33 DEF HeartbeatSuperseded, Scopes
<1>34. CASE HeartbeatReclaim
  BY <1>34 DEF HeartbeatReclaim, Scopes
<1>35. CASE HeartbeatAborts
  BY <1>35 DEF HeartbeatAborts, Scopes
<1>36. CASE TearDownMarker
  BY <1>36 DEF TearDownMarker, Scopes
<1>37. CASE TearDownOldMarker
  BY <1>37 DEF TearDownOldMarker, Scopes
<1>38. CASE TearDownEngine
  BY <1>38 DEF TearDownEngine, Scopes
<1>39. CASE ForcedExit
  BY <1>39 DEF ForcedExit, ProcessEnds, Scopes, Unclaimed
<1>40. CASE StartWorker
  BY <1>40 DEF StartWorker, Scopes, Unclaimed, Running
<1>41. CASE SignalGraceful
  BY <1>41 DEF SignalGraceful, Scopes
<1>42. CASE SignalForced
  BY <1>42 DEF SignalForced, Registered, Scopes
<1>43. CASE OutputClosed
  BY <1>43 DEF OutputClosed, Registered, Scopes
<1>44. CASE Kill
  BY <1>44 DEF Kill, ProcessEnds, Scopes, Unclaimed
<1>45. CASE PowerCycle
  BY <1>45 DEF PowerCycle, ProcessEnds, Scopes, Unclaimed
<1>46. CASE Tick
  BY <1>46 DEF Tick, Scopes
<1>47. CASE LeaseLapses
  BY <1>47 DEF LeaseLapses, Scopes
<1>48. CASE OtherClaims
  BY <1>48 DEF OtherClaims, Scopes
<1>49. CASE OtherSettles
  BY <1>49 DEF OtherSettles, Scopes
<1>50. CASE UNCHANGED vars
  BY <1>50 DEF vars, Scopes
<1>51. QED
  BY <1>1, <1>2, <1>3, <1>4, <1>5, <1>6, <1>7, <1>8, <1>9, <1>10, <1>11,
     <1>12, <1>13, <1>14, <1>15, <1>16, <1>17, <1>18, <1>19, <1>20, <1>21,
     <1>22, <1>23, <1>24, <1>25, <1>26, <1>27, <1>28, <1>29, <1>30, <1>31,
     <1>32, <1>33, <1>34, <1>35, <1>36, <1>37, <1>38, <1>39, <1>40, <1>41,
     <1>42, <1>43, <1>44, <1>45, <1>46, <1>47, <1>48, <1>49, <1>50 DEF Next,
     MainStep, ClaimStep, RunStep, SubmitStep, BeatStep, HeartbeatStep,
     DrainStep, Environment

\* A marker never outlives its run unless the run died with its process.
LEMMA EvidenceStep ==
    ASSUME StateOK, FlagsOK, Scopes, [Next]_vars, Evidence PROVE Evidence'
<1> USE DEF serverVars, diskVars, clockVars, loopVars, markVars, runVars,
        leaseVars, postVars, drainVars, historyVars
<1>1. CASE ProfileReady
  BY <1>1 DEF ProfileReady, Evidence
<1>2. CASE ProfileStops
  BY <1>2 DEF ProfileStops, Leave, Scopes, Evidence, Running
<1>3. CASE LoopTop
  BY <1>3 DEF LoopTop, Leave, Scopes, Evidence, Running
<1>4. CASE ClaimJob
  BY <1>4 DEF ClaimJob, Scopes, Evidence, Running
<1>5. CASE ClaimIdle
  BY <1>5 DEF ClaimIdle, Evidence
<1>6. CASE ClaimRefused
  BY <1>6 DEF ClaimRefused, Leave, Scopes, Evidence, Running
<1>7. CASE ClaimTransient
  BY <1>7 DEF ClaimTransient, Evidence
<1>8. CASE ClaimBackoff
  BY <1>8 DEF ClaimBackoff, Leave, Scopes, Evidence, Running
<1>9. CASE DecideClaim
  BY <1>9 DEF DecideClaim, Evidence
<1>10. CASE RegisterTeardown
  BY <1>10 DEF RegisterTeardown, Scopes, Evidence, Running
<1>11. CASE MarkRun
  BY <1>11 DEF MarkRun, MarkerWritten, MarkerRefused, Scopes, Evidence,
     Running, NoMarker
<1>12. CASE StartEngine
  BY <1>12 DEF StartEngine, Evidence
<1>13. CASE FinishRun
  BY <1>13 DEF FinishRun, Evidence
<1>14. CASE JoinHeartbeat
  BY <1>14 DEF JoinHeartbeat, Evidence
<1>15. CASE Disarm
  BY <1>15 DEF Disarm, Evidence, NoMarker
<1>16. CASE HeldTouch
  BY <1>16 DEF HeldTouch, Leave, Scopes, Evidence, Running
<1>17. CASE SkipSubmit
  BY <1>17 DEF SkipSubmit, Scopes, Evidence, Running
<1>18. CASE SubmitFinishedRun
  BY <1>18 DEF SubmitFinishedRun, Evidence
<1>19. CASE PostAccepted
  BY <1>19 DEF PostAccepted, Accept, Delivered, Scopes, Evidence, Running,
     NoMarker
<1>20. CASE PostSuperseded
  BY <1>20 DEF PostSuperseded, Delivered, Scopes, Evidence, Running,
     NoMarker
<1>21. CASE PostNotFound
  BY <1>21 DEF PostNotFound, Evidence
<1>22. CASE PostTransient
  BY <1>22 DEF PostTransient, Accept, Evidence
<1>23. CASE PostRefused
  BY <1>23 DEF PostRefused, Scopes, Evidence, Running
<1>24. CASE ReclaimOk
  BY <1>24 DEF ReclaimOk, Evidence
<1>25. CASE ReclaimTransient
  BY <1>25 DEF ReclaimTransient, Evidence
<1>26. CASE ReclaimRefused
  BY <1>26 DEF ReclaimRefused, Delivered, Scopes, Evidence, Running,
     NoMarker
<1>27. CASE SubmitBackoff
  BY <1>27 DEF SubmitBackoff, Undelivered, Scopes, Evidence, Running
<1>28. CASE StoreResult
  BY <1>28 DEF StoreResult, Evidence
<1>29. CASE RetireCheckpoint
  BY <1>29 DEF RetireCheckpoint, Scopes, Evidence, Running
<1>30. CASE BeatRefresh
  BY <1>30 DEF BeatRefresh, Scopes, Evidence
<1>31. CASE BeatStops
  BY <1>31 DEF BeatStops, Evidence, NoMarker
<1>32. CASE HeartbeatNotFound
  BY <1>32 DEF HeartbeatNotFound, Evidence
<1>33. CASE HeartbeatSuperseded
  BY <1>33 DEF HeartbeatSuperseded, Evidence
<1>34. CASE HeartbeatReclaim
  BY <1>34 DEF HeartbeatReclaim, Evidence
<1>35. CASE HeartbeatAborts
  BY <1>35 DEF HeartbeatAborts, Evidence
<1>36. CASE TearDownMarker
  BY <1>36 DEF TearDownMarker, Evidence, NoMarker
<1>37. CASE TearDownOldMarker
  BY <1>37 DEF TearDownOldMarker, Evidence, NoMarker
<1>38. CASE TearDownEngine
  BY <1>38 DEF TearDownEngine, Evidence
<1>39. CASE ForcedExit
  BY <1>39 DEF ForcedExit, Abandoned, Evidence
<1>40. CASE StartWorker
  BY <1>40 DEF StartWorker, Evidence
<1>41. CASE SignalGraceful
  BY <1>41 DEF SignalGraceful, Evidence
<1>42. CASE SignalForced
  BY <1>42 DEF SignalForced, Evidence
<1>43. CASE OutputClosed
  BY <1>43 DEF OutputClosed, Evidence
<1>44. CASE Kill
  BY <1>44 DEF Kill, Abandoned, Evidence
<1>45. CASE PowerCycle
  BY <1>45 DEF PowerCycle, Abandoned, Evidence
<1>46. CASE Tick
  BY <1>46 DEF Tick, Evidence
<1>47. CASE LeaseLapses
  BY <1>47 DEF LeaseLapses, Evidence
<1>48. CASE OtherClaims
  BY <1>48 DEF OtherClaims, Evidence
<1>49. CASE OtherSettles
  BY <1>49 DEF OtherSettles, Evidence
<1>50. CASE UNCHANGED vars
  BY <1>50 DEF vars, Evidence
<1>51. QED
  BY <1>1, <1>2, <1>3, <1>4, <1>5, <1>6, <1>7, <1>8, <1>9, <1>10, <1>11,
     <1>12, <1>13, <1>14, <1>15, <1>16, <1>17, <1>18, <1>19, <1>20, <1>21,
     <1>22, <1>23, <1>24, <1>25, <1>26, <1>27, <1>28, <1>29, <1>30, <1>31,
     <1>32, <1>33, <1>34, <1>35, <1>36, <1>37, <1>38, <1>39, <1>40, <1>41,
     <1>42, <1>43, <1>44, <1>45, <1>46, <1>47, <1>48, <1>49, <1>50 DEF Next,
     MainStep, ClaimStep, RunStep, SubmitStep, BeatStep, HeartbeatStep,
     DrainStep, Environment

\* The three invariants of the runs, given the scopes and the evidence.
LEMMA ReportStep ==
    ASSUME StateOK, FlagsOK, Scopes, [Next]_vars, Evidence, RebootReportSound,
           LostLeaseNeverPosts, SettledOnlyIfAnswered PROVE (RebootReportSound /\ LostLeaseNeverPosts /\ SettledOnlyIfAnswered)'
<1> USE DEF serverVars, diskVars, clockVars, loopVars, markVars, runVars,
        leaseVars, postVars, drainVars, historyVars
<1>1. CASE ProfileReady
  BY <1>1 DEF ProfileReady, RebootReportSound, LostLeaseNeverPosts,
     SettledOnlyIfAnswered, Posting
<1>2. CASE ProfileStops
  BY <1>2 DEF ProfileStops, Leave, ProcessEnds, RebootReportSound,
     LostLeaseNeverPosts, SettledOnlyIfAnswered
<1>3. CASE LoopTop
  BY <1>3 DEF LoopTop, Leave, ProcessEnds, RebootReportSound,
     LostLeaseNeverPosts, SettledOnlyIfAnswered, Posting
<1>4. CASE ClaimJob
  BY <1>4 DEF ClaimJob, RebootReportSound, LostLeaseNeverPosts,
     SettledOnlyIfAnswered, Posting
<1>5. CASE ClaimIdle
  BY <1>5 DEF ClaimIdle, RebootReportSound, LostLeaseNeverPosts,
     SettledOnlyIfAnswered, Posting
<1>6. CASE ClaimRefused
  BY <1>6 DEF ClaimRefused, Leave, ProcessEnds, RebootReportSound,
     LostLeaseNeverPosts, SettledOnlyIfAnswered
<1>7. CASE ClaimTransient
  BY <1>7 DEF ClaimTransient, RebootReportSound, LostLeaseNeverPosts,
     SettledOnlyIfAnswered, Posting
<1>8. CASE ClaimBackoff
  BY <1>8 DEF ClaimBackoff, Leave, ProcessEnds, RebootReportSound,
     LostLeaseNeverPosts, SettledOnlyIfAnswered, Posting
<1>9. CASE DecideClaim
  BY <1>9 DEF DecideClaim, decide, Scopes, Evidence, RebootReportSound,
     LostLeaseNeverPosts, SettledOnlyIfAnswered, Posting, Unclaimed, Running
<1>10. CASE RegisterTeardown
  BY <1>10 DEF RegisterTeardown, RebootReportSound, LostLeaseNeverPosts,
     SettledOnlyIfAnswered, Posting
<1>11. CASE MarkRun
  BY <1>11 DEF MarkRun, MarkerWritten, MarkerRefused, RebootReportSound,
     LostLeaseNeverPosts, SettledOnlyIfAnswered, Posting
<1>12. CASE StartEngine
  BY <1>12 DEF StartEngine, RebootReportSound, LostLeaseNeverPosts,
     SettledOnlyIfAnswered, Posting
<1>13. CASE FinishRun
  BY <1>13 DEF FinishRun, RebootReportSound, LostLeaseNeverPosts,
     SettledOnlyIfAnswered, Posting
<1>14. CASE JoinHeartbeat
  BY <1>14 DEF JoinHeartbeat, RebootReportSound, LostLeaseNeverPosts,
     SettledOnlyIfAnswered, Posting
<1>15. CASE Disarm
  BY <1>15 DEF Disarm, RebootReportSound, LostLeaseNeverPosts,
     SettledOnlyIfAnswered, Posting
<1>16. CASE HeldTouch
  BY <1>16 DEF HeldTouch, Leave, ProcessEnds, RebootReportSound,
     LostLeaseNeverPosts, SettledOnlyIfAnswered
<1>17. CASE SkipSubmit
  BY <1>17 DEF SkipSubmit, JobDone, NextJob, ProcessEnds, RebootReportSound,
     LostLeaseNeverPosts, SettledOnlyIfAnswered, Posting
<1>18. CASE SubmitFinishedRun
  BY <1>18 DEF SubmitFinishedRun, Scopes, RebootReportSound,
     LostLeaseNeverPosts, SettledOnlyIfAnswered, Running
<1>19. CASE PostAccepted
  BY <1>19 DEF PostAccepted, Accept, Delivered, JobDone, NextJob,
     ProcessEnds, RebootReportSound, LostLeaseNeverPosts,
     SettledOnlyIfAnswered, Posting
<1>20. CASE PostSuperseded
  BY <1>20 DEF PostSuperseded, Delivered, JobDone, NextJob, ProcessEnds,
     RebootReportSound, LostLeaseNeverPosts, SettledOnlyIfAnswered, Posting
<1>21. CASE PostNotFound
  BY <1>21 DEF PostNotFound, RebootReportSound, LostLeaseNeverPosts,
     SettledOnlyIfAnswered, Posting
<1>22. CASE PostTransient
  BY <1>22 DEF PostTransient, Accept, RebootReportSound,
     LostLeaseNeverPosts, SettledOnlyIfAnswered, Posting
<1>23. CASE PostRefused
  BY <1>23 DEF PostRefused, ProcessEnds, RebootReportSound,
     LostLeaseNeverPosts, SettledOnlyIfAnswered
<1>24. CASE ReclaimOk
  BY <1>24 DEF ReclaimOk, RebootReportSound, LostLeaseNeverPosts,
     SettledOnlyIfAnswered, Posting
<1>25. CASE ReclaimTransient
  BY <1>25 DEF ReclaimTransient, RebootReportSound, LostLeaseNeverPosts,
     SettledOnlyIfAnswered, Posting
<1>26. CASE ReclaimRefused
  BY <1>26 DEF ReclaimRefused, Delivered, JobDone, NextJob, ProcessEnds,
     RebootReportSound, LostLeaseNeverPosts, SettledOnlyIfAnswered, Posting
<1>27. CASE SubmitBackoff
  BY <1>27 DEF SubmitBackoff, Undelivered, JobDone, NextJob, ProcessEnds,
     RebootReportSound, LostLeaseNeverPosts, SettledOnlyIfAnswered, Posting
<1>28. CASE StoreResult
  BY <1>28 DEF StoreResult, RebootReportSound, LostLeaseNeverPosts,
     SettledOnlyIfAnswered, Posting
<1>29. CASE RetireCheckpoint
  BY <1>29 DEF RetireCheckpoint, JobDone, NextJob, ProcessEnds,
     RebootReportSound, LostLeaseNeverPosts, SettledOnlyIfAnswered, Posting
<1>30. CASE BeatRefresh
  BY <1>30 DEF BeatRefresh, Scopes, RebootReportSound, LostLeaseNeverPosts,
     SettledOnlyIfAnswered, Posting, Running
<1>31. CASE BeatStops
  BY <1>31 DEF BeatStops, Scopes, RebootReportSound, LostLeaseNeverPosts,
     SettledOnlyIfAnswered, Posting, Running
<1>32. CASE HeartbeatNotFound
  BY <1>32 DEF HeartbeatNotFound, RebootReportSound, LostLeaseNeverPosts,
     SettledOnlyIfAnswered
<1>33. CASE HeartbeatSuperseded
  BY <1>33 DEF HeartbeatSuperseded, RebootReportSound, LostLeaseNeverPosts,
     SettledOnlyIfAnswered
<1>34. CASE HeartbeatReclaim
  BY <1>34 DEF HeartbeatReclaim, RebootReportSound, LostLeaseNeverPosts,
     SettledOnlyIfAnswered
<1>35. CASE HeartbeatAborts
  BY <1>35 DEF HeartbeatAborts, RebootReportSound, LostLeaseNeverPosts,
     SettledOnlyIfAnswered
<1>36. CASE TearDownMarker
  BY <1>36 DEF TearDownMarker, StateOK, Scopes, RebootReportSound,
     LostLeaseNeverPosts, SettledOnlyIfAnswered, Posting, Running
<1>37. CASE TearDownOldMarker
  BY <1>37 DEF TearDownOldMarker, StateOK, RebootReportSound,
     LostLeaseNeverPosts, SettledOnlyIfAnswered, NoMarker
<1>38. CASE TearDownEngine
  BY <1>38 DEF TearDownEngine, RebootReportSound, LostLeaseNeverPosts,
     SettledOnlyIfAnswered
<1>39. CASE ForcedExit
  BY <1>39 DEF ForcedExit, ProcessEnds, RebootReportSound,
     LostLeaseNeverPosts, SettledOnlyIfAnswered
<1>40. CASE StartWorker
  BY <1>40 DEF StartWorker, RebootReportSound, LostLeaseNeverPosts,
     SettledOnlyIfAnswered, Posting
<1>41. CASE SignalGraceful
  BY <1>41 DEF SignalGraceful, RebootReportSound, LostLeaseNeverPosts,
     SettledOnlyIfAnswered
<1>42. CASE SignalForced
  BY <1>42 DEF SignalForced, RebootReportSound, LostLeaseNeverPosts,
     SettledOnlyIfAnswered
<1>43. CASE OutputClosed
  BY <1>43 DEF OutputClosed, RebootReportSound, LostLeaseNeverPosts,
     SettledOnlyIfAnswered
<1>44. CASE Kill
  BY <1>44 DEF Kill, ProcessEnds, RebootReportSound, LostLeaseNeverPosts,
     SettledOnlyIfAnswered
<1>45. CASE PowerCycle
  BY <1>45 DEF PowerCycle, ProcessEnds, RebootReportSound,
     LostLeaseNeverPosts, SettledOnlyIfAnswered
<1>46. CASE Tick
  BY <1>46 DEF Tick, RebootReportSound, LostLeaseNeverPosts,
     SettledOnlyIfAnswered
<1>47. CASE LeaseLapses
  BY <1>47 DEF LeaseLapses, RebootReportSound, LostLeaseNeverPosts,
     SettledOnlyIfAnswered
<1>48. CASE OtherClaims
  BY <1>48 DEF OtherClaims, RebootReportSound, LostLeaseNeverPosts,
     SettledOnlyIfAnswered
<1>49. CASE OtherSettles
  BY <1>49 DEF OtherSettles, RebootReportSound, LostLeaseNeverPosts,
     SettledOnlyIfAnswered
<1>50. CASE UNCHANGED vars
  BY <1>50 DEF vars, RebootReportSound, LostLeaseNeverPosts,
     SettledOnlyIfAnswered
<1>51. QED
  BY <1>1, <1>2, <1>3, <1>4, <1>5, <1>6, <1>7, <1>8, <1>9, <1>10, <1>11,
     <1>12, <1>13, <1>14, <1>15, <1>16, <1>17, <1>18, <1>19, <1>20, <1>21,
     <1>22, <1>23, <1>24, <1>25, <1>26, <1>27, <1>28, <1>29, <1>30, <1>31,
     <1>32, <1>33, <1>34, <1>35, <1>36, <1>37, <1>38, <1>39, <1>40, <1>41,
     <1>42, <1>43, <1>44, <1>45, <1>46, <1>47, <1>48, <1>49, <1>50 DEF Next,
     MainStep, ClaimStep, RunStep, SubmitStep, BeatStep, HeartbeatStep,
     DrainStep, Environment

\* The record of a job that a reboot cut off stays until it is reported, replaced
\* or removed, and decide keeps that job from running (in_flight::decide).
LEMMA RecordedStep ==
    ASSUME StateOK, FlagsOK, Scopes, Recorded, [Next]_vars
    PROVE  Recorded'
<1> USE DEF serverVars, diskVars, clockVars, loopVars, markVars, runVars,
        leaseVars, postVars, drainVars, historyVars
<1>1. CASE ProfileReady
  BY <1>1 DEF ProfileReady, StateOK, Scopes, Recorded, Running, Unclaimed,
     NoMarker, Markers, Boots, Clock
<1>2. CASE ProfileStops
  BY <1>2 DEF ProfileStops, Leave, ProcessEnds, StateOK, Scopes, Recorded,
     Running, Unclaimed, NoMarker, Markers, Boots, Clock
<1>3. CASE LoopTop
  BY <1>3 DEF LoopTop, Leave, ProcessEnds, StateOK, Scopes, Recorded, Running,
     Unclaimed, NoMarker, Markers, Boots, Clock
<1>4. CASE ClaimJob
  BY <1>4 DEF ClaimJob, Claimable, StateOK, Scopes, Recorded, Running,
     Unclaimed, NoMarker, Markers, Boots, Clock
<1>5. CASE ClaimIdle
  BY <1>5 DEF ClaimIdle, StateOK, Scopes, Recorded, Running, Unclaimed,
     NoMarker, Markers, Boots, Clock
<1>6. CASE ClaimRefused
  BY <1>6 DEF ClaimRefused, Leave, ProcessEnds, StateOK, Scopes, Recorded,
     Running, Unclaimed, NoMarker, Markers, Boots, Clock
<1>7. CASE ClaimTransient
  BY <1>7 DEF ClaimTransient, StateOK, Scopes, Recorded, Running, Unclaimed,
     NoMarker, Markers, Boots, Clock
<1>8. CASE ClaimBackoff
  BY <1>8 DEF ClaimBackoff, Leave, ProcessEnds, StateOK, Scopes, Recorded,
     Running, Unclaimed, NoMarker, Markers, Boots, Clock
<1>9. CASE DecideClaim
  BY <1>9 DEF DecideClaim, decide, StateOK, Scopes, Recorded, Running,
     Unclaimed, NoMarker, Markers, Boots, Clock
<1>10. CASE RegisterTeardown
  BY <1>10 DEF RegisterTeardown, StateOK, Scopes, Recorded, Running,
     Unclaimed, NoMarker, Markers, Boots, Clock
<1>11. CASE MarkRun
  BY <1>11 DEF MarkRun, MarkerWritten, MarkerRefused, Disowned, StateOK,
     Scopes, Recorded, Running, Unclaimed, NoMarker, Markers, Boots, Clock
<1>12. CASE StartEngine
  BY <1>12 DEF StartEngine, StateOK, Scopes, Recorded, Running, Unclaimed,
     NoMarker, Markers, Boots, Clock
<1>13. CASE FinishRun
  BY <1>13 DEF FinishRun, StateOK, Scopes, Recorded, Running, Unclaimed,
     NoMarker, Markers, Boots, Clock
<1>14. CASE JoinHeartbeat
  BY <1>14 DEF JoinHeartbeat, StateOK, Scopes, Recorded, Running, Unclaimed,
     NoMarker, Markers, Boots, Clock
<1>15. CASE Disarm
  BY <1>15 DEF Disarm, Disowned, StateOK, Scopes, Recorded, Running,
     Unclaimed, NoMarker, Markers, Boots, Clock
<1>16. CASE HeldTouch
  BY <1>16 DEF HeldTouch, Leave, ProcessEnds, StateOK, Scopes, Recorded,
     Running, Unclaimed, NoMarker, Markers, Boots, Clock
<1>17. CASE SkipSubmit
  BY <1>17 DEF SkipSubmit, JobDone, NextJob, ProcessEnds, StateOK, Scopes,
     Recorded, Running, Unclaimed, NoMarker, Markers, Boots, Clock
<1>18. CASE SubmitFinishedRun
  BY <1>18 DEF SubmitFinishedRun, StateOK, Scopes, Recorded, Running,
     Unclaimed, NoMarker, Markers, Boots, Clock
<1>19. CASE PostAccepted
  BY <1>19 DEF PostAccepted, Accept, Delivered, JobDone, NextJob, ProcessEnds,
     StateOK, Scopes, Recorded, Running, Unclaimed, NoMarker, Markers, Boots,
     Clock
<1>20. CASE PostSuperseded
  BY <1>20 DEF PostSuperseded, Delivered, JobDone, NextJob, ProcessEnds,
     StateOK, Scopes, Recorded, Running, Unclaimed, NoMarker, Markers, Boots,
     Clock
<1>21. CASE PostNotFound
  BY <1>21 DEF PostNotFound, StateOK, Scopes, Recorded, Running, Unclaimed,
     NoMarker, Markers, Boots, Clock
<1>22. CASE PostTransient
  BY <1>22 DEF PostTransient, Accept, StateOK, Scopes, Recorded, Running,
     Unclaimed, NoMarker, Markers, Boots, Clock
<1>23. CASE PostRefused
  BY <1>23 DEF PostRefused, ProcessEnds, StateOK, Scopes, Recorded, Running,
     Unclaimed, NoMarker, Markers, Boots, Clock
<1>24. CASE ReclaimOk
  BY <1>24 DEF ReclaimOk, StateOK, Scopes, Recorded, Running, Unclaimed,
     NoMarker, Markers, Boots, Clock
<1>25. CASE ReclaimTransient
  BY <1>25 DEF ReclaimTransient, StateOK, Scopes, Recorded, Running,
     Unclaimed, NoMarker, Markers, Boots, Clock
<1>26. CASE ReclaimRefused
  BY <1>26 DEF ReclaimRefused, Delivered, JobDone, NextJob, ProcessEnds,
     StateOK, Scopes, Recorded, Running, Unclaimed, NoMarker, Markers, Boots,
     Clock
<1>27. CASE SubmitBackoff
  BY <1>27 DEF SubmitBackoff, Undelivered, JobDone, NextJob, ProcessEnds,
     StateOK, Scopes, Recorded, Running, Unclaimed, NoMarker, Markers, Boots,
     Clock
<1>28. CASE StoreResult
  BY <1>28 DEF StoreResult, StateOK, Scopes, Recorded, Running, Unclaimed,
     NoMarker, Markers, Boots, Clock
<1>29. CASE RetireCheckpoint
  BY <1>29 DEF RetireCheckpoint, JobDone, NextJob, ProcessEnds, StateOK,
     Scopes, Recorded, Running, Unclaimed, NoMarker, Markers, Boots, Clock
<1>30. CASE BeatRefresh
  BY <1>30 DEF BeatRefresh, StateOK, Scopes, Recorded, Running, Unclaimed,
     NoMarker, Markers, Boots, Clock
<1>31. CASE BeatStops
  BY <1>31 DEF BeatStops, StateOK, Scopes, Recorded, Running, Unclaimed,
     NoMarker, Markers, Boots, Clock
<1>32. CASE HeartbeatNotFound
  BY <1>32 DEF HeartbeatNotFound, StateOK, Scopes, Recorded, Running,
     Unclaimed, NoMarker, Markers, Boots, Clock
<1>33. CASE HeartbeatSuperseded
  BY <1>33 DEF HeartbeatSuperseded, StateOK, Scopes, Recorded, Running,
     Unclaimed, NoMarker, Markers, Boots, Clock
<1>34. CASE HeartbeatReclaim
  BY <1>34 DEF HeartbeatReclaim, StateOK, Scopes, Recorded, Running,
     Unclaimed, NoMarker, Markers, Boots, Clock
<1>35. CASE HeartbeatAborts
  BY <1>35 DEF HeartbeatAborts, StateOK, Scopes, Recorded, Running, Unclaimed,
     NoMarker, Markers, Boots, Clock
<1>36. CASE TearDownMarker
  BY <1>36 DEF TearDownMarker, StateOK, Scopes, Recorded, Running, Unclaimed,
     NoMarker, Markers, Boots, Clock
<1>37. CASE TearDownOldMarker
  BY <1>37 DEF TearDownOldMarker, StateOK, Scopes, Recorded, Running,
     Unclaimed, NoMarker, Markers, Boots, Clock
<1>38. CASE TearDownEngine
  BY <1>38 DEF TearDownEngine, StateOK, Scopes, Recorded, Running, Unclaimed,
     NoMarker, Markers, Boots, Clock
<1>39. CASE ForcedExit
  BY <1>39 DEF ForcedExit, ProcessEnds, Abandoned, StateOK, Scopes, Recorded,
     Running, Unclaimed, NoMarker, Markers, Boots, Clock
<1>40. CASE StartWorker
  BY <1>40 DEF StartWorker, StateOK, Scopes, Recorded, Running, Unclaimed,
     NoMarker, Markers, Boots, Clock
<1>41. CASE SignalGraceful
  BY <1>41 DEF SignalGraceful, StateOK, Scopes, Recorded, Running, Unclaimed,
     NoMarker, Markers, Boots, Clock
<1>42. CASE SignalForced
  BY <1>42 DEF SignalForced, Registered, StateOK, Scopes, Recorded, Running,
     Unclaimed, NoMarker, Markers, Boots, Clock
<1>43. CASE OutputClosed
  BY <1>43 DEF OutputClosed, Registered, StateOK, Scopes, Recorded, Running,
     Unclaimed, NoMarker, Markers, Boots, Clock
<1>44. CASE Kill
  BY <1>44 DEF Kill, ProcessEnds, Abandoned, StateOK, Scopes, Recorded,
     Running, Unclaimed, NoMarker, Markers, Boots, Clock
<1>45. CASE PowerCycle
  BY <1>45 DEF PowerCycle, ProcessEnds, Abandoned, StateOK, Scopes, Recorded,
     Running, Unclaimed, NoMarker, Markers, Boots, Clock
<1>46. CASE Tick
  BY <1>46 DEF Tick, StateOK, Scopes, Recorded, Running, Unclaimed, NoMarker,
     Markers, Boots, Clock
<1>47. CASE LeaseLapses
  BY <1>47 DEF LeaseLapses, StateOK, Scopes, Recorded, Running, Unclaimed,
     NoMarker, Markers, Boots, Clock
<1>48. CASE OtherClaims
  BY <1>48 DEF OtherClaims, StateOK, Scopes, Recorded, Running, Unclaimed,
     NoMarker, Markers, Boots, Clock
<1>49. CASE OtherSettles
  BY <1>49 DEF OtherSettles, StateOK, Scopes, Recorded, Running, Unclaimed,
     NoMarker, Markers, Boots, Clock
<1>50. CASE UNCHANGED vars
  BY <1>50 DEF vars, Recorded
<1>51. QED
  BY <1>1, <1>2, <1>3, <1>4, <1>5, <1>6, <1>7, <1>8, <1>9, <1>10, <1>11,
     <1>12, <1>13, <1>14, <1>15, <1>16, <1>17, <1>18, <1>19, <1>20, <1>21,
     <1>22, <1>23, <1>24, <1>25, <1>26, <1>27, <1>28, <1>29, <1>30, <1>31,
     <1>32, <1>33, <1>34, <1>35, <1>36, <1>37, <1>38, <1>39, <1>40, <1>41,
     <1>42, <1>43, <1>44, <1>45, <1>46, <1>47, <1>48, <1>49, <1>50 DEF Next,
     MainStep, ClaimStep, RunStep, SubmitStep, BeatStep, HeartbeatStep,
     DrainStep, Environment


\* Only finalize_eval_checkpoint removes a checkpoint.
LEMMA CheckpointStep ==
    ASSUME [Next]_vars PROVE ckpt \subseteq ckpt' \/ RetireCheckpoint
<1> USE DEF diskVars
<1>1. CASE ClaimStep
  BY <1>1 DEF ClaimStep, ProfileReady, ProfileStops, LoopTop, ClaimJob, ClaimIdle,
     ClaimRefused, ClaimTransient, ClaimBackoff, DecideClaim, Leave
<1>2. CASE RunStep
  BY <1>2 DEF RunStep, RegisterTeardown, MarkRun, StartEngine, FinishRun,
     JoinHeartbeat, Disarm
<1>3. CASE SubmitStep
  BY <1>3 DEF SubmitStep, HeldTouch, Leave, SkipSubmit, SubmitFinishedRun, PostAccepted,
     PostSuperseded, PostNotFound, PostTransient, PostRefused, ReclaimOk,
     ReclaimTransient, ReclaimRefused, SubmitBackoff, StoreResult
<1>4. CASE BeatStep \/ HeartbeatStep
  BY <1>4 DEF BeatStep, BeatRefresh, BeatStops, HeartbeatStep, HeartbeatNotFound,
     HeartbeatSuperseded, HeartbeatReclaim, HeartbeatAborts
<1>5. CASE DrainStep
  BY <1>5 DEF DrainStep, TearDownMarker, TearDownOldMarker, TearDownEngine, ForcedExit
<1>6. CASE Environment
  BY <1>6 DEF Environment, StartWorker, SignalGraceful, SignalForced, OutputClosed,
     Kill, PowerCycle, Tick, LeaseLapses, OtherClaims, OtherSettles
<1>7. CASE UNCHANGED vars
  BY <1>7 DEF vars
<1> QED
  BY <1>1, <1>2, <1>3, <1>4, <1>5, <1>6, <1>7 DEF Next, MainStep

(***************************************************************************)
(* The inductive invariant: types, scopes, evidence and the properties.    *)
(***************************************************************************)

IInv == /\ StateOK /\ FlagsOK /\ Scopes /\ Evidence /\ Recorded
        /\ RebootReportSound /\ LostLeaseNeverPosts /\ SettledOnlyIfAnswered

\* The inductive invariant holds in every state of the worker.
THEOREM Inductive == Spec => []IInv
<1>1. Init => IInv
  <2> SUFFICES ASSUME Init PROVE IInv
    OBVIOUS
  <2>1. FlagsOK
    BY Zenon DEF Init, FlagsOK
  <2>2. StateOK
    BY DEF Init, StateOK, Where, PC, Results, Bodies, Teardowns, Clock, Boots, NoMarker, Markers
  <2>3. Scopes /\ Evidence /\ Recorded
    BY DEF Init, Scopes, Evidence, Recorded, Unclaimed, Running, NoMarker
  <2>4. RebootReportSound /\ LostLeaseNeverPosts /\ SettledOnlyIfAnswered
    BY DEF Init, RebootReportSound, LostLeaseNeverPosts,
           SettledOnlyIfAnswered, Posting
  <2>5. QED
    BY <2>1, <2>2, <2>3, <2>4 DEF IInv
<1>2. IInv /\ [Next]_vars => IInv'
  <2> SUFFICES ASSUME IInv, [Next]_vars PROVE IInv'
    OBVIOUS
  <2>1. StateOK'
    BY TypeStep DEF IInv
  <2>2. FlagsOK'
    BY FlagsStep DEF IInv
  <2>3. Scopes'
    BY ScopesStep DEF IInv
  <2>4. Evidence'
    BY EvidenceStep DEF IInv
  <2>5. (RebootReportSound /\ LostLeaseNeverPosts /\ SettledOnlyIfAnswered)'
    BY ReportStep DEF IInv
  <2>6. Recorded'
    BY RecordedStep DEF IInv
  <2>7. QED
    BY <2>1, <2>2, <2>3, <2>4, <2>5, <2>6 DEF IInv
<1>3. QED
  BY <1>1, <1>2, PTL DEF Spec

\* The worker never leaves its types, whatever its jobs, bounds and faults.
THEOREM TypeCorrect == Spec => []TypeOK
<1>1. IInv => TypeOK
  BY DEF IInv, TypeOK
<1>2. QED
  BY <1>1, Inductive, PTL

\* A job is failed for a reboot only if a marked run of it died with its
\* process and the device booted since (in_flight::decide and InFlightRun).
THEOREM RebootReportsAreSound == Spec => []RebootReportSound
<1>1. IInv => RebootReportSound
  BY DEF IInv
<1>2. QED
  BY <1>1, Inductive, PTL

\* A run that lost its lease posts nothing, and no heartbeat overlaps a post
\* (run_claimed_job joins the heartbeat before submit_finished_run).
THEOREM LostLeasesNeverPost == Spec => []LostLeaseNeverPosts
<1>1. IInv => LostLeaseNeverPosts
  BY DEF IInv
<1>2. QED
  BY <1>1, Inductive, PTL

\* Nothing is filed as synced, and no checkpoint given up, without the
\* server's answer (submit_success and post_completion).
THEOREM SettledIsAnswered == Spec => []SettledOnlyIfAnswered
<1>1. IInv => SettledOnlyIfAnswered
  BY DEF IInv
<1>2. QED
  BY <1>1, Inductive, PTL

\* A job whose run a reboot cut off is not run again by the worker it is handed
\* back to (in_flight::decide, and the record an undelivered report keeps).
THEOREM CutJobsNotRerun == Spec => []CutJobNotRerun
<1>1. IInv => CutJobNotRerun
  BY DEF IInv, Recorded, CutJobNotRerun, Running
<1>2. QED
  BY <1>1, Inductive, PTL

\* No step removes an eval checkpoint but finalize_eval_checkpoint, after the
\* server has answered for the job.
THEOREM CheckpointsKept == Spec => CheckpointKept
<1>1. IInv /\ [Next]_vars
      => [\A j \in Jobs : (j \in ckpt /\ j \notin ckpt') => j \in answered]_vars
  <2> SUFFICES ASSUME IInv, [Next]_vars, NEW j \in Jobs, j \in ckpt, j \notin ckpt'
               PROVE  j \in answered
    OBVIOUS
  <2>1. RetireCheckpoint
    BY CheckpointStep
  <2>2. QED
    BY <2>1 DEF RetireCheckpoint, IInv, SettledOnlyIfAnswered
<1>2. QED
  BY <1>1, Inductive, PTL DEF Spec, CheckpointKept

=============================================================================
