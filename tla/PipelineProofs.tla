--------------------------- MODULE PipelineProofs ---------------------------
(***************************************************************************)
(* Theorems about Pipeline, for every number of takes and aborts, and for  *)
(* every set of translation targets. The first part is about all of its    *)
(* behaviours, the raced ones included; the second about the orderly ones: *)
(* nothing is left behind without an owner, Dictation is implemented, a    *)
(* dictation gets its own text, and none of a session that has failed; the *)
(* third about what must happen in the end: if no step that is in progress *)
(* waits for good, every stop() returns, the state comes back to Idle and  *)
(* the microphone is released.                                             *)
(***************************************************************************)
EXTENDS PipelineRefinement, TLAPS

\* The steps of start() after it has won the exchange.
SettingUp == {"setup", "connecting", "ready", "storing", "stored",
              "numbering", "arming", "numbered", "recording"}

\* What start() owns while it holds the lock: its take has no stop() yet, and
\* from the connection on the preloaded configuration is its own.
StartOwns ==
  startPc \in SettingUp =>
    /\ takes \in Takes
    /\ stop[takes] = "none"
    /\ startPc # "setup" => preloaded = takes

\* A recording belongs to the latest take; once start() has spawned its tasks
\* its control is the published one.
RecordingOwned ==
  state = "Recording" =>
    /\ startPc \in {"none", "called", "recording"}
    /\ takes \in Takes
    /\ stop[takes] = "none"
    /\ preloaded = takes
    /\ startPc # "recording" => sttSession = takes

\* A stop() that still holds the lock is the one of the latest take, and what
\* start() published is untouched.
CapturingOwned ==
  \A t \in Takes : stop[t] = "capturing" =>
    /\ t = takes /\ startPc = "none"
    /\ sttSession = t /\ preloaded = t

\* Takes to come have no stop(), and a take without one has no frozen target.
Untouched ==
  \A t \in Takes : /\ t > takes => stop[t] = "none"
                   /\ stop[t] = "none" => used[t] = NoTarget

\* Only a failed session is latched.
LatchedFailed == sttError # NoTake => sttError \in failed

\* The translation operation is the latest take's, its target is the last one
\* acknowledged, and while it can be switched stop() has not read it.
OperationOwned ==
  transOp # NoOp =>
    /\ transOp.take = takes
    /\ state # "Idle" \/ startPc = "numbered"
    /\ transOp.target = acked[takes]
    /\ transOp.phase = "Capturing" => used[takes] = NoTarget

\* The invariants, grouped by the property each group is inductive for.
SetupInv  == StartOwns /\ RecordingOwned /\ CapturingOwned /\ Untouched
             /\ StopOwnsSetup
ErrorInv  == LatchedFailed /\ ErrorIsOwn
TargetInv == OperationOwned /\ AckedTargetIsUsed

USE PipelineAssumption

\* The tuples that UNCHANGED speaks of.
USE DEF vars, ids, text, shared, capture, tasks, stops, calls, world, ghost,
        waitUnchanged, polishUnchanged, deadlineUnchanged, taskUnchanged

\* A stop() that gives up its wait blames the task of a take.
LEMMA WaitedFor ==
  ASSUME NEW t \in Takes, TypeOK, Waited(t)
  PROVE  timedOut' \subseteq Takes
<1>1. ctl[t] # NoTake => ctl[t] \in Takes
  BY DEF TypeOK, StopsOK
<1>2. timedOut \subseteq Takes
  BY DEF TypeOK, WorldOK
<1>3. QED
  BY <1>1, <1>2 DEF Waited

\* The type invariant holds in every behaviour, whatever the callers do.
THEOREM TypeCorrect == Spec => []TypeOK
<1> USE DEF TypeOK, NoTake, PipelineState, StartPc, StopPc, AbortPc, TaskPc, Given
<1>1. ASSUME Init PROVE TypeOK
  <2>1. HandleOK
    <3>1. transOp \in {NoOp} \cup [take : Takes, target : Targets, phase : Phases]
      BY <1>1 DEF Init
    <3>2. QED
      BY <1>1, <3>1 DEF Init, HandleOK
  <2>2. CallsOK
    BY <1>1 DEF Init, CallsOK
  <2>3. TasksOK
    BY <1>1 DEF Init, TasksOK
  <2>4. StopsOK
    BY <1>1 DEF Init, StopsOK
  <2>5. WorldOK
    BY <1>1 DEF Init, WorldOK
  <2>6. QED
    BY <2>1, <2>2, <2>3, <2>4, <2>5
<1>2. ASSUME TypeOK, [Next]_vars PROVE TypeOK'
  <2> USE <1>2 DEF Takes, NoOp, Phases
  <2>1. CASE StartCall
    <3>1. TasksOK' /\ StopsOK'
      BY <2>1 DEF StartCall, TasksOK, StopsOK
    <3>2. HandleOK'
      BY <2>1 DEF StartCall, HandleOK, CallsOK
    <3>3. CallsOK'
      BY <2>1 DEF StartCall, CallsOK, HandleOK
    <3>4. WorldOK'
      BY <2>1 DEF StartCall, WorldOK, HandleOK, StopsOK
    <3>5. QED
      BY <3>1, <3>2, <3>3, <3>4
  <2>2. CASE StartExchange
    <3>1. TasksOK' /\ StopsOK' /\ WorldOK'
      BY <2>2 DEF StartExchange, StartClears, TasksOK, StopsOK, WorldOK
    <3>2. HandleOK'
      BY <2>2 DEF StartExchange, StartClears, HandleOK, CallsOK
    <3>3. CallsOK'
      BY <2>2 DEF StartExchange, StartClears, CallsOK, HandleOK
    <3>4. QED
      BY <3>1, <3>2, <3>3
  <2>3. CASE StartConfigure
    <3>1. StopsOK' /\ WorldOK'
      BY <2>3 DEF StartConfigure, StartGivesUp, SetIdle, StopsOK, WorldOK
    <3>2. HandleOK'
      BY <2>3 DEF StartConfigure, StartGivesUp, SetIdle, HandleOK, CallsOK
    <3>3. CallsOK'
      BY <2>3 DEF StartConfigure, StartGivesUp, SetIdle, CallsOK, HandleOK
    <3>4. TasksOK'
      BY <2>3 DEF StartConfigure, StartGivesUp, SetIdle, TasksOK, HandleOK
    <3>5. QED
      BY <3>1, <3>2, <3>3, <3>4
  <2>4. CASE StartConnect
    <3>1. StopsOK' /\ WorldOK'
      BY <2>4 DEF StartConnect, StartGivesUp, SetIdle, StopsOK, WorldOK
    <3>2. HandleOK'
      BY <2>4 DEF StartConnect, StartGivesUp, SetIdle, HandleOK, CallsOK
    <3>3. CallsOK'
      BY <2>4 DEF StartConnect, StartGivesUp, SetIdle, CallsOK, HandleOK
    <3>4. TasksOK'
      BY <2>4 DEF StartConnect, StartGivesUp, SetIdle, TasksOK, HandleOK
    <3>5. QED
      BY <3>1, <3>2, <3>3, <3>4
  <2>5. CASE StartCheckBeforeStore
    <3>1. StopsOK' /\ WorldOK'
      BY <2>5 DEF StartCheckBeforeStore, StartGivesUp, SetIdle, StopsOK, WorldOK
    <3>2. HandleOK'
      BY <2>5 DEF StartCheckBeforeStore, StartGivesUp, SetIdle, HandleOK,
         CallsOK
    <3>3. CallsOK'
      BY <2>5 DEF StartCheckBeforeStore, StartGivesUp, SetIdle, CallsOK,
         HandleOK
    <3>4. TasksOK'
      BY <2>5 DEF StartCheckBeforeStore, StartGivesUp, SetIdle, TasksOK,
         HandleOK
    <3>5. QED
      BY <3>1, <3>2, <3>3, <3>4
  <2>6. CASE StartStore
    <3>1. StopsOK' /\ WorldOK'
      BY <2>6 DEF StartStore, StopsOK, WorldOK
    <3>2. HandleOK'
      BY <2>6 DEF StartStore, HandleOK, CallsOK
    <3>3. CallsOK'
      BY <2>6 DEF StartStore, CallsOK, HandleOK
    <3>4. TasksOK'
      BY <2>6 DEF StartStore, TasksOK, HandleOK
    <3>5. QED
      BY <3>1, <3>2, <3>3, <3>4
  <2>7. CASE StartCheckAfterStore
    <3>1. StopsOK' /\ WorldOK'
      BY <2>7 DEF StartCheckAfterStore, StartGivesUp, SetIdle, DropCapture,
         StopsOK, WorldOK
    <3>2. HandleOK'
      BY <2>7 DEF StartCheckAfterStore, StartGivesUp, SetIdle, DropCapture,
         HandleOK, CallsOK
    <3>3. CallsOK'
      BY <2>7 DEF StartCheckAfterStore, StartGivesUp, SetIdle, DropCapture,
         CallsOK, HandleOK
    <3>4. TasksOK'
      BY <2>7 DEF StartCheckAfterStore, StartGivesUp, SetIdle, DropCapture,
         TasksOK, HandleOK
    <3>5. QED
      BY <3>1, <3>2, <3>3, <3>4
  <2>8. CASE StartNumber
    <3>1. StopsOK' /\ WorldOK'
      BY <2>8 DEF StartNumber, Overtakes, StopsOK, WorldOK
    <3>2. HandleOK'
      BY <2>8 DEF StartNumber, HandleOK, CallsOK
    <3>3. CallsOK'
      BY <2>8 DEF StartNumber, CallsOK, HandleOK
    <3>4. activeSttId + 1 \in Nat
      BY DEF HandleOK
    <3>5. TasksOK'
      BY <2>8, <3>4 DEF StartNumber, TasksOK
    <3>6. QED
      BY <3>1, <3>2, <3>3, <3>5
  <2>9. CASE StartArm
    <3>1. TasksOK' /\ StopsOK'
      BY <2>9 DEF StartArm, ArmDeadline, MarkStart, TasksOK, StopsOK
    <3>2. sid[takes] \in Nat
      BY <2>9 DEF StartArm, TasksOK, CallsOK
    <3>3. transOp' \in {NoOp} \cup [take : Takes, target : Targets, phase : Phases]
      BY <2>9 DEF StartArm, CallsOK
    <3>4. HandleOK'
      BY <2>9, <3>2, <3>3 DEF StartArm, ArmDeadline, MarkStart, HandleOK,
         CallsOK
    <3>5. CallsOK'
      BY <2>9 DEF StartArm, ArmDeadline, MarkStart, CallsOK, HandleOK
    <3>6. acked' \in [Takes -> Targets \cup {NoTarget}]
      BY <2>9 DEF StartArm, WorldOK
    <3>7. WorldOK'
      BY <2>9, <3>6 DEF StartArm, WorldOK
    <3>8. QED
      BY <3>1, <3>4, <3>5, <3>7
  <2>10. CASE StartRecording
    <3>1. TasksOK' /\ StopsOK' /\ WorldOK'
      BY <2>10 DEF StartRecording, TasksOK, StopsOK, WorldOK
    <3>2. HandleOK'
      BY <2>10 DEF StartRecording, HandleOK, CallsOK
    <3>3. CallsOK'
      BY <2>10 DEF StartRecording, CallsOK, HandleOK
    <3>4. QED
      BY <3>1, <3>2, <3>3
  <2>11. CASE StartSpawn
    <3>1. StopsOK' /\ WorldOK'
      BY <2>11 DEF StartSpawn, StopsOK, WorldOK
    <3>2. HandleOK'
      BY <2>11 DEF StartSpawn, HandleOK, CallsOK
    <3>3. CallsOK'
      BY <2>11 DEF StartSpawn, CallsOK, HandleOK
    <3>4. TasksOK'
      BY <2>11 DEF StartSpawn, TasksOK, HandleOK
    <3>5. QED
      BY <3>1, <3>2, <3>3, <3>4
  <2>12. CASE StopCall
    <3>1. TasksOK' /\ WorldOK'
      BY <2>12 DEF StopCall, StopExchange, TasksOK, WorldOK
    <3>2. HandleOK'
      BY <2>12 DEF StopCall, StopExchange, HandleOK, CallsOK
    <3>3. CallsOK'
      BY <2>12 DEF StopCall, StopExchange, CallsOK, HandleOK
    <3>4. StopsOK'
      BY <2>12 DEF StopCall, StopExchange, StopsOK, HandleOK
    <3>5. QED
      BY <3>1, <3>2, <3>3, <3>4
  <2>13. CASE AbortFlag
    <3>1. TasksOK' /\ StopsOK'
      BY <2>13 DEF AbortFlag, TasksOK, StopsOK
    <3>2. HandleOK'
      BY <2>13 DEF AbortFlag, HandleOK, CallsOK
    <3>3. CallsOK'
      BY <2>13 DEF AbortFlag, CallsOK, HandleOK
    <3>4. WorldOK'
      BY <2>13 DEF AbortFlag, Overtakes, WorldOK, HandleOK, StopsOK
    <3>5. QED
      BY <3>1, <3>2, <3>3, <3>4
  <2>14. CASE AbortRetire
    <3>1. TasksOK' /\ StopsOK' /\ WorldOK'
      BY <2>14 DEF AbortRetire, Overtakes, TasksOK, StopsOK, WorldOK
    <3>2. HandleOK'
      BY <2>14 DEF AbortRetire, HandleOK, CallsOK
    <3>3. CallsOK'
      BY <2>14 DEF AbortRetire, CallsOK, HandleOK
    <3>4. QED
      BY <3>1, <3>2, <3>3
  <2>15. CASE AbortSilence
    <3>1. StopsOK' /\ WorldOK'
      BY <2>15 DEF AbortSilence, DropCapture, StopsOK, WorldOK
    <3>2. HandleOK'
      BY <2>15 DEF AbortSilence, DropCapture, HandleOK, CallsOK
    <3>3. CallsOK'
      BY <2>15 DEF AbortSilence, DropCapture, CallsOK, HandleOK
    <3>4. TasksOK'
      BY <2>15 DEF AbortSilence, DropCapture, TasksOK, HandleOK
    <3>5. QED
      BY <3>1, <3>2, <3>3, <3>4
  <2>16. CASE AbortNotify
    <3>1. HandleOK' /\ StopsOK' /\ WorldOK'
      BY <2>16 DEF AbortNotify, HandleOK, StopsOK, WorldOK
    <3>2. CallsOK'
      BY <2>16 DEF AbortNotify, CallsOK, HandleOK
    <3>3. TasksOK'
      BY <2>16 DEF AbortNotify, TasksOK, HandleOK
    <3>4. QED
      BY <3>1, <3>2, <3>3
  <2>17. CASE AbortIdle
    <3>1. TasksOK' /\ StopsOK' /\ WorldOK'
      BY <2>17 DEF AbortIdle, SetIdle, TasksOK, StopsOK, WorldOK
    <3>2. HandleOK'
      BY <2>17 DEF AbortIdle, SetIdle, HandleOK, CallsOK
    <3>3. CallsOK'
      BY <2>17 DEF AbortIdle, SetIdle, CallsOK, HandleOK
    <3>4. QED
      BY <3>1, <3>2, <3>3
  <2>18. CASE SwitchCheck
    <3>1. HandleOK' /\ TasksOK' /\ StopsOK' /\ WorldOK'
      BY <2>18 DEF SwitchCheck, HandleOK, TasksOK, StopsOK, WorldOK
    <3>2. CallsOK'
      BY <2>18 DEF SwitchCheck, CallsOK, HandleOK
    <3>3. QED
      BY <3>1, <3>2
  <2>19. ASSUME NEW t \in Takes, TaskStale(t) PROVE TypeOK'
    <3>1. HandleOK' /\ CallsOK' /\ StopsOK' /\ WorldOK'
      BY <2>19 DEF TaskStale, TaskOver, HandleOK, CallsOK, StopsOK, WorldOK
    <3>2. TasksOK'
      BY <2>19 DEF TaskStale, TaskOver, TasksOK, HandleOK
    <3>3. QED
      BY <3>1, <3>2
  <2>20. ASSUME NEW t \in Takes, TaskCancelled(t) PROVE TypeOK'
    <3>1. HandleOK' /\ CallsOK' /\ StopsOK' /\ WorldOK'
      BY <2>20 DEF TaskCancelled, TaskOver, HandleOK, CallsOK, StopsOK, WorldOK
    <3>2. TasksOK'
      BY <2>20 DEF TaskCancelled, TaskOver, TasksOK, HandleOK
    <3>3. QED
      BY <3>1, <3>2
  <2>21. ASSUME NEW t \in Takes, TaskText(t) PROVE TypeOK'
    <3>1. HandleOK' /\ CallsOK' /\ StopsOK' /\ WorldOK'
      BY <2>21 DEF TaskText, HandleOK, CallsOK, StopsOK, WorldOK
    <3>2. TasksOK'
      BY <2>21 DEF TaskText, TaskGoes, TasksOK, HandleOK
    <3>3. QED
      BY <3>1, <3>2
  <2>22. ASSUME NEW t \in Takes, TaskFail(t) PROVE TypeOK'
    <3>1. HandleOK' /\ CallsOK' /\ StopsOK' /\ WorldOK'
      BY <2>22 DEF TaskFail, HandleOK, CallsOK, StopsOK, WorldOK
    <3>2. TasksOK'
      BY <2>22 DEF TaskFail, TaskGoes, TaskOver, TasksOK, HandleOK
    <3>3. QED
      BY <3>1, <3>2
  <2>23. ASSUME NEW t \in Takes, TaskDrain(t) PROVE TypeOK'
    <3>1. HandleOK' /\ CallsOK' /\ StopsOK' /\ WorldOK'
      BY <2>23 DEF TaskDrain, TaskGoes, HandleOK, CallsOK, StopsOK, WorldOK
    <3>2. TasksOK'
      BY <2>23 DEF TaskDrain, TaskGoes, TasksOK, HandleOK
    <3>3. QED
      BY <3>1, <3>2
  <2>24. ASSUME NEW t \in Takes, TaskDisconnect(t) PROVE TypeOK'
    <3>1. HandleOK' /\ CallsOK' /\ StopsOK' /\ WorldOK'
      BY <2>24 DEF TaskDisconnect, HandleOK, CallsOK, StopsOK, WorldOK
    <3>2. TasksOK'
      BY <2>24 DEF TaskDisconnect, TaskGoes, TaskOver, TasksOK, HandleOK
    <3>3. QED
      BY <3>1, <3>2
  <2>24a. ASSUME NEW t \in Takes, TaskAppends(t) PROVE TypeOK'
    <3>1. CallsOK' /\ StopsOK'
      BY <2>24a DEF TaskAppends, CallsOK, StopsOK, HandleOK
    <3>2. HandleOK'
      BY <2>24a DEF TaskAppends, HandleOK, CallsOK
    <3>3. TasksOK'
      BY <2>24a DEF TaskAppends, TaskGoes, TaskOver, TasksOK, HandleOK
    <3>4. WorldOK'
      BY <2>24a DEF TaskAppends, WorldOK
    <3>5. QED
      BY <3>1, <3>2, <3>3, <3>4
  <2>24b. ASSUME NEW t \in Takes, TaskLatches(t) PROVE TypeOK'
    <3>1. CallsOK' /\ StopsOK'
      BY <2>24b DEF TaskLatches, CallsOK, StopsOK, HandleOK
    <3>2. HandleOK'
      BY <2>24b DEF TaskLatches, HandleOK, CallsOK
    <3>3. TasksOK'
      BY <2>24b DEF TaskLatches, TaskOver, TasksOK, HandleOK
    <3>4. WorldOK'
      BY <2>24b DEF TaskLatches, WorldOK
    <3>5. QED
      BY <3>1, <3>2, <3>3, <3>4
  <2>25. ASSUME NEW t \in Takes, StopTakeOver(t) PROVE TypeOK'
    <3>1. CallsOK' /\ WorldOK'
      BY <2>25 DEF StopTakeOver, DropCapture, CallsOK, WorldOK, HandleOK
    <3>2. HandleOK'
      BY <2>25 DEF StopTakeOver, DropCapture, HandleOK, CallsOK
    <3>3. TasksOK'
      BY <2>25 DEF StopTakeOver, DropCapture, TasksOK, HandleOK
    <3>4. StopsOK'
      BY <2>25 DEF StopTakeOver, DropCapture, StopsOK, HandleOK
    <3>5. QED
      BY <3>1, <3>2, <3>3, <3>4
  <2>26. ASSUME NEW t \in Takes, StopStale(t) PROVE TypeOK'
    <3>1. CallsOK'
      BY <2>26 DEF StopStale, Waited, StopReturns, ClearSession, CallsOK,
         HandleOK
    <3>2. HandleOK'
      BY <2>26 DEF StopStale, Waited, StopReturns, ClearSession, HandleOK,
         CallsOK
    <3>3. TasksOK'
      BY <2>26 DEF StopStale, Waited, StopReturns, ClearSession, TasksOK,
         HandleOK
    <3>4. StopsOK'
      BY <2>26 DEF StopStale, Waited, StopReturns, ClearSession, StopsOK,
         HandleOK
    <3>5. timedOut' \subseteq Takes
      BY <2>26, WaitedFor DEF StopStale
    <3>6. charged' \subseteq Takes
      BY <2>26 DEF StopStale, StopReturns, WorldOK
    <3>7. WorldOK'
      BY <2>26, <3>5, <3>6 DEF StopStale, WorldOK, waitUnchanged
    <3>8. QED
      BY <3>1, <3>2, <3>3, <3>4, <3>7
  <2>27. ASSUME NEW t \in Takes, StopError(t) PROVE TypeOK'
    <3>1. HandleOK'
      BY <2>27 DEF StopError, Waited, StopReturns, ClearSession, SetIdle,
         HandleOK, CallsOK
    <3>2. CallsOK'
      BY <2>27 DEF StopError, Waited, StopReturns, ClearSession, SetIdle,
         CallsOK, HandleOK
    <3>3. TasksOK'
      BY <2>27 DEF StopError, Waited, StopReturns, ClearSession, SetIdle,
         TasksOK, HandleOK
    <3>4. StopsOK'
      BY <2>27 DEF StopError, Waited, StopReturns, ClearSession, SetIdle,
         StopsOK, HandleOK
    <3>5. timedOut' \subseteq Takes
      BY <2>27, WaitedFor DEF StopError
    <3>6. charged' \subseteq Takes
      BY <2>27 DEF StopError, WorldOK
    <3>7. WorldOK'
      BY <2>27, <3>5, <3>6 DEF StopError, WorldOK, waitUnchanged
    <3>8. QED
      BY <3>1, <3>2, <3>3, <3>4, <3>7
  <2>28. ASSUME NEW t \in Takes, StopSilent(t) PROVE TypeOK'
    <3>1. HandleOK'
      BY <2>28 DEF StopSilent, Waited, StopReturns, ClearSession, SetIdle,
         HandleOK, CallsOK
    <3>2. CallsOK'
      BY <2>28 DEF StopSilent, Waited, StopReturns, ClearSession, SetIdle,
         CallsOK, HandleOK
    <3>3. TasksOK'
      BY <2>28 DEF StopSilent, Waited, StopReturns, ClearSession, SetIdle,
         TasksOK, HandleOK
    <3>4. StopsOK'
      BY <2>28 DEF StopSilent, Waited, StopReturns, ClearSession, SetIdle,
         StopsOK, HandleOK
    <3>5. timedOut' \subseteq Takes
      BY <2>28, WaitedFor DEF StopSilent
    <3>6. charged' \subseteq Takes
      BY <2>28 DEF StopSilent, StopReturns, WorldOK
    <3>7. WorldOK'
      BY <2>28, <3>5, <3>6 DEF StopSilent, WorldOK, waitUnchanged
    <3>8. QED
      BY <3>1, <3>2, <3>3, <3>4, <3>7
  <2>29. ASSUME NEW t \in Takes, StopHears(t) PROVE TypeOK'
    <3>1. CallsOK'
      BY <2>29 DEF StopHears, Waited, StopReturns, ClearSession, CallsOK,
         HandleOK
    <3>2. HandleOK'
      BY <2>29 DEF StopHears, Waited, StopReturns, ClearSession, HandleOK,
         CallsOK
    <3>3. TasksOK'
      BY <2>29 DEF StopHears, Waited, StopReturns, ClearSession, TasksOK,
         HandleOK
    <3>4. StopsOK'
      BY <2>29 DEF StopHears, Waited, StopReturns, ClearSession, StopsOK,
         HandleOK
    <3>5. timedOut' \subseteq Takes
      BY <2>29, WaitedFor DEF StopHears
    <3>6. charged' \subseteq Takes
      BY <2>29 DEF StopHears, StopReturns, WorldOK
    <3>7. WorldOK'
      BY <2>29, <3>5, <3>6 DEF StopHears, WorldOK, waitUnchanged
    <3>8. QED
      BY <3>1, <3>2, <3>3, <3>4, <3>7
  <2>30. ASSUME NEW t \in Takes, StopRoutes(t) PROVE TypeOK'
    <3>1. CallsOK' /\ TasksOK' /\ WorldOK'
      BY <2>30 DEF StopRoutes, StopReturns, ClearSession, Goto, CallsOK,
         TasksOK, WorldOK, HandleOK
    <3>2. HandleOK'
      BY <2>30 DEF StopRoutes, StopReturns, ClearSession, Goto, HandleOK,
         CallsOK
    <3>3. StopsOK'
      BY <2>30 DEF StopRoutes, StopReturns, ClearSession, Goto, StopsOK,
         HandleOK
    <3>4. QED
      BY <3>1, <3>2, <3>3
  <2>31. ASSUME NEW t \in Takes, StopPolishes(t) PROVE TypeOK'
    <3>1. TasksOK' /\ WorldOK'
      BY <2>31 DEF StopPolishes, Goto, TasksOK, WorldOK
    <3>2. HandleOK'
      BY <2>31 DEF StopPolishes, Goto, HandleOK, CallsOK
    <3>3. CallsOK'
      BY <2>31 DEF StopPolishes, Goto, CallsOK, HandleOK
    <3>4. StopsOK'
      BY <2>31 DEF StopPolishes, Goto, StopsOK, HandleOK
    <3>5. QED
      BY <3>1, <3>2, <3>3, <3>4
  <2>32. ASSUME NEW t \in Takes, StreamChunk(t) PROVE TypeOK'
    <3>1. HandleOK' /\ CallsOK' /\ TasksOK' /\ WorldOK'
      BY <2>32 DEF StreamChunk, HandleOK, CallsOK, TasksOK, WorldOK
    <3>2. StopsOK'
      BY <2>32 DEF StreamChunk, StopsOK, HandleOK
    <3>3. QED
      BY <3>1, <3>2
  <2>32a. ASSUME NEW t \in Takes, StreamTyped(t) PROVE TypeOK'
    <3>1. HandleOK' /\ CallsOK' /\ TasksOK'
      BY <2>32a DEF StreamTyped, HandleOK, CallsOK, TasksOK
    <3>2. StopsOK'
      BY <2>32a DEF StreamTyped, StopsOK, HandleOK
    <3>3. WorldOK'
      BY <2>32a DEF StreamTyped, WorldOK, HandleOK, StopsOK
    <3>4. QED
      BY <3>1, <3>2, <3>3
  <2>33. ASSUME NEW t \in Takes, StopPolished(t) PROVE TypeOK'
    <3>1. HandleOK' /\ CallsOK' /\ TasksOK' /\ WorldOK'
      BY <2>33 DEF StopPolished, Goto, HandleOK, CallsOK, TasksOK, WorldOK
    <3>2. StopsOK'
      BY <2>33 DEF StopPolished, Goto, StopsOK, HandleOK
    <3>3. QED
      BY <3>1, <3>2
  <2>33a. ASSUME NEW t \in Takes, StopCompletes(t) PROVE TypeOK'
    <3>1. HandleOK' /\ CallsOK' /\ TasksOK'
      BY <2>33a DEF StopCompletes, Goto, HandleOK, CallsOK, TasksOK
    <3>2. StopsOK'
      BY <2>33a DEF StopCompletes, Goto, StopsOK, HandleOK
    <3>3. WorldOK'
      BY <2>33a DEF StopCompletes, GivesWhole, WorldOK
    <3>4. QED
      BY <3>1, <3>2, <3>3
  <2>34. ASSUME NEW t \in Takes, StopDelivers(t) PROVE TypeOK'
    <3>1. TasksOK'
      BY <2>34 DEF StopDelivers, Goto, TasksOK
    <3>2. HandleOK'
      BY <2>34 DEF StopDelivers, Goto, HandleOK, CallsOK
    <3>3. CallsOK'
      BY <2>34 DEF StopDelivers, Goto, CallsOK, HandleOK
    <3>4. StopsOK'
      BY <2>34 DEF StopDelivers, Goto, StopsOK, HandleOK
    <3>5. WorldOK'
      BY <2>34 DEF StopDelivers, GivesWhole, Goto, WorldOK, HandleOK, StopsOK
    <3>6. QED
      BY <3>1, <3>2, <3>3, <3>4, <3>5
  <2>35. ASSUME NEW t \in Takes, StopSaves(t) PROVE TypeOK'
    <3>1. CallsOK' /\ TasksOK'
      BY <2>35 DEF StopSaves, Goto, CallsOK, TasksOK, HandleOK
    <3>2. HandleOK'
      BY <2>35 DEF StopSaves, Goto, HandleOK, CallsOK
    <3>3. StopsOK'
      BY <2>35 DEF StopSaves, Goto, StopsOK, HandleOK
    <3>4. WorldOK'
      BY <2>35 DEF StopSaves, Goto, WorldOK, HandleOK, StopsOK
    <3>5. QED
      BY <3>1, <3>2, <3>3, <3>4
  <2>36. ASSUME NEW t \in Takes, StopCloses(t) PROVE TypeOK'
    <3>1. TasksOK' /\ WorldOK'
      BY <2>36 DEF StopCloses, StopReturns, ClearSession, SetIdle, TasksOK,
         WorldOK
    <3>2. HandleOK'
      BY <2>36 DEF StopCloses, StopReturns, ClearSession, SetIdle, HandleOK,
         CallsOK
    <3>3. CallsOK'
      BY <2>36 DEF StopCloses, StopReturns, ClearSession, SetIdle, CallsOK,
         HandleOK
    <3>4. StopsOK'
      BY <2>36 DEF StopCloses, StopReturns, ClearSession, SetIdle, StopsOK,
         HandleOK
    <3>5. QED
      BY <3>1, <3>2, <3>3, <3>4
  <2>37. ASSUME NEW t \in Takes, DeadlineWakes(t) PROVE TypeOK'
    <3>1. HandleOK' /\ CallsOK' /\ StopsOK' /\ WorldOK'
      BY <2>37 DEF DeadlineWakes, HandleOK, CallsOK, StopsOK, WorldOK
    <3>2. TasksOK'
      BY <2>37 DEF DeadlineWakes, TasksOK, HandleOK
    <3>3. QED
      BY <3>1, <3>2
  <2>38. ASSUME NEW t \in Takes, DeadlineStops(t) PROVE TypeOK'
    <3>1. WorldOK'
      BY <2>38 DEF DeadlineStops, StopExchange, WorldOK
    <3>2. HandleOK'
      BY <2>38 DEF DeadlineStops, StopExchange, HandleOK, CallsOK
    <3>3. CallsOK'
      BY <2>38 DEF DeadlineStops, StopExchange, CallsOK, HandleOK
    <3>4. TasksOK'
      BY <2>38 DEF DeadlineStops, StopExchange, TasksOK, HandleOK
    <3>5. StopsOK'
      BY <2>38 DEF DeadlineStops, StopExchange, StopsOK, HandleOK
    <3>6. QED
      BY <3>1, <3>2, <3>3, <3>4, <3>5
  <2>39. ASSUME NEW tg \in Targets, SwitchTarget(tg) PROVE TypeOK'
    <3>1. TasksOK' /\ StopsOK'
      BY <2>39 DEF SwitchTarget, TasksOK, StopsOK
    <3>2. HandleOK'
      BY <2>39 DEF SwitchTarget, HandleOK, CallsOK
    <3>3. CallsOK'
      BY <2>39 DEF SwitchTarget, CallsOK, HandleOK
    <3>4. acked' \in [Takes -> Targets \cup {NoTarget}]
      BY <2>39 DEF SwitchTarget, WorldOK
    <3>5. WorldOK'
      BY <2>39, <3>4 DEF SwitchTarget, WorldOK
    <3>6. QED
      BY <3>1, <3>2, <3>3, <3>5
  <2>40. CASE UNCHANGED vars
    BY <2>40 DEF HandleOK, CallsOK, TasksOK, StopsOK, WorldOK
  <2>41. QED
    BY <2>1, <2>2, <2>3, <2>4, <2>5, <2>6, <2>7, <2>8, <2>9, <2>10, <2>11,
       <2>12, <2>13, <2>14, <2>15, <2>16, <2>17, <2>18, <2>19, <2>20, <2>21,
       <2>22, <2>23, <2>24, <2>24a,
       <2>24b, <2>25, <2>26, <2>27, <2>28, <2>29, <2>30, <2>31,
       <2>32, <2>32a, <2>33, <2>33a, <2>34, <2>35, <2>36, <2>37, <2>38, <2>39, <2>40 DEF Next,
       Start, Task, Stop, Abort
<1>3. QED
  BY <1>1, <1>2, PTL DEF Spec

\* Ownership: the inductive invariant behind StopOwnsSetup.
THEOREM Ownership == Spec => []SetupInv
<1> USE DEF NoTake, NoOp
<1>1. ASSUME Init PROVE SetupInv
  BY <1>1 DEF Init, SetupInv, StartOwns, RecordingOwned, CapturingOwned,
     Untouched, StopOwnsSetup, SettingUp
<1>2. ASSUME TypeOK, SetupInv, [Next]_vars PROVE SetupInv'
  <2> USE <1>2 DEF SetupInv, TypeOK, CallsOK, StopsOK, Takes, SettingUp
  <2>1. CASE StartCall
    BY <2>1 DEF StartCall, LockFree, StartOwns, RecordingOwned, CapturingOwned,
       Untouched, StopOwnsSetup
  <2>2. CASE StartExchange
    <3>1. StartOwns'
      BY <2>2 DEF StartExchange, StartClears, StartOwns, RecordingOwned,
         CapturingOwned, Untouched, StopOwnsSetup
    <3>2. RecordingOwned'
      BY <2>2 DEF StartExchange, StartClears, StartOwns, RecordingOwned,
         CapturingOwned, Untouched, StopOwnsSetup
    <3>3. CapturingOwned'
      BY <2>2 DEF StartExchange, StartClears, StartOwns, RecordingOwned,
         CapturingOwned, Untouched, StopOwnsSetup
    <3>4. Untouched'
      BY <2>2 DEF StartExchange, StartClears, StartOwns, RecordingOwned,
         CapturingOwned, Untouched, StopOwnsSetup
    <3>5. StopOwnsSetup'
      BY <2>2 DEF StartExchange, StartClears, StartOwns, RecordingOwned,
         CapturingOwned, Untouched, StopOwnsSetup
    <3>6. QED
      BY <3>1, <3>2, <3>3, <3>4, <3>5
  <2>3. CASE StartConfigure
    <3>1. StartOwns'
      BY <2>3 DEF StartConfigure, StartGivesUp, SetIdle, StartOwns,
         RecordingOwned, CapturingOwned, Untouched, StopOwnsSetup
    <3>2. RecordingOwned'
      BY <2>3 DEF StartConfigure, StartGivesUp, SetIdle, StartOwns,
         RecordingOwned, CapturingOwned, Untouched, StopOwnsSetup
    <3>3. CapturingOwned'
      BY <2>3 DEF StartConfigure, StartGivesUp, SetIdle, StartOwns,
         RecordingOwned, CapturingOwned, Untouched, StopOwnsSetup
    <3>4. Untouched'
      BY <2>3 DEF StartConfigure, StartGivesUp, SetIdle, StartOwns,
         RecordingOwned, CapturingOwned, Untouched, StopOwnsSetup
    <3>5. StopOwnsSetup'
      BY <2>3 DEF StartConfigure, StartGivesUp, SetIdle, StartOwns,
         RecordingOwned, CapturingOwned, Untouched, StopOwnsSetup
    <3>6. QED
      BY <3>1, <3>2, <3>3, <3>4, <3>5
  <2>4. CASE StartConnect
    BY <2>4 DEF StartConnect, StartGivesUp, SetIdle, StartOwns, RecordingOwned,
       CapturingOwned, Untouched, StopOwnsSetup
  <2>5. CASE StartCheckBeforeStore
    BY <2>5 DEF StartCheckBeforeStore, StartGivesUp, SetIdle, StartOwns,
       RecordingOwned, CapturingOwned, Untouched, StopOwnsSetup
  <2>6. CASE StartStore
    BY <2>6 DEF StartStore, StartOwns, RecordingOwned, CapturingOwned,
       Untouched, StopOwnsSetup
  <2>7. CASE StartCheckAfterStore
    BY <2>7 DEF StartCheckAfterStore, StartGivesUp, SetIdle, DropCapture,
       StartOwns, RecordingOwned, CapturingOwned, Untouched, StopOwnsSetup
  <2>8. CASE StartNumber
    <3>1. StartOwns'
      BY <2>8 DEF StartNumber, StartOwns, RecordingOwned, CapturingOwned,
         Untouched, StopOwnsSetup
    <3>2. RecordingOwned'
      BY <2>8 DEF StartNumber, StartOwns, RecordingOwned, CapturingOwned,
         Untouched, StopOwnsSetup
    <3>3. CapturingOwned'
      BY <2>8 DEF StartNumber, StartOwns, RecordingOwned, CapturingOwned,
         Untouched, StopOwnsSetup
    <3>4. Untouched'
      BY <2>8 DEF StartNumber, StartOwns, RecordingOwned, CapturingOwned,
         Untouched, StopOwnsSetup
    <3>5. StopOwnsSetup'
      BY <2>8 DEF StartNumber, StartOwns, RecordingOwned, CapturingOwned,
         Untouched, StopOwnsSetup
    <3>6. QED
      BY <3>1, <3>2, <3>3, <3>4, <3>5
  <2>9. CASE StartArm
    BY <2>9 DEF StartArm, ArmDeadline, MarkStart, StartOwns, RecordingOwned,
       CapturingOwned, Untouched, StopOwnsSetup
  <2>10. CASE StartRecording
    <3>1. StartOwns'
      BY <2>10 DEF StartRecording, StartOwns, RecordingOwned, CapturingOwned,
         Untouched, StopOwnsSetup
    <3>2. RecordingOwned'
      BY <2>10 DEF StartRecording, StartOwns, RecordingOwned, CapturingOwned,
         Untouched, StopOwnsSetup
    <3>3. CapturingOwned'
      BY <2>10 DEF StartRecording, StartOwns, RecordingOwned, CapturingOwned,
         Untouched, StopOwnsSetup
    <3>4. Untouched'
      BY <2>10 DEF StartRecording, StartOwns, RecordingOwned, CapturingOwned,
         Untouched, StopOwnsSetup
    <3>5. StopOwnsSetup'
      BY <2>10 DEF StartRecording, StartOwns, RecordingOwned, CapturingOwned,
         Untouched, StopOwnsSetup
    <3>6. QED
      BY <3>1, <3>2, <3>3, <3>4, <3>5
  <2>11. CASE StartSpawn
    <3>1. StartOwns'
      BY <2>11 DEF StartSpawn, StartOwns, RecordingOwned, CapturingOwned,
         Untouched, StopOwnsSetup
    <3>2. RecordingOwned'
      BY <2>11 DEF StartSpawn, StartOwns, RecordingOwned, CapturingOwned,
         Untouched, StopOwnsSetup
    <3>3. CapturingOwned'
      BY <2>11 DEF StartSpawn, StartOwns, RecordingOwned, CapturingOwned,
         Untouched, StopOwnsSetup
    <3>4. Untouched'
      BY <2>11 DEF StartSpawn, StartOwns, RecordingOwned, CapturingOwned,
         Untouched, StopOwnsSetup
    <3>5. StopOwnsSetup'
      BY <2>11 DEF StartSpawn, StartOwns, RecordingOwned, CapturingOwned,
         Untouched, StopOwnsSetup
    <3>6. QED
      BY <3>1, <3>2, <3>3, <3>4, <3>5
  <2>12. CASE StopCall
    <3>1. StartOwns'
      BY <2>12 DEF StopCall, StopExchange, LockFree, StartOwns, RecordingOwned,
         CapturingOwned, Untouched, StopOwnsSetup
    <3>2. RecordingOwned'
      BY <2>12 DEF StopCall, StopExchange, LockFree, StartOwns, RecordingOwned,
         CapturingOwned, Untouched, StopOwnsSetup
    <3>3. CapturingOwned'
      BY <2>12 DEF StopCall, StopExchange, LockFree, StartOwns, RecordingOwned,
         CapturingOwned, Untouched, StopOwnsSetup
    <3>4. Untouched'
      BY <2>12 DEF StopCall, StopExchange, LockFree, StartOwns, RecordingOwned,
         CapturingOwned, Untouched, StopOwnsSetup
    <3>5. StopOwnsSetup'
      BY <2>12 DEF StopCall, StopExchange, LockFree, StartOwns, RecordingOwned,
         CapturingOwned, Untouched, StopOwnsSetup
    <3>6. QED
      BY <3>1, <3>2, <3>3, <3>4, <3>5
  <2>13. CASE AbortFlag
    BY <2>13 DEF AbortFlag, StartOwns, RecordingOwned, CapturingOwned,
       Untouched, StopOwnsSetup
  <2>14. CASE AbortRetire
    BY <2>14 DEF AbortRetire, StartOwns, RecordingOwned, CapturingOwned,
       Untouched, StopOwnsSetup
  <2>15. CASE AbortSilence
    BY <2>15 DEF AbortSilence, DropCapture, StartOwns, RecordingOwned,
       CapturingOwned, Untouched, StopOwnsSetup
  <2>16. CASE AbortNotify
    BY <2>16 DEF AbortNotify, StartOwns, RecordingOwned, CapturingOwned,
       Untouched, StopOwnsSetup
  <2>17. CASE AbortIdle
    BY <2>17 DEF AbortIdle, SetIdle, StartOwns, RecordingOwned, CapturingOwned,
       Untouched, StopOwnsSetup
  <2>18. CASE SwitchCheck
    BY <2>18 DEF SwitchCheck, StartOwns, RecordingOwned, CapturingOwned,
       Untouched, StopOwnsSetup
  <2>19. ASSUME NEW t \in Takes, TaskStale(t) PROVE SetupInv'
    BY <2>19 DEF TaskStale, TaskOver, StartOwns, RecordingOwned, CapturingOwned,
       Untouched, StopOwnsSetup
  <2>20. ASSUME NEW t \in Takes, TaskCancelled(t) PROVE SetupInv'
    BY <2>20 DEF TaskCancelled, TaskOver, StartOwns, RecordingOwned,
       CapturingOwned, Untouched, StopOwnsSetup
  <2>21. ASSUME NEW t \in Takes, TaskText(t) PROVE SetupInv'
    BY <2>21 DEF TaskText, TaskGoes, StartOwns, RecordingOwned, CapturingOwned,
       Untouched, StopOwnsSetup
  <2>22. ASSUME NEW t \in Takes, TaskFail(t) PROVE SetupInv'
    BY <2>22 DEF TaskFail, TaskGoes, TaskOver, StartOwns, RecordingOwned,
       CapturingOwned, Untouched, StopOwnsSetup
  <2>23. ASSUME NEW t \in Takes, TaskDrain(t) PROVE SetupInv'
    BY <2>23 DEF TaskDrain, TaskGoes, StartOwns, RecordingOwned, CapturingOwned,
       Untouched, StopOwnsSetup
  <2>24. ASSUME NEW t \in Takes, TaskDisconnect(t) PROVE SetupInv'
    BY <2>24 DEF TaskDisconnect, TaskGoes, TaskOver, StartOwns,
       RecordingOwned, CapturingOwned, Untouched, StopOwnsSetup
  <2>24a. ASSUME NEW t \in Takes, TaskAppends(t) PROVE SetupInv'
    BY <2>24a DEF TaskAppends, TaskGoes, TaskOver, StartOwns, RecordingOwned,
       CapturingOwned, Untouched, StopOwnsSetup
  <2>24b. ASSUME NEW t \in Takes, TaskLatches(t) PROVE SetupInv'
    BY <2>24b DEF TaskLatches, TaskOver, StartOwns, RecordingOwned,
       CapturingOwned, Untouched, StopOwnsSetup
  <2>25. ASSUME NEW t \in Takes, StopTakeOver(t) PROVE SetupInv'
    <3>1. StartOwns'
      BY <2>25 DEF StopTakeOver, DropCapture, StartOwns, RecordingOwned,
         CapturingOwned, Untouched, StopOwnsSetup
    <3>2. RecordingOwned'
      BY <2>25 DEF StopTakeOver, DropCapture, StartOwns, RecordingOwned,
         CapturingOwned, Untouched, StopOwnsSetup
    <3>3. CapturingOwned'
      BY <2>25 DEF StopTakeOver, DropCapture, StartOwns, RecordingOwned,
         CapturingOwned, Untouched, StopOwnsSetup
    <3>4. Untouched'
      BY <2>25 DEF StopTakeOver, DropCapture, StartOwns, RecordingOwned,
         CapturingOwned, Untouched, StopOwnsSetup
    <3>5. StopOwnsSetup'
      BY <2>25 DEF StopTakeOver, DropCapture, StartOwns, RecordingOwned,
         CapturingOwned, Untouched, StopOwnsSetup
    <3>6. QED
      BY <3>1, <3>2, <3>3, <3>4, <3>5
  <2>26. ASSUME NEW t \in Takes, StopStale(t) PROVE SetupInv'
    <3>1. StartOwns'
      BY <2>26 DEF StopStale, Waited, StopReturns, ClearSession, StartOwns,
         RecordingOwned, CapturingOwned, Untouched, StopOwnsSetup
    <3>2. RecordingOwned'
      BY <2>26 DEF StopStale, Waited, StopReturns, ClearSession, StartOwns,
         RecordingOwned, CapturingOwned, Untouched, StopOwnsSetup
    <3>3. CapturingOwned'
      BY <2>26 DEF StopStale, Waited, StopReturns, ClearSession, StartOwns,
         RecordingOwned, CapturingOwned, Untouched, StopOwnsSetup
    <3>4. Untouched'
      BY <2>26 DEF StopStale, Waited, StopReturns, ClearSession, StartOwns,
         RecordingOwned, CapturingOwned, Untouched, StopOwnsSetup
    <3>5. StopOwnsSetup'
      BY <2>26 DEF StopStale, Waited, StopReturns, ClearSession, StartOwns,
         RecordingOwned, CapturingOwned, Untouched, StopOwnsSetup
    <3>6. QED
      BY <3>1, <3>2, <3>3, <3>4, <3>5
  <2>27. ASSUME NEW t \in Takes, StopError(t) PROVE SetupInv'
    <3>1. StartOwns'
      BY <2>27 DEF StopError, Waited, StopReturns, ClearSession, SetIdle,
         StartOwns, RecordingOwned, CapturingOwned, Untouched, StopOwnsSetup
    <3>2. RecordingOwned'
      BY <2>27 DEF StopError, Waited, StopReturns, ClearSession, SetIdle,
         StartOwns, RecordingOwned, CapturingOwned, Untouched, StopOwnsSetup
    <3>3. CapturingOwned'
      BY <2>27 DEF StopError, Waited, StopReturns, ClearSession, SetIdle,
         StartOwns, RecordingOwned, CapturingOwned, Untouched, StopOwnsSetup
    <3>4. Untouched'
      BY <2>27 DEF StopError, Waited, StopReturns, ClearSession, SetIdle,
         StartOwns, RecordingOwned, CapturingOwned, Untouched, StopOwnsSetup
    <3>5. StopOwnsSetup'
      BY <2>27 DEF StopError, Waited, StopReturns, ClearSession, SetIdle,
         StartOwns, RecordingOwned, CapturingOwned, Untouched, StopOwnsSetup
    <3>6. QED
      BY <3>1, <3>2, <3>3, <3>4, <3>5
  <2>28. ASSUME NEW t \in Takes, StopSilent(t) PROVE SetupInv'
    <3>1. StartOwns'
      BY <2>28 DEF StopSilent, Waited, StopReturns, ClearSession, SetIdle,
         StartOwns, RecordingOwned, CapturingOwned, Untouched, StopOwnsSetup
    <3>2. RecordingOwned'
      BY <2>28 DEF StopSilent, Waited, StopReturns, ClearSession, SetIdle,
         StartOwns, RecordingOwned, CapturingOwned, Untouched, StopOwnsSetup
    <3>3. CapturingOwned'
      BY <2>28 DEF StopSilent, Waited, StopReturns, ClearSession, SetIdle,
         StartOwns, RecordingOwned, CapturingOwned, Untouched, StopOwnsSetup
    <3>4. Untouched'
      BY <2>28 DEF StopSilent, Waited, StopReturns, ClearSession, SetIdle,
         StartOwns, RecordingOwned, CapturingOwned, Untouched, StopOwnsSetup
    <3>5. StopOwnsSetup'
      BY <2>28 DEF StopSilent, Waited, StopReturns, ClearSession, SetIdle,
         StartOwns, RecordingOwned, CapturingOwned, Untouched, StopOwnsSetup
    <3>6. QED
      BY <3>1, <3>2, <3>3, <3>4, <3>5
  <2>29. ASSUME NEW t \in Takes, StopHears(t) PROVE SetupInv'
    BY <2>29 DEF StopHears, Waited, StartOwns, RecordingOwned, CapturingOwned,
       Untouched, StopOwnsSetup
  <2>30. ASSUME NEW t \in Takes, StopRoutes(t) PROVE SetupInv'
    <3>1. StartOwns'
      BY <2>30 DEF StopRoutes, StopReturns, ClearSession, Goto, StartOwns,
         RecordingOwned, CapturingOwned, Untouched, StopOwnsSetup
    <3>2. RecordingOwned'
      BY <2>30 DEF StopRoutes, StopReturns, ClearSession, Goto, StartOwns,
         RecordingOwned, CapturingOwned, Untouched, StopOwnsSetup
    <3>3. CapturingOwned'
      BY <2>30 DEF StopRoutes, StopReturns, ClearSession, Goto, StartOwns,
         RecordingOwned, CapturingOwned, Untouched, StopOwnsSetup
    <3>4. Untouched'
      BY <2>30 DEF StopRoutes, StopReturns, ClearSession, Goto, StartOwns,
         RecordingOwned, CapturingOwned, Untouched, StopOwnsSetup
    <3>5. StopOwnsSetup'
      BY <2>30 DEF StopRoutes, StopReturns, ClearSession, Goto, StartOwns,
         RecordingOwned, CapturingOwned, Untouched, StopOwnsSetup
    <3>6. QED
      BY <3>1, <3>2, <3>3, <3>4, <3>5
  <2>31. ASSUME NEW t \in Takes, StopPolishes(t) PROVE SetupInv'
    BY <2>31 DEF StopPolishes, Goto, StartOwns, RecordingOwned, CapturingOwned,
       Untouched, StopOwnsSetup
  <2>32. ASSUME NEW t \in Takes, StreamChunk(t) PROVE SetupInv'
    BY <2>32 DEF StreamChunk, StartOwns, RecordingOwned, CapturingOwned,
       Untouched, StopOwnsSetup
  <2>32a. ASSUME NEW t \in Takes, StreamTyped(t) PROVE SetupInv'
    BY <2>32a DEF StreamTyped, StartOwns, RecordingOwned,
       CapturingOwned, Untouched, StopOwnsSetup
  <2>33. ASSUME NEW t \in Takes, StopPolished(t) PROVE SetupInv'
    BY <2>33 DEF StopPolished, Goto, StartOwns, RecordingOwned, CapturingOwned,
       Untouched, StopOwnsSetup
  <2>33a. ASSUME NEW t \in Takes, StopCompletes(t) PROVE SetupInv'
    BY <2>33a DEF StopCompletes, Goto, StartOwns, RecordingOwned,
       CapturingOwned, Untouched, StopOwnsSetup
  <2>34. ASSUME NEW t \in Takes, StopDelivers(t) PROVE SetupInv'
    BY <2>34 DEF StopDelivers, Goto, StartOwns, RecordingOwned, CapturingOwned,
       Untouched, StopOwnsSetup
  <2>35. ASSUME NEW t \in Takes, StopSaves(t) PROVE SetupInv'
    BY <2>35 DEF StopSaves, Goto, StartOwns, RecordingOwned, CapturingOwned,
       Untouched, StopOwnsSetup
  <2>36. ASSUME NEW t \in Takes, StopCloses(t) PROVE SetupInv'
    <3>1. StartOwns'
      BY <2>36 DEF StopCloses, StopReturns, ClearSession, SetIdle, StartOwns,
         RecordingOwned, CapturingOwned, Untouched, StopOwnsSetup
    <3>2. RecordingOwned'
      BY <2>36 DEF StopCloses, StopReturns, ClearSession, SetIdle, StartOwns,
         RecordingOwned, CapturingOwned, Untouched, StopOwnsSetup
    <3>3. CapturingOwned'
      BY <2>36 DEF StopCloses, StopReturns, ClearSession, SetIdle, StartOwns,
         RecordingOwned, CapturingOwned, Untouched, StopOwnsSetup
    <3>4. Untouched'
      BY <2>36 DEF StopCloses, StopReturns, ClearSession, SetIdle, StartOwns,
         RecordingOwned, CapturingOwned, Untouched, StopOwnsSetup
    <3>5. StopOwnsSetup'
      BY <2>36 DEF StopCloses, StopReturns, ClearSession, SetIdle, StartOwns,
         RecordingOwned, CapturingOwned, Untouched, StopOwnsSetup
    <3>6. QED
      BY <3>1, <3>2, <3>3, <3>4, <3>5
  <2>37. ASSUME NEW t \in Takes, DeadlineWakes(t) PROVE SetupInv'
    BY <2>37 DEF DeadlineWakes, StartOwns, RecordingOwned, CapturingOwned,
       Untouched, StopOwnsSetup
  <2>38. ASSUME NEW t \in Takes, DeadlineStops(t) PROVE SetupInv'
    <3>1. StartOwns'
      BY <2>38 DEF DeadlineStops, StopExchange, LockFree, StartOwns,
         RecordingOwned, CapturingOwned, Untouched, StopOwnsSetup
    <3>2. RecordingOwned'
      BY <2>38 DEF DeadlineStops, StopExchange, LockFree, StartOwns,
         RecordingOwned, CapturingOwned, Untouched, StopOwnsSetup
    <3>3. CapturingOwned'
      BY <2>38 DEF DeadlineStops, StopExchange, LockFree, StartOwns,
         RecordingOwned, CapturingOwned, Untouched, StopOwnsSetup
    <3>4. Untouched'
      BY <2>38 DEF DeadlineStops, StopExchange, LockFree, StartOwns,
         RecordingOwned, CapturingOwned, Untouched, StopOwnsSetup
    <3>5. StopOwnsSetup'
      BY <2>38 DEF DeadlineStops, StopExchange, LockFree, StartOwns,
         RecordingOwned, CapturingOwned, Untouched, StopOwnsSetup
    <3>6. QED
      BY <3>1, <3>2, <3>3, <3>4, <3>5
  <2>39. ASSUME NEW tg \in Targets, SwitchTarget(tg) PROVE SetupInv'
    BY <2>39 DEF SwitchTarget, StartOwns, RecordingOwned, CapturingOwned,
       Untouched, StopOwnsSetup
  <2>40. CASE UNCHANGED vars
    BY <2>40 DEF StartOwns, RecordingOwned, CapturingOwned, Untouched,
       StopOwnsSetup
  <2>41. QED
    BY <2>1, <2>2, <2>3, <2>4, <2>5, <2>6, <2>7, <2>8, <2>9, <2>10, <2>11,
       <2>12, <2>13, <2>14, <2>15, <2>16, <2>17, <2>18, <2>19, <2>20, <2>21,
       <2>22, <2>23, <2>24, <2>24a,
       <2>24b, <2>25, <2>26, <2>27, <2>28, <2>29, <2>30, <2>31,
       <2>32, <2>32a, <2>33, <2>33a, <2>34, <2>35, <2>36, <2>37, <2>38, <2>39, <2>40 DEF Next,
       Start, Task, Stop, Abort
<1>3. QED
  BY <1>1, <1>2, TypeCorrect, PTL DEF Spec

\* Errors: only the failure of a session's own STT task is reported for it.
THEOREM Errors == Spec => []ErrorInv
<1> USE DEF NoTake
<1>1. ASSUME Init PROVE ErrorInv
  BY <1>1 DEF Init, ErrorInv, LatchedFailed, ErrorIsOwn
<1>2. ASSUME TypeOK, StopOwnsSetup, ErrorInv, [Next]_vars PROVE ErrorInv'
  <2> USE <1>2 DEF ErrorInv, TypeOK, HandleOK, WorldOK, StopsOK
  <2>1. CASE StartCall
    BY <2>1 DEF StartCall, LockFree, LatchedFailed, ErrorIsOwn
  <2>2. CASE StartExchange
    BY <2>2 DEF StartExchange, StartClears, LatchedFailed, ErrorIsOwn
  <2>3. CASE StartConfigure
    BY <2>3 DEF StartConfigure, StartGivesUp, SetIdle, LatchedFailed, ErrorIsOwn
  <2>4. CASE StartConnect
    BY <2>4 DEF StartConnect, StartGivesUp, SetIdle, LatchedFailed, ErrorIsOwn
  <2>5. CASE StartCheckBeforeStore
    BY <2>5 DEF StartCheckBeforeStore, StartGivesUp, SetIdle, LatchedFailed,
       ErrorIsOwn
  <2>6. CASE StartStore
    BY <2>6 DEF StartStore, LatchedFailed, ErrorIsOwn
  <2>7. CASE StartCheckAfterStore
    BY <2>7 DEF StartCheckAfterStore, StartGivesUp, SetIdle, DropCapture,
       LatchedFailed, ErrorIsOwn
  <2>8. CASE StartNumber
    BY <2>8 DEF StartNumber, LatchedFailed, ErrorIsOwn
  <2>9. CASE StartArm
    BY <2>9 DEF StartArm, ArmDeadline, MarkStart, LatchedFailed, ErrorIsOwn
  <2>10. CASE StartRecording
    BY <2>10 DEF StartRecording, LatchedFailed, ErrorIsOwn
  <2>11. CASE StartSpawn
    BY <2>11 DEF StartSpawn, LatchedFailed, ErrorIsOwn
  <2>12. CASE StopCall
    BY <2>12 DEF StopCall, StopExchange, LockFree, LatchedFailed, ErrorIsOwn
  <2>13. CASE AbortFlag
    BY <2>13 DEF AbortFlag, LatchedFailed, ErrorIsOwn
  <2>14. CASE AbortRetire
    BY <2>14 DEF AbortRetire, LatchedFailed, ErrorIsOwn
  <2>15. CASE AbortSilence
    BY <2>15 DEF AbortSilence, DropCapture, LatchedFailed, ErrorIsOwn
  <2>16. CASE AbortNotify
    BY <2>16 DEF AbortNotify, LatchedFailed, ErrorIsOwn
  <2>17. CASE AbortIdle
    BY <2>17 DEF AbortIdle, SetIdle, LatchedFailed, ErrorIsOwn
  <2>18. CASE SwitchCheck
    BY <2>18 DEF SwitchCheck, LatchedFailed, ErrorIsOwn
  <2>19. ASSUME NEW t \in Takes, TaskStale(t) PROVE ErrorInv'
    BY <2>19 DEF TaskStale, TaskOver, LatchedFailed, ErrorIsOwn
  <2>20. ASSUME NEW t \in Takes, TaskCancelled(t) PROVE ErrorInv'
    BY <2>20 DEF TaskCancelled, TaskOver, LatchedFailed, ErrorIsOwn
  <2>21. ASSUME NEW t \in Takes, TaskText(t) PROVE ErrorInv'
    BY <2>21 DEF TaskText, TaskGoes, LatchedFailed, ErrorIsOwn
  <2>22. ASSUME NEW t \in Takes, TaskFail(t) PROVE ErrorInv'
    BY <2>22 DEF TaskFail, TaskGoes, TaskOver, LatchedFailed, ErrorIsOwn
  <2>23. ASSUME NEW t \in Takes, TaskDrain(t) PROVE ErrorInv'
    BY <2>23 DEF TaskDrain, TaskGoes, LatchedFailed, ErrorIsOwn
  <2>24. ASSUME NEW t \in Takes, TaskDisconnect(t) PROVE ErrorInv'
    BY <2>24 DEF TaskDisconnect, TaskGoes, TaskOver, LatchedFailed,
       ErrorIsOwn
  <2>24a. ASSUME NEW t \in Takes, TaskAppends(t) PROVE ErrorInv'
    BY <2>24a DEF TaskAppends, TaskGoes, TaskOver, LatchedFailed, ErrorIsOwn
  <2>24b. ASSUME NEW t \in Takes, TaskLatches(t) PROVE ErrorInv'
    BY <2>24b DEF TaskLatches, TaskOver, LatchedFailed, ErrorIsOwn
  <2>25. ASSUME NEW t \in Takes, StopTakeOver(t) PROVE ErrorInv'
    BY <2>25 DEF StopTakeOver, DropCapture, LatchedFailed, ErrorIsOwn
  <2>26. ASSUME NEW t \in Takes, StopStale(t) PROVE ErrorInv'
    BY <2>26 DEF StopStale, Waited, StopReturns, ClearSession, LatchedFailed,
       ErrorIsOwn
  <2>27. ASSUME NEW t \in Takes, StopError(t) PROVE ErrorInv'
    <3>1. ctl[t] = t /\ sttError = t
      BY <2>27 DEF StopError, Waited, OwnError, StopOwnsSetup
    <3>2. QED
      BY <2>27, <3>1 DEF StopError, StopReturns, Takes, LatchedFailed,
         ErrorIsOwn
  <2>28. ASSUME NEW t \in Takes, StopSilent(t) PROVE ErrorInv'
    BY <2>28 DEF StopSilent, Waited, StopReturns, ClearSession, SetIdle,
       LatchedFailed, ErrorIsOwn
  <2>29. ASSUME NEW t \in Takes, StopHears(t) PROVE ErrorInv'
    BY <2>29 DEF StopHears, Waited, LatchedFailed, ErrorIsOwn
  <2>30. ASSUME NEW t \in Takes, StopRoutes(t) PROVE ErrorInv'
    BY <2>30 DEF StopRoutes, StopReturns, ClearSession, Goto, LatchedFailed,
       ErrorIsOwn
  <2>31. ASSUME NEW t \in Takes, StopPolishes(t) PROVE ErrorInv'
    BY <2>31 DEF StopPolishes, Goto, LatchedFailed, ErrorIsOwn
  <2>32. ASSUME NEW t \in Takes, StreamChunk(t) PROVE ErrorInv'
    BY <2>32 DEF StreamChunk, LatchedFailed, ErrorIsOwn
  <2>32a. ASSUME NEW t \in Takes, StreamTyped(t) PROVE ErrorInv'
    BY <2>32a DEF StreamTyped, LatchedFailed, ErrorIsOwn
  <2>33. ASSUME NEW t \in Takes, StopPolished(t) PROVE ErrorInv'
    BY <2>33 DEF StopPolished, Goto, LatchedFailed, ErrorIsOwn
  <2>33a. ASSUME NEW t \in Takes, StopCompletes(t) PROVE ErrorInv'
    BY <2>33a DEF StopCompletes, Goto, LatchedFailed, ErrorIsOwn
  <2>34. ASSUME NEW t \in Takes, StopDelivers(t) PROVE ErrorInv'
    BY <2>34 DEF StopDelivers, Goto, LatchedFailed, ErrorIsOwn
  <2>35. ASSUME NEW t \in Takes, StopSaves(t) PROVE ErrorInv'
    BY <2>35 DEF StopSaves, Goto, LatchedFailed, ErrorIsOwn
  <2>36. ASSUME NEW t \in Takes, StopCloses(t) PROVE ErrorInv'
    BY <2>36 DEF StopCloses, StopReturns, ClearSession, SetIdle, LatchedFailed,
       ErrorIsOwn
  <2>37. ASSUME NEW t \in Takes, DeadlineWakes(t) PROVE ErrorInv'
    BY <2>37 DEF DeadlineWakes, LatchedFailed, ErrorIsOwn
  <2>38. ASSUME NEW t \in Takes, DeadlineStops(t) PROVE ErrorInv'
    BY <2>38 DEF DeadlineStops, StopExchange, LockFree, LatchedFailed,
       ErrorIsOwn
  <2>39. ASSUME NEW tg \in Targets, SwitchTarget(tg) PROVE ErrorInv'
    BY <2>39 DEF SwitchTarget, LatchedFailed, ErrorIsOwn
  <2>40. CASE UNCHANGED vars
    BY <2>40 DEF LatchedFailed, ErrorIsOwn
  <2>41. QED
    BY <2>1, <2>2, <2>3, <2>4, <2>5, <2>6, <2>7, <2>8, <2>9, <2>10, <2>11,
       <2>12, <2>13, <2>14, <2>15, <2>16, <2>17, <2>18, <2>19, <2>20, <2>21,
       <2>22, <2>23, <2>24, <2>24a,
       <2>24b, <2>25, <2>26, <2>27, <2>28, <2>29, <2>30, <2>31,
       <2>32, <2>32a, <2>33, <2>33a, <2>34, <2>35, <2>36, <2>37, <2>38, <2>39, <2>40 DEF Next,
       Start, Task, Stop, Abort
<1>3. QED
  BY <1>1, <1>2, TypeCorrect, Ownership, PTL DEF Spec, SetupInv

\* Targets: a translation target that stop() froze is never changed again.
THEOREM TranslationTargets == Spec => []TargetInv
<1> USE DEF NoTake, NoOp
<1>1. ASSUME Init PROVE TargetInv
  BY <1>1 DEF Init, TargetInv, OperationOwned, AckedTargetIsUsed
<1>2. ASSUME TypeOK, SetupInv, TargetInv, [Next]_vars PROVE TargetInv'
  <2> USE <1>2 DEF TargetInv, TypeOK, HandleOK, CallsOK, StopsOK, WorldOK, Takes,
                   SetupInv, StartOwns, RecordingOwned, Untouched, SettingUp
  <2>1. CASE StartCall
    BY <2>1 DEF StartCall, LockFree, OperationOwned, AckedTargetIsUsed
  <2>2. CASE StartExchange
    BY <2>2 DEF StartExchange, StartClears, OperationOwned, AckedTargetIsUsed
  <2>3. CASE StartConfigure
    BY <2>3 DEF StartConfigure, StartGivesUp, SetIdle, OperationOwned,
       AckedTargetIsUsed
  <2>4. CASE StartConnect
    BY <2>4 DEF StartConnect, StartGivesUp, SetIdle, OperationOwned,
       AckedTargetIsUsed
  <2>5. CASE StartCheckBeforeStore
    BY <2>5 DEF StartCheckBeforeStore, StartGivesUp, SetIdle, OperationOwned,
       AckedTargetIsUsed
  <2>6. CASE StartStore
    BY <2>6 DEF StartStore, OperationOwned, AckedTargetIsUsed
  <2>7. CASE StartCheckAfterStore
    BY <2>7 DEF StartCheckAfterStore, StartGivesUp, SetIdle, DropCapture,
       OperationOwned, AckedTargetIsUsed
  <2>8. CASE StartNumber
    BY <2>8 DEF StartNumber, OperationOwned, AckedTargetIsUsed
  <2>9. CASE StartArm
    <3>1. OperationOwned'
      BY <2>9 DEF StartArm, ArmDeadline, MarkStart, OperationOwned,
         AckedTargetIsUsed
    <3>2. AckedTargetIsUsed'
      BY <2>9 DEF StartArm, ArmDeadline, MarkStart, OperationOwned,
         AckedTargetIsUsed
    <3>3. QED
      BY <3>1, <3>2
  <2>10. CASE StartRecording
    BY <2>10 DEF StartRecording, OperationOwned, AckedTargetIsUsed
  <2>11. CASE StartSpawn
    BY <2>11 DEF StartSpawn, OperationOwned, AckedTargetIsUsed
  <2>12. CASE StopCall
    <3>1. OperationOwned'
      BY <2>12 DEF StopCall, StopExchange, LockFree, OperationOwned,
         AckedTargetIsUsed
    <3>2. AckedTargetIsUsed'
      BY <2>12 DEF StopCall, StopExchange, LockFree, OperationOwned,
         AckedTargetIsUsed
    <3>3. QED
      BY <3>1, <3>2
  <2>13. CASE AbortFlag
    BY <2>13 DEF AbortFlag, OperationOwned, AckedTargetIsUsed
  <2>14. CASE AbortRetire
    BY <2>14 DEF AbortRetire, OperationOwned, AckedTargetIsUsed
  <2>15. CASE AbortSilence
    BY <2>15 DEF AbortSilence, DropCapture, OperationOwned, AckedTargetIsUsed
  <2>16. CASE AbortNotify
    BY <2>16 DEF AbortNotify, OperationOwned, AckedTargetIsUsed
  <2>17. CASE AbortIdle
    BY <2>17 DEF AbortIdle, SetIdle, OperationOwned, AckedTargetIsUsed
  <2>18. CASE SwitchCheck
    BY <2>18 DEF SwitchCheck, OperationOwned, AckedTargetIsUsed
  <2>19. ASSUME NEW t \in Takes, TaskStale(t) PROVE TargetInv'
    BY <2>19 DEF TaskStale, TaskOver, OperationOwned, AckedTargetIsUsed
  <2>20. ASSUME NEW t \in Takes, TaskCancelled(t) PROVE TargetInv'
    BY <2>20 DEF TaskCancelled, TaskOver, OperationOwned, AckedTargetIsUsed
  <2>21. ASSUME NEW t \in Takes, TaskText(t) PROVE TargetInv'
    BY <2>21 DEF TaskText, TaskGoes, OperationOwned, AckedTargetIsUsed
  <2>22. ASSUME NEW t \in Takes, TaskFail(t) PROVE TargetInv'
    BY <2>22 DEF TaskFail, TaskGoes, TaskOver, OperationOwned, AckedTargetIsUsed
  <2>23. ASSUME NEW t \in Takes, TaskDrain(t) PROVE TargetInv'
    BY <2>23 DEF TaskDrain, TaskGoes, OperationOwned, AckedTargetIsUsed
  <2>24. ASSUME NEW t \in Takes, TaskDisconnect(t) PROVE TargetInv'
    BY <2>24 DEF TaskDisconnect, TaskGoes, TaskOver, OperationOwned,
       AckedTargetIsUsed
  <2>24a. ASSUME NEW t \in Takes, TaskAppends(t) PROVE TargetInv'
    BY <2>24a DEF TaskAppends, TaskGoes, TaskOver, OperationOwned,
       AckedTargetIsUsed
  <2>24b. ASSUME NEW t \in Takes, TaskLatches(t) PROVE TargetInv'
    BY <2>24b DEF TaskLatches, TaskOver, OperationOwned,
       AckedTargetIsUsed
  <2>25. ASSUME NEW t \in Takes, StopTakeOver(t) PROVE TargetInv'
    BY <2>25 DEF StopTakeOver, DropCapture, OperationOwned, AckedTargetIsUsed
  <2>26. ASSUME NEW t \in Takes, StopStale(t) PROVE TargetInv'
    BY <2>26 DEF StopStale, Waited, StopReturns, ClearSession, OperationOwned,
       AckedTargetIsUsed
  <2>27. ASSUME NEW t \in Takes, StopError(t) PROVE TargetInv'
    BY <2>27 DEF StopError, Waited, StopReturns, ClearSession, SetIdle,
       OperationOwned, AckedTargetIsUsed
  <2>28. ASSUME NEW t \in Takes, StopSilent(t) PROVE TargetInv'
    BY <2>28 DEF StopSilent, Waited, StopReturns, ClearSession, SetIdle,
       OperationOwned, AckedTargetIsUsed
  <2>29. ASSUME NEW t \in Takes, StopHears(t) PROVE TargetInv'
    BY <2>29 DEF StopHears, Waited, OperationOwned, AckedTargetIsUsed
  <2>30. ASSUME NEW t \in Takes, StopRoutes(t) PROVE TargetInv'
    BY <2>30 DEF StopRoutes, StopReturns, ClearSession, Goto, OperationOwned,
       AckedTargetIsUsed
  <2>31. ASSUME NEW t \in Takes, StopPolishes(t) PROVE TargetInv'
    BY <2>31 DEF StopPolishes, Goto, OperationOwned, AckedTargetIsUsed
  <2>32. ASSUME NEW t \in Takes, StreamChunk(t) PROVE TargetInv'
    BY <2>32 DEF StreamChunk, OperationOwned, AckedTargetIsUsed
  <2>32a. ASSUME NEW t \in Takes, StreamTyped(t) PROVE TargetInv'
    BY <2>32a DEF StreamTyped, OperationOwned,
       AckedTargetIsUsed
  <2>33. ASSUME NEW t \in Takes, StopPolished(t) PROVE TargetInv'
    BY <2>33 DEF StopPolished, Goto, OperationOwned, AckedTargetIsUsed
  <2>33a. ASSUME NEW t \in Takes, StopCompletes(t) PROVE TargetInv'
    BY <2>33a DEF StopCompletes, Goto, OperationOwned,
       AckedTargetIsUsed
  <2>34. ASSUME NEW t \in Takes, StopDelivers(t) PROVE TargetInv'
    BY <2>34 DEF StopDelivers, Goto, OperationOwned, AckedTargetIsUsed
  <2>35. ASSUME NEW t \in Takes, StopSaves(t) PROVE TargetInv'
    BY <2>35 DEF StopSaves, Goto, OperationOwned, AckedTargetIsUsed
  <2>36. ASSUME NEW t \in Takes, StopCloses(t) PROVE TargetInv'
    BY <2>36 DEF StopCloses, StopReturns, ClearSession, SetIdle, OperationOwned,
       AckedTargetIsUsed
  <2>37. ASSUME NEW t \in Takes, DeadlineWakes(t) PROVE TargetInv'
    BY <2>37 DEF DeadlineWakes, OperationOwned, AckedTargetIsUsed
  <2>38. ASSUME NEW t \in Takes, DeadlineStops(t) PROVE TargetInv'
    <3>1. OperationOwned'
      BY <2>38 DEF DeadlineStops, StopExchange, LockFree, OperationOwned,
         AckedTargetIsUsed
    <3>2. AckedTargetIsUsed'
      BY <2>38 DEF DeadlineStops, StopExchange, LockFree, OperationOwned,
         AckedTargetIsUsed
    <3>3. QED
      BY <3>1, <3>2
  <2>39. ASSUME NEW tg \in Targets, SwitchTarget(tg) PROVE TargetInv'
    <3>1. OperationOwned'
      BY <2>39 DEF SwitchTarget, OperationOwned, AckedTargetIsUsed
    <3>2. AckedTargetIsUsed'
      BY <2>39 DEF SwitchTarget, OperationOwned, AckedTargetIsUsed
    <3>3. QED
      BY <3>1, <3>2
  <2>40. CASE UNCHANGED vars
    BY <2>40 DEF OperationOwned, AckedTargetIsUsed
  <2>41. QED
    BY <2>1, <2>2, <2>3, <2>4, <2>5, <2>6, <2>7, <2>8, <2>9, <2>10, <2>11,
       <2>12, <2>13, <2>14, <2>15, <2>16, <2>17, <2>18, <2>19, <2>20, <2>21,
       <2>22, <2>23, <2>24, <2>24a,
       <2>24b, <2>25, <2>26, <2>27, <2>28, <2>29, <2>30, <2>31,
       <2>32, <2>32a, <2>33, <2>33a, <2>34, <2>35, <2>36, <2>37, <2>38, <2>39, <2>40 DEF Next,
       Start, Task, Stop, Abort
<1>3. QED
  BY <1>1, <1>2, TypeCorrect, Ownership, PTL DEF Spec

\* Each stop() works with the control and the configuration of the recording
\* that it ends, in every behaviour.
THEOREM StopsOwnSetups == Spec => []StopOwnsSetup
  BY Ownership, PTL DEF SetupInv

\* No dictation is ended by the error of another session, in every behaviour.
THEOREM ErrorsAreOwn == Spec => []ErrorIsOwn
  BY Errors, PTL DEF ErrorInv

\* The text is translated to the last target that was acknowledged, in every
\* behaviour.
THEOREM AckedTargetsAreUsed == Spec => []AckedTargetIsUsed
  BY TranslationTargets, PTL DEF TargetInv

-----------------------------------------------------------------------------
(* The orderly behaviours *)

\* The steps of start() after its last look at abort_flag.
Late == {"numbering", "arming", "numbered", "recording"}

\* abort_flag speaks for every dictation in flight: all of them are cancelled,
\* or none is.
FlagSpeaks ==
  /\ ~raced
  /\ abortPc # "none" => abortFlag
  /\ startPc \in Late => ~abortFlag
  /\ state = "Recording" => (takes \in cancelled <=> abortFlag)
  /\ state = "Recording" /\ abortFlag => abortPc # "none"
  /\ cancelled \subseteq 1..takes
  /\ startPc \in SettingUp /\ takes \in cancelled => abortFlag
  /\ \A t \in Takes : StopInFlight(t) => (t \in cancelled <=> abortFlag)

\* One stop() is in flight, and another dictation is begun meanwhile only if
\* that one is cancelled.
OneInFlight ==
  /\ \A t, u \in Takes : StopInFlight(t) /\ StopInFlight(u) => t = u
  /\ \A t \in Takes : StopInFlight(t) =>
       /\ state # "Recording"
       /\ state = "Idle" \/ startPc \in SettingUp \/ t # takes => abortFlag
  /\ startPc = "recording" => state = "Recording"

\* The microphone is the latest take's, and abort() finds its handle.
MicOwned ==
  /\ \A t \in Takes : mic[t] =>
       /\ t = takes
       /\ \/ startPc \in SettingUp \ {"setup"}
          \/ audioHandle = t /\ (state = "Recording" \/ stop[t] = "capturing")
  /\ startPc \in {"stored"} \cup Late => (mic[takes] => audioHandle = takes)
  /\ abortPc \in {"silenced", "notified"} /\ startPc \notin SettingUp => \A t \in Takes : ~mic[t]

\* What start() gives to a recording is still there while nobody aborts.
RecordingIsSetUp ==
  /\ audioHandle <= takes
  /\ startPc \in {"setup", "connecting", "ready", "storing"} => audioHandle # takes
  /\ startPc \in {"connecting", "ready", "storing"} => mic[takes]
  /\ ~abortFlag /\ (startPc \in {"stored"} \cup Late \/ state = "Recording") =>
       audioHandle = takes /\ mic[takes]
  /\ ~abortFlag /\ (startPc \in {"numbered", "recording"} \/ state = "Recording") =>
       activeDeadlineId = sid[takes]
  /\ startPc \in {"numbered", "recording"} \/ state = "Recording" => recordingStart = takes
  /\ ~abortFlag /\ state = "Recording" /\ startPc # "recording" =>
       deadline[takes] \in {"armed", "reached"}

\* The session of a dictation that is not cancelled is the active one.
SessionStands ==
  /\ startPc \in Late \ {"numbering"} => activeSttId = sid[takes]
  /\ ~abortFlag /\ state = "Recording" => activeSttId = sid[takes]
  /\ ~abortFlag => \A t \in Takes : StopInFlight(t) => activeSttId = sid[t]

\* The steps of stop() that end with set_state(Idle).
Closing == {"polishing", "completing", "executing", "saving", "closing"}

\* A state that is not Idle has an owner; after an abort, one that will set it.
BusyOwned ==
  state # "Idle" =>
    \/ startPc \in SettingUp
    \/ state = "Recording"
    \/ abortPc # "none"
    \/ \E t \in Takes : StopInFlight(t) /\ (abortFlag => stop[t] \in Closing)

\* The start instant is the one of the stop() that is in flight.
InstantOwned ==
  /\ \A t \in Takes : StopInFlight(t) /\ stop[t] # "closing" => recordingStart = t
  /\ \A e \in history : e.started = e.take

OrderInv == FlagSpeaks /\ OneInFlight
SetUpInv == MicOwned /\ RecordingIsSetUp /\ SessionStands /\ BusyOwned /\ InstantOwned

USE PipelineAssumption
USE DEF vars, ids, text, shared, capture, tasks, stops, calls, world, ghost,
        waitUnchanged, polishUnchanged, deadlineUnchanged, taskUnchanged

Typed ==
  /\ takes \in 0..MaxTakes /\ audioHandle \in Takes \cup {NoTake}
  /\ stop \in [Takes -> StopPc] /\ mic \in [Takes -> BOOLEAN]
  /\ sid \in [Takes -> Nat] /\ deadline \in [Takes -> {"none", "armed", "reached", "over"}]
-----------------------------------------------------------------------------
LEMMA OrderInit == Init => OrderInv
  BY DEF Init, OrderInv, FlagSpeaks, OneInFlight, StopInFlight, SettingUp, Late, NoTake, Takes

LEMMA OrderStep ==
  ASSUME TypeOK, SetupInv, OrderInv, Next /\ ~raced'
  PROVE  OrderInv'
<1> USE DEF OrderInv, FlagSpeaks, OneInFlight, StopInFlight, SettingUp, Late, Takes, NoTake
<1>0. Typed
  BY DEF TypeOK, HandleOK, CallsOK, StopsOK, TasksOK, Typed
<1> USE <1>0 DEF Typed
<1>1. CASE StartCall
  BY <1>1 DEF StartCall, LockFree
<1>2. CASE StartExchange
  BY <1>2 DEF StartExchange, StartClears, SetupInv, Untouched
<1>3. CASE StartConfigure
  BY <1>3 DEF StartConfigure, StartGivesUp, SetIdle
<1>4. CASE StartConnect
  BY <1>4 DEF StartConnect, StartGivesUp, SetIdle
<1>5. CASE StartCheckBeforeStore
  BY <1>5 DEF StartCheckBeforeStore, StartGivesUp, SetIdle
<1>6. CASE StartStore
  BY <1>6 DEF StartStore
<1>7. CASE StartCheckAfterStore
  BY <1>7 DEF StartCheckAfterStore, StartGivesUp, SetIdle
<1>8. CASE StartNumber
  BY <1>8 DEF StartNumber
<1>9. CASE StartArm
  BY <1>9 DEF StartArm
<1>10. CASE StartRecording
  BY <1>10 DEF StartRecording
<1>11. CASE StartSpawn
  BY <1>11 DEF StartSpawn
<1>12. CASE StopExchange
  BY <1>12 DEF StopExchange, LockFree, StopPc
<1>13. ASSUME NEW t \in Takes, Task(t) PROVE OrderInv'
  <2>1. UNCHANGED <<state, startPc, abortFlag, abortPc, stop, takes, cancelled, raced>>
    BY <1>13 DEF Task, TaskStale, TaskCancelled, TaskText, TaskFail, TaskDrain, TaskDisconnect, TaskAppends, TaskLatches
  <2>2. QED
    BY <2>1
<1>14. ASSUME NEW t \in Takes, StopTakeOver(t) PROVE OrderInv'
  BY <1>14 DEF StopTakeOver
<1>15. ASSUME NEW t \in Takes, StopStale(t) \/ StopError(t) \/ StopSilent(t) PROVE OrderInv'
  BY <1>15 DEF StopStale, StopError, StopSilent, Waited, StopReturns, SetIdle
<1>16. ASSUME NEW t \in Takes, StopHears(t) PROVE OrderInv'
  BY <1>16 DEF StopHears, Waited
<1>17. ASSUME NEW t \in Takes, StopRoutes(t) PROVE OrderInv'
  BY <1>17 DEF StopRoutes, StopReturns, Goto
<1>18. ASSUME NEW t \in Takes, StopPolishes(t) PROVE OrderInv'
  BY <1>18 DEF StopPolishes, Goto
<1>19. ASSUME NEW t \in Takes, StreamChunk(t) PROVE OrderInv'
  BY <1>19 DEF StreamChunk
<1>19a. ASSUME NEW t \in Takes, StreamTyped(t) PROVE OrderInv'
  BY <1>19a DEF StreamTyped
<1>20. ASSUME NEW t \in Takes, StopPolished(t) PROVE OrderInv'
  BY <1>20 DEF StopPolished, Goto
<1>20a. ASSUME NEW t \in Takes, StopCompletes(t) PROVE OrderInv'
  BY <1>20a DEF StopCompletes, Goto
<1>21. ASSUME NEW t \in Takes, StopDelivers(t) PROVE OrderInv'
  BY <1>21 DEF StopDelivers, Goto
<1>22. ASSUME NEW t \in Takes, StopSaves(t) PROVE OrderInv'
  BY <1>22 DEF StopSaves, Goto
<1>23. ASSUME NEW t \in Takes, StopCloses(t) PROVE OrderInv'
  BY <1>23 DEF StopCloses, StopReturns, SetIdle
<1>24. ASSUME NEW t \in Takes, DeadlineWakes(t) PROVE OrderInv'
  BY <1>24 DEF DeadlineWakes
<1>25. ASSUME NEW t \in Takes, DeadlineStops(t) PROVE OrderInv'
  <2>1. CASE StopExchange
    BY <1>12, <2>1
  <2>2. CASE UNCHANGED <<state, startPc, abortFlag, abortPc, stop, takes, cancelled, raced>>
    BY <2>2
  <2>3. QED
    BY <1>25, <2>1, <2>2 DEF DeadlineStops
<1>26. CASE AbortFlag
  <2>1. /\ abortFlag' /\ abortPc' # "none" /\ startPc' \notin Late
        /\ UNCHANGED <<state, startPc, stop, takes>>
        /\ cancelled' = cancelled \cup {t \in Takes : InFlight(t)} /\ ~raced'
    BY <1>26 DEF AbortFlag
  <2>2. \A t \in Takes : InFlight(t) => t \in 1..takes
    BY DEF InFlight, SetupInv, Untouched
  <2>3. state = "Recording" => takes \in cancelled'
    BY <2>1 DEF InFlight, SetupInv, RecordingOwned
  <2>4. \A t \in Takes : StopInFlight(t) => t \in cancelled'
    BY <2>1 DEF InFlight
  <2>5. QED
    BY <2>1, <2>2, <2>3, <2>4
<1>27. CASE AbortRetire \/ AbortSilence \/ AbortNotify
  BY <1>27 DEF AbortRetire, AbortSilence, AbortNotify
<1>28. CASE AbortIdle
  BY <1>28 DEF AbortIdle, SetIdle
<1>29. CASE SwitchCheck
  BY <1>29 DEF SwitchCheck
<1>30. ASSUME NEW tg \in Targets, SwitchTarget(tg) PROVE OrderInv'
  BY <1>30 DEF SwitchTarget
<1>31. QED
  BY <1>1, <1>2, <1>3, <1>4, <1>5, <1>6, <1>7, <1>8, <1>9, <1>10, <1>11, <1>12, <1>13, <1>14,
     <1>15, <1>16, <1>17, <1>18, <1>19, <1>19a, <1>20, <1>20a, <1>21, <1>22, <1>23, <1>24, <1>25, <1>26, <1>27,
     <1>28, <1>29, <1>30 DEF Next, Start, StopCall, Stop, Abort
-----------------------------------------------------------------------------
LEMMA MicStep ==
  ASSUME TypeOK, SetupInv, OrderInv, MicOwned, Next /\ ~raced'
  PROVE  MicOwned'
<1> USE DEF MicOwned, OrderInv, FlagSpeaks, OneInFlight, SetupInv, RecordingOwned, CapturingOwned, StopInFlight, SettingUp, Late, Takes, NoTake
<1>0. Typed
  BY DEF TypeOK, CallsOK, StopsOK, TasksOK, HandleOK, Typed
<1> USE <1>0 DEF Typed
<1>1. CASE StartCall
  BY <1>1 DEF StartCall, LockFree
<1>2. CASE StartExchange
  BY <1>2 DEF StartExchange, StartClears
<1>3. CASE StartConfigure
  BY <1>3 DEF StartConfigure, StartGivesUp, SetIdle
<1>4. CASE StartConnect
  BY <1>4 DEF StartConnect, StartGivesUp, SetIdle
<1>5. CASE StartCheckBeforeStore
  BY <1>5 DEF StartCheckBeforeStore, StartGivesUp, SetIdle
<1>6. CASE StartStore
  BY <1>6 DEF StartStore
<1>7. CASE StartCheckAfterStore
  <2>1. CASE abortFlag
    <3>1. \A t \in Takes : ~mic'[t]
      BY <1>7, <2>1 DEF StartCheckAfterStore, DropCapture
    <3>2. startPc' = "none"
      BY <1>7, <2>1 DEF StartCheckAfterStore, StartGivesUp
    <3>3. QED
      BY <3>1, <3>2
  <2>2. CASE ~abortFlag
    BY <1>7, <2>2 DEF StartCheckAfterStore
  <2>3. QED
    BY <2>1, <2>2
<1>8. CASE StartNumber
  BY <1>8 DEF StartNumber
<1>9. CASE StartArm
  BY <1>9 DEF StartArm, ArmDeadline, MarkStart
<1>10. CASE StartRecording
  BY <1>10 DEF StartRecording
<1>11. CASE StartSpawn
  BY <1>11 DEF StartSpawn
<1>12. CASE StopExchange
  BY <1>12 DEF StopExchange, LockFree
<1>13. ASSUME NEW t \in Takes, Task(t) PROVE MicOwned'
  BY <1>13 DEF Task, TaskStale, TaskCancelled, TaskText, TaskFail, TaskDrain, TaskDisconnect, TaskAppends, TaskLatches
<1>14. ASSUME NEW t \in Takes, StopTakeOver(t) PROVE MicOwned'
  BY <1>14 DEF StopTakeOver, DropCapture
<1>15. ASSUME NEW t \in Takes, StopStale(t) PROVE MicOwned'
  BY <1>15 DEF StopStale, Waited, StopReturns, Valid, ShouldFinalize
<1>16. ASSUME NEW t \in Takes, StopError(t) \/ StopSilent(t) PROVE MicOwned'
  BY <1>16 DEF StopError, StopSilent, Waited, StopReturns, SetIdle
<1>17. ASSUME NEW t \in Takes, StopHears(t) PROVE MicOwned'
  BY <1>17 DEF StopHears, Waited
<1>18. ASSUME NEW t \in Takes, StopRoutes(t) PROVE MicOwned'
  BY <1>18 DEF StopRoutes, StopReturns, Goto
<1>19. ASSUME NEW t \in Takes, StopPolishes(t) PROVE MicOwned'
  BY <1>19 DEF StopPolishes, Goto
<1>20. ASSUME NEW t \in Takes, StreamChunk(t) PROVE MicOwned'
  BY <1>20 DEF StreamChunk
<1>20a. ASSUME NEW t \in Takes, StreamTyped(t) PROVE MicOwned'
  BY <1>20a DEF StreamTyped
<1>21. ASSUME NEW t \in Takes, StopPolished(t) PROVE MicOwned'
  BY <1>21 DEF StopPolished, Goto
<1>21a. ASSUME NEW t \in Takes, StopCompletes(t) PROVE MicOwned'
  BY <1>21a DEF StopCompletes, Goto
<1>22. ASSUME NEW t \in Takes, StopDelivers(t) PROVE MicOwned'
  BY <1>22 DEF StopDelivers, Goto
<1>23. ASSUME NEW t \in Takes, StopSaves(t) PROVE MicOwned'
  BY <1>23 DEF StopSaves, Goto
<1>24. ASSUME NEW t \in Takes, StopCloses(t) PROVE MicOwned'
  BY <1>24 DEF StopCloses, StopReturns, SetIdle
<1>25. ASSUME NEW t \in Takes, DeadlineWakes(t) PROVE MicOwned'
  BY <1>25 DEF DeadlineWakes
<1>26. ASSUME NEW t \in Takes, DeadlineStops(t) PROVE MicOwned'
  BY <1>12, <1>26 DEF DeadlineStops
<1>27. CASE AbortFlag
  BY <1>27 DEF AbortFlag, InFlight
<1>28. CASE AbortRetire
  BY <1>28 DEF AbortRetire
<1>29. CASE AbortSilence
  BY <1>29 DEF AbortSilence, DropCapture
<1>30. CASE AbortNotify
  BY <1>30 DEF AbortNotify
<1>31. CASE AbortIdle
  BY <1>31 DEF AbortIdle, SetIdle
<1>32. CASE SwitchCheck
  BY <1>32 DEF SwitchCheck
<1>33. ASSUME NEW tg \in Targets, SwitchTarget(tg) PROVE MicOwned'
  BY <1>33 DEF SwitchTarget
<1>34. QED
  BY <1>1, <1>2, <1>3, <1>4, <1>5, <1>6, <1>7, <1>8, <1>9, <1>10, <1>11, <1>12, <1>13, <1>14, <1>15, <1>16, <1>17, <1>18, <1>19, <1>20, <1>20a, <1>21, <1>21a, <1>22, <1>23, <1>24, <1>25, <1>26, <1>27, <1>28, <1>29, <1>30, <1>31, <1>32, <1>33 DEF Next, Start, StopCall, Stop, Abort
-----------------------------------------------------------------------------
LEMMA SetUpStep ==
  ASSUME TypeOK, SetupInv, OrderInv, RecordingIsSetUp, Next /\ ~raced'
  PROVE  RecordingIsSetUp'
<1> USE DEF RecordingIsSetUp, OrderInv, FlagSpeaks, OneInFlight, SetupInv, RecordingOwned, StopInFlight, SettingUp, Late, Takes, NoTake
<1>0. Typed
  BY DEF TypeOK, CallsOK, StopsOK, TasksOK, HandleOK, Typed
<1> USE <1>0 DEF Typed
<1>1. CASE StartCall
  BY <1>1 DEF StartCall, LockFree
<1>2. CASE StartExchange
  BY <1>2 DEF StartExchange, StartClears
<1>3. CASE StartConfigure
  BY <1>3 DEF StartConfigure, StartGivesUp, SetIdle
<1>4. CASE StartConnect
  BY <1>4 DEF StartConnect, StartGivesUp, SetIdle
<1>5. CASE StartCheckBeforeStore
  BY <1>5 DEF StartCheckBeforeStore, StartGivesUp, SetIdle
<1>6. CASE StartStore
  BY <1>6 DEF StartStore
<1>7. CASE StartCheckAfterStore
  BY <1>7 DEF StartCheckAfterStore, StartGivesUp, SetIdle, DropCapture
<1>8. CASE StartNumber
  BY <1>8 DEF StartNumber
<1>9. CASE StartArm
  BY <1>9 DEF StartArm, ArmDeadline, MarkStart
<1>10. CASE StartRecording
  BY <1>10 DEF StartRecording
<1>11. CASE StartSpawn
  BY <1>11 DEF StartSpawn
<1>12. CASE StopExchange
  BY <1>12 DEF StopExchange, LockFree
<1>13. ASSUME NEW t \in Takes, Task(t) PROVE RecordingIsSetUp'
  BY <1>13 DEF Task, TaskStale, TaskCancelled, TaskText, TaskFail, TaskDrain, TaskDisconnect, TaskAppends, TaskLatches
<1>14. ASSUME NEW t \in Takes, StopTakeOver(t) PROVE RecordingIsSetUp'
  BY <1>14 DEF StopTakeOver, DropCapture, CapturingOwned
<1>15. ASSUME NEW t \in Takes, StopStale(t) PROVE RecordingIsSetUp'
  BY <1>15 DEF StopStale, Waited, StopReturns, Valid, ShouldFinalize
<1>16. ASSUME NEW t \in Takes, StopError(t) \/ StopSilent(t) PROVE RecordingIsSetUp'
  BY <1>16 DEF StopError, StopSilent, Waited, StopReturns, SetIdle
<1>17. ASSUME NEW t \in Takes, StopHears(t) PROVE RecordingIsSetUp'
  BY <1>17 DEF StopHears, Waited
<1>18. ASSUME NEW t \in Takes, StopRoutes(t) PROVE RecordingIsSetUp'
  BY <1>18 DEF StopRoutes, StopReturns, Goto
<1>19. ASSUME NEW t \in Takes, StopPolishes(t) PROVE RecordingIsSetUp'
  BY <1>19 DEF StopPolishes, Goto
<1>20. ASSUME NEW t \in Takes, StreamChunk(t) PROVE RecordingIsSetUp'
  BY <1>20 DEF StreamChunk
<1>20a. ASSUME NEW t \in Takes, StreamTyped(t) PROVE RecordingIsSetUp'
  BY <1>20a DEF StreamTyped
<1>21. ASSUME NEW t \in Takes, StopPolished(t) PROVE RecordingIsSetUp'
  BY <1>21 DEF StopPolished, Goto
<1>21a. ASSUME NEW t \in Takes, StopCompletes(t) PROVE RecordingIsSetUp'
  BY <1>21a DEF StopCompletes, Goto
<1>22. ASSUME NEW t \in Takes, StopDelivers(t) PROVE RecordingIsSetUp'
  BY <1>22 DEF StopDelivers, Goto
<1>23. ASSUME NEW t \in Takes, StopSaves(t) PROVE RecordingIsSetUp'
  BY <1>23 DEF StopSaves, Goto
<1>24. ASSUME NEW t \in Takes, StopCloses(t) PROVE RecordingIsSetUp'
  BY <1>24 DEF StopCloses, StopReturns, SetIdle
<1>25. ASSUME NEW t \in Takes, DeadlineWakes(t) PROVE RecordingIsSetUp'
  BY <1>25 DEF DeadlineWakes
<1>26. ASSUME NEW t \in Takes, DeadlineStops(t) PROVE RecordingIsSetUp'
  BY <1>12, <1>26 DEF DeadlineStops
<1>27. CASE AbortFlag
  BY <1>27 DEF AbortFlag, InFlight
<1>28. CASE AbortRetire
  BY <1>28 DEF AbortRetire
<1>29. CASE AbortSilence
  BY <1>29 DEF AbortSilence, DropCapture
<1>30. CASE AbortNotify
  BY <1>30 DEF AbortNotify
<1>31. CASE AbortIdle
  BY <1>31 DEF AbortIdle, SetIdle
<1>32. CASE SwitchCheck
  BY <1>32 DEF SwitchCheck
<1>33. ASSUME NEW tg \in Targets, SwitchTarget(tg) PROVE RecordingIsSetUp'
  BY <1>33 DEF SwitchTarget
<1>34. QED
  BY <1>1, <1>2, <1>3, <1>4, <1>5, <1>6, <1>7, <1>8, <1>9, <1>10, <1>11, <1>12, <1>13, <1>14, <1>15, <1>16, <1>17, <1>18, <1>19, <1>20, <1>20a, <1>21, <1>21a, <1>22, <1>23, <1>24, <1>25, <1>26, <1>27, <1>28, <1>29, <1>30, <1>31, <1>32, <1>33 DEF Next, Start, StopCall, Stop, Abort
-----------------------------------------------------------------------------
LEMMA SessionStep ==
  ASSUME TypeOK, SetupInv, OrderInv, SessionStands, Next /\ ~raced'
  PROVE  SessionStands'
<1> USE DEF SessionStands, OrderInv, FlagSpeaks, OneInFlight, SetupInv, RecordingOwned, StopInFlight, SettingUp, Late, Takes, NoTake
<1>0. Typed
  BY DEF TypeOK, CallsOK, StopsOK, TasksOK, HandleOK, Typed
<1> USE <1>0 DEF Typed
<1>1. CASE StartCall
  BY <1>1 DEF StartCall, LockFree
<1>2. CASE StartExchange
  BY <1>2 DEF StartExchange, StartClears
<1>3. CASE StartConfigure
  BY <1>3 DEF StartConfigure, StartGivesUp, SetIdle
<1>4. CASE StartConnect
  BY <1>4 DEF StartConnect, StartGivesUp, SetIdle
<1>5. CASE StartCheckBeforeStore
  BY <1>5 DEF StartCheckBeforeStore, StartGivesUp, SetIdle
<1>6. CASE StartStore
  BY <1>6 DEF StartStore
<1>7. CASE StartCheckAfterStore
  BY <1>7 DEF StartCheckAfterStore, StartGivesUp, SetIdle, DropCapture
<1>8. CASE StartNumber
  BY <1>8 DEF StartNumber, StartOwns
<1>9. CASE StartArm
  BY <1>9 DEF StartArm, ArmDeadline, MarkStart
<1>10. CASE StartRecording
  BY <1>10 DEF StartRecording
<1>11. CASE StartSpawn
  BY <1>11 DEF StartSpawn
<1>12. CASE StopExchange
  BY <1>12 DEF StopExchange, LockFree
<1>13. ASSUME NEW t \in Takes, Task(t) PROVE SessionStands'
  BY <1>13 DEF Task, TaskStale, TaskCancelled, TaskText, TaskFail, TaskDrain, TaskDisconnect, TaskAppends, TaskLatches
<1>14. ASSUME NEW t \in Takes, StopTakeOver(t) PROVE SessionStands'
  BY <1>14 DEF StopTakeOver, DropCapture
<1>15. ASSUME NEW t \in Takes, StopStale(t) PROVE SessionStands'
  BY <1>15 DEF StopStale, Waited, StopReturns, Valid, ShouldFinalize
<1>16. ASSUME NEW t \in Takes, StopError(t) \/ StopSilent(t) PROVE SessionStands'
  BY <1>16 DEF StopError, StopSilent, Waited, StopReturns, SetIdle
<1>17. ASSUME NEW t \in Takes, StopHears(t) PROVE SessionStands'
  BY <1>17 DEF StopHears, Waited
<1>18. ASSUME NEW t \in Takes, StopRoutes(t) PROVE SessionStands'
  BY <1>18 DEF StopRoutes, StopReturns, Goto
<1>19. ASSUME NEW t \in Takes, StopPolishes(t) PROVE SessionStands'
  BY <1>19 DEF StopPolishes, Goto
<1>20. ASSUME NEW t \in Takes, StreamChunk(t) PROVE SessionStands'
  BY <1>20 DEF StreamChunk
<1>20a. ASSUME NEW t \in Takes, StreamTyped(t) PROVE SessionStands'
  BY <1>20a DEF StreamTyped
<1>21. ASSUME NEW t \in Takes, StopPolished(t) PROVE SessionStands'
  BY <1>21 DEF StopPolished, Goto
<1>21a. ASSUME NEW t \in Takes, StopCompletes(t) PROVE SessionStands'
  BY <1>21a DEF StopCompletes, Goto
<1>22. ASSUME NEW t \in Takes, StopDelivers(t) PROVE SessionStands'
  BY <1>22 DEF StopDelivers, Goto
<1>23. ASSUME NEW t \in Takes, StopSaves(t) PROVE SessionStands'
  BY <1>23 DEF StopSaves, Goto
<1>24. ASSUME NEW t \in Takes, StopCloses(t) PROVE SessionStands'
  BY <1>24 DEF StopCloses, StopReturns, SetIdle
<1>25. ASSUME NEW t \in Takes, DeadlineWakes(t) PROVE SessionStands'
  BY <1>25 DEF DeadlineWakes
<1>26. ASSUME NEW t \in Takes, DeadlineStops(t) PROVE SessionStands'
  BY <1>12, <1>26 DEF DeadlineStops
<1>27. CASE AbortFlag
  BY <1>27 DEF AbortFlag, InFlight
<1>28. CASE AbortRetire
  BY <1>28 DEF AbortRetire
<1>29. CASE AbortSilence
  BY <1>29 DEF AbortSilence, DropCapture
<1>30. CASE AbortNotify
  BY <1>30 DEF AbortNotify
<1>31. CASE AbortIdle
  BY <1>31 DEF AbortIdle, SetIdle
<1>32. CASE SwitchCheck
  BY <1>32 DEF SwitchCheck
<1>33. ASSUME NEW tg \in Targets, SwitchTarget(tg) PROVE SessionStands'
  BY <1>33 DEF SwitchTarget
<1>34. QED
  BY <1>1, <1>2, <1>3, <1>4, <1>5, <1>6, <1>7, <1>8, <1>9, <1>10, <1>11, <1>12, <1>13, <1>14, <1>15, <1>16, <1>17, <1>18, <1>19, <1>20, <1>20a, <1>21, <1>21a, <1>22, <1>23, <1>24, <1>25, <1>26, <1>27, <1>28, <1>29, <1>30, <1>31, <1>32, <1>33 DEF Next, Start, StopCall, Stop, Abort
-----------------------------------------------------------------------------
LEMMA BusyStep ==
  ASSUME TypeOK, SetupInv, OrderInv, SessionStands, BusyOwned, Next /\ ~raced'
  PROVE  BusyOwned'
<1> USE DEF BusyOwned, Closing, SessionStands, OrderInv, FlagSpeaks, OneInFlight, SetupInv, StopOwnsSetup, StopInFlight, SettingUp, Late, Takes, NoTake
<1>0. Typed
  BY DEF TypeOK, CallsOK, StopsOK, TasksOK, HandleOK, Typed
<1> USE <1>0 DEF Typed
<1>1. CASE StartCall
  BY <1>1 DEF StartCall, LockFree
<1>2. CASE StartExchange
  BY <1>2 DEF StartExchange, StartClears
<1>3. CASE StartConfigure
  BY <1>3 DEF StartConfigure, StartGivesUp, SetIdle
<1>4. CASE StartConnect
  BY <1>4 DEF StartConnect, StartGivesUp, SetIdle
<1>5. CASE StartCheckBeforeStore
  BY <1>5 DEF StartCheckBeforeStore, StartGivesUp, SetIdle
<1>6. CASE StartStore
  BY <1>6 DEF StartStore
<1>7. CASE StartCheckAfterStore
  BY <1>7 DEF StartCheckAfterStore, StartGivesUp, SetIdle, DropCapture
<1>8. CASE StartNumber
  BY <1>8 DEF StartNumber
<1>9. CASE StartArm
  BY <1>9 DEF StartArm, ArmDeadline, MarkStart
<1>10. CASE StartRecording
  BY <1>10 DEF StartRecording
<1>11. CASE StartSpawn
  BY <1>11 DEF StartSpawn
<1>12. CASE StopExchange
  <2>1. takes \in Takes /\ stop'[takes] = "capturing" /\ (abortFlag' => abortPc' # "none")
    BY <1>12 DEF StopExchange, RecordingOwned
  <2>2. QED
    BY <2>1
<1>13. ASSUME NEW t \in Takes, Task(t) PROVE BusyOwned'
  <2>1. UNCHANGED <<state, startPc, abortPc, abortFlag, stop>>
    BY <1>13 DEF Task, TaskStale, TaskCancelled, TaskText, TaskFail, TaskDrain, TaskDisconnect, TaskAppends, TaskLatches
  <2>2. QED
    BY <2>1
<1>14. ASSUME NEW t \in Takes, StopTakeOver(t) PROVE BusyOwned'
  BY <1>14 DEF StopTakeOver, DropCapture
<1>15. ASSUME NEW t \in Takes, StopStale(t) PROVE BusyOwned'
  BY <1>15 DEF StopStale, Waited, StopReturns, Valid, ShouldFinalize
<1>16. ASSUME NEW t \in Takes, StopError(t) \/ StopSilent(t) PROVE BusyOwned'
  BY <1>16 DEF StopError, StopSilent, Waited, StopReturns, SetIdle
<1>17. ASSUME NEW t \in Takes, StopHears(t) PROVE BusyOwned'
  BY <1>17 DEF StopHears, Waited
<1>18. ASSUME NEW t \in Takes, StopRoutes(t) PROVE BusyOwned'
  BY <1>18 DEF StopRoutes, StopReturns, Goto
<1>19. ASSUME NEW t \in Takes, StopPolishes(t) PROVE BusyOwned'
  BY <1>19 DEF StopPolishes, Goto
<1>20. ASSUME NEW t \in Takes, StreamChunk(t) PROVE BusyOwned'
  BY <1>20 DEF StreamChunk
<1>20a. ASSUME NEW t \in Takes, StreamTyped(t) PROVE BusyOwned'
  BY <1>20a DEF StreamTyped
<1>21. ASSUME NEW t \in Takes, StopPolished(t) PROVE BusyOwned'
  BY <1>21 DEF StopPolished, Goto
<1>21a. ASSUME NEW t \in Takes, StopCompletes(t) PROVE BusyOwned'
  BY <1>21a DEF StopCompletes, Goto
<1>22. ASSUME NEW t \in Takes, StopDelivers(t) PROVE BusyOwned'
  BY <1>22 DEF StopDelivers, Goto
<1>23. ASSUME NEW t \in Takes, StopSaves(t) PROVE BusyOwned'
  BY <1>23 DEF StopSaves, Goto
<1>24. ASSUME NEW t \in Takes, StopCloses(t) PROVE BusyOwned'
  BY <1>24 DEF StopCloses, StopReturns, SetIdle
<1>25. ASSUME NEW t \in Takes, DeadlineWakes(t) PROVE BusyOwned'
  BY <1>25 DEF DeadlineWakes
<1>26. ASSUME NEW t \in Takes, DeadlineStops(t) PROVE BusyOwned'
  BY <1>12, <1>26 DEF DeadlineStops
<1>27. CASE AbortFlag
  BY <1>27 DEF AbortFlag, InFlight
<1>28. CASE AbortRetire
  BY <1>28 DEF AbortRetire
<1>29. CASE AbortSilence
  BY <1>29 DEF AbortSilence, DropCapture
<1>30. CASE AbortNotify
  BY <1>30 DEF AbortNotify
<1>31. CASE AbortIdle
  BY <1>31 DEF AbortIdle, SetIdle
<1>32. CASE SwitchCheck
  BY <1>32 DEF SwitchCheck
<1>33. ASSUME NEW tg \in Targets, SwitchTarget(tg) PROVE BusyOwned'
  BY <1>33 DEF SwitchTarget
<1>34. QED
  BY <1>1, <1>2, <1>3, <1>4, <1>5, <1>6, <1>7, <1>8, <1>9, <1>10, <1>11, <1>12, <1>13, <1>14, <1>15, <1>16, <1>17, <1>18, <1>19, <1>20, <1>20a, <1>21, <1>21a, <1>22, <1>23, <1>24, <1>25, <1>26, <1>27, <1>28, <1>29, <1>30, <1>31, <1>32, <1>33 DEF Next, Start, StopCall, Stop, Abort
-----------------------------------------------------------------------------
LEMMA InstantStep ==
  ASSUME TypeOK, SetupInv, OrderInv, RecordingIsSetUp, InstantOwned, Next /\ ~raced'
  PROVE  InstantOwned'
<1> USE DEF InstantOwned, RecordingIsSetUp, OrderInv, FlagSpeaks, OneInFlight, SetupInv, StopInFlight, SettingUp, Late, Takes, NoTake
<1>0. Typed
  BY DEF TypeOK, CallsOK, StopsOK, TasksOK, HandleOK, Typed
<1> USE <1>0 DEF Typed
<1>1. CASE StartCall
  BY <1>1 DEF StartCall, LockFree
<1>2. CASE StartExchange
  BY <1>2 DEF StartExchange, StartClears
<1>3. CASE StartConfigure
  BY <1>3 DEF StartConfigure, StartGivesUp, SetIdle
<1>4. CASE StartConnect
  BY <1>4 DEF StartConnect, StartGivesUp, SetIdle
<1>5. CASE StartCheckBeforeStore
  BY <1>5 DEF StartCheckBeforeStore, StartGivesUp, SetIdle
<1>6. CASE StartStore
  BY <1>6 DEF StartStore
<1>7. CASE StartCheckAfterStore
  BY <1>7 DEF StartCheckAfterStore, StartGivesUp, SetIdle, DropCapture
<1>8. CASE StartNumber
  BY <1>8 DEF StartNumber
<1>9. CASE StartArm
  BY <1>9 DEF StartArm, ArmDeadline, MarkStart
<1>10. CASE StartRecording
  BY <1>10 DEF StartRecording
<1>11. CASE StartSpawn
  BY <1>11 DEF StartSpawn
<1>12. CASE StopExchange
  BY <1>12 DEF StopExchange, LockFree
<1>13. ASSUME NEW t \in Takes, Task(t) PROVE InstantOwned'
  BY <1>13 DEF Task, TaskStale, TaskCancelled, TaskText, TaskFail, TaskDrain, TaskDisconnect, TaskAppends, TaskLatches
<1>14. ASSUME NEW t \in Takes, StopTakeOver(t) PROVE InstantOwned'
  BY <1>14 DEF StopTakeOver, DropCapture
<1>15. ASSUME NEW t \in Takes, StopStale(t) PROVE InstantOwned'
  BY <1>15 DEF StopStale, Waited, StopReturns, Valid, ShouldFinalize
<1>16. ASSUME NEW t \in Takes, StopError(t) \/ StopSilent(t) PROVE InstantOwned'
  BY <1>16 DEF StopError, StopSilent, Waited, StopReturns, SetIdle
<1>17. ASSUME NEW t \in Takes, StopHears(t) PROVE InstantOwned'
  BY <1>17 DEF StopHears, Waited
<1>18. ASSUME NEW t \in Takes, StopRoutes(t) PROVE InstantOwned'
  BY <1>18 DEF StopRoutes, StopReturns, Goto
<1>19. ASSUME NEW t \in Takes, StopPolishes(t) PROVE InstantOwned'
  BY <1>19 DEF StopPolishes, Goto
<1>20. ASSUME NEW t \in Takes, StreamChunk(t) PROVE InstantOwned'
  BY <1>20 DEF StreamChunk
<1>20a. ASSUME NEW t \in Takes, StreamTyped(t) PROVE InstantOwned'
  BY <1>20a DEF StreamTyped
<1>21. ASSUME NEW t \in Takes, StopPolished(t) PROVE InstantOwned'
  BY <1>21 DEF StopPolished, Goto
<1>21a. ASSUME NEW t \in Takes, StopCompletes(t) PROVE InstantOwned'
  BY <1>21a DEF StopCompletes, Goto
<1>22. ASSUME NEW t \in Takes, StopDelivers(t) PROVE InstantOwned'
  BY <1>22 DEF StopDelivers, Goto
<1>23. ASSUME NEW t \in Takes, StopSaves(t) PROVE InstantOwned'
  <2>1. recordingStart = t
    BY <1>23 DEF StopSaves
  <2>2. \A e \in history' : e.started = e.take
    BY <1>23, <2>1 DEF StopSaves
  <2>3. \A u \in Takes : StopInFlight(u)' => u = t /\ stop'[u] = "closing"
    BY <1>23 DEF StopSaves, Goto
  <2>4. QED
    BY <2>2, <2>3
<1>24. ASSUME NEW t \in Takes, StopCloses(t) PROVE InstantOwned'
  BY <1>24 DEF StopCloses, StopReturns, SetIdle
<1>25. ASSUME NEW t \in Takes, DeadlineWakes(t) PROVE InstantOwned'
  BY <1>25 DEF DeadlineWakes
<1>26. ASSUME NEW t \in Takes, DeadlineStops(t) PROVE InstantOwned'
  BY <1>12, <1>26 DEF DeadlineStops
<1>27. CASE AbortFlag
  BY <1>27 DEF AbortFlag, InFlight
<1>28. CASE AbortRetire
  BY <1>28 DEF AbortRetire
<1>29. CASE AbortSilence
  BY <1>29 DEF AbortSilence, DropCapture
<1>30. CASE AbortNotify
  BY <1>30 DEF AbortNotify
<1>31. CASE AbortIdle
  BY <1>31 DEF AbortIdle, SetIdle
<1>32. CASE SwitchCheck
  BY <1>32 DEF SwitchCheck
<1>33. ASSUME NEW tg \in Targets, SwitchTarget(tg) PROVE InstantOwned'
  BY <1>33 DEF SwitchTarget
<1>34. QED
  BY <1>1, <1>2, <1>3, <1>4, <1>5, <1>6, <1>7, <1>8, <1>9, <1>10, <1>11, <1>12, <1>13, <1>14, <1>15, <1>16, <1>17, <1>18, <1>19, <1>20, <1>20a, <1>21, <1>21a, <1>22, <1>23, <1>24, <1>25, <1>26, <1>27, <1>28, <1>29, <1>30, <1>31, <1>32, <1>33 DEF Next, Start, StopCall, Stop, Abort
-----------------------------------------------------------------------------
(* The streaming worker runs while its text is polished, and stop() types   *)
(* the rest only of a text of which a part is out.                          *)
WorkerOwned ==
  \A t \in Takes : /\ worker[t] # "idle" => stop[t] = "polishing"
                   /\ stop[t] = "completing" => given[t] = "part"

WorkerTyped ==
  /\ stop \in [Takes -> StopPc] /\ given \in [Takes -> Given]
  /\ worker \in [Takes -> {"idle", "typing", "failed"}]

LEMMA WorkerStep ==
  ASSUME TypeOK, SetupInv, WorkerOwned, Next
  PROVE  WorkerOwned'
<1> USE DEF WorkerOwned
<1>0. WorkerTyped
  BY DEF TypeOK, StopsOK, WorldOK, WorkerTyped
<1> USE <1>0 DEF WorkerTyped
<1>1. CASE Start \/ AbortFlag \/ Abort \/ SwitchCheck \/ \E tg \in Targets : SwitchTarget(tg)
  BY <1>1 DEF Start, StartCall, StartExchange, StartConfigure, StartConnect, StartCheckBeforeStore, StartStore,
              StartCheckAfterStore, StartNumber, StartArm, StartRecording, StartSpawn,
              AbortFlag, Abort, AbortRetire, AbortSilence, AbortNotify, AbortIdle, SwitchCheck, SwitchTarget
<1>2. CASE StopExchange
  <2>1. takes \in Takes /\ stop[takes] = "none"
    BY <1>2 DEF StopExchange, SetupInv, RecordingOwned
  <2>2. QED
    BY <1>2, <2>1 DEF StopExchange
<1>3. ASSUME NEW t \in Takes, Task(t) PROVE WorkerOwned'
  BY <1>3 DEF Task, TaskStale, TaskCancelled, TaskText, TaskFail, TaskDrain, TaskDisconnect, TaskAppends, TaskLatches
<1>4. ASSUME NEW t \in Takes, StopTakeOver(t) PROVE WorkerOwned'
  BY <1>4 DEF StopTakeOver
<1>5. ASSUME NEW t \in Takes, StopStale(t) \/ StopError(t) \/ StopSilent(t) \/ StopHears(t) PROVE WorkerOwned'
  BY <1>5 DEF StopStale, StopError, StopSilent, StopHears, Waited, StopReturns
<1>6. ASSUME NEW t \in Takes, StopRoutes(t) \/ StopCloses(t) PROVE WorkerOwned'
  BY <1>6 DEF StopRoutes, StopCloses, StopReturns, Goto
<1>7. ASSUME NEW t \in Takes, StopPolishes(t) \/ StopDelivers(t) \/ StopSaves(t) PROVE WorkerOwned'
  BY <1>7 DEF StopPolishes, StopDelivers, StopSaves, Goto, GivesWhole
<1>8. ASSUME NEW t \in Takes, StreamChunk(t) \/ StreamTyped(t) PROVE WorkerOwned'
  BY <1>8 DEF StreamChunk, StreamTyped
<1>9. ASSUME NEW t \in Takes, StopPolished(t) PROVE WorkerOwned'
  BY <1>9 DEF StopPolished, Goto
<1>10. ASSUME NEW t \in Takes, StopCompletes(t) PROVE WorkerOwned'
  BY <1>10 DEF StopCompletes, Goto, GivesWhole
<1>11. ASSUME NEW t \in Takes, DeadlineWakes(t) \/ DeadlineStops(t) PROVE WorkerOwned'
  BY <1>2, <1>11 DEF DeadlineWakes, DeadlineStops
<1>12. QED
  BY <1>1, <1>2, <1>3, <1>4, <1>5, <1>6, <1>7, <1>8, <1>9, <1>10, <1>11 DEF Next, StopCall, Stop

\* In every behaviour the streaming worker is the one of a stop() that polishes,
\* and the rest of a text is typed only after a part of it was.
THEOREM WorkersAreOwned == Spec => []WorkerOwned
<1>1. Init => WorkerOwned
  BY DEF Init, WorkerOwned
<1>2. TypeOK /\ SetupInv /\ WorkerOwned /\ [Next]_vars => WorkerOwned'
  <2>1. ASSUME WorkerOwned, UNCHANGED vars PROVE WorkerOwned'
    BY <2>1 DEF WorkerOwned
  <2>2. QED
    BY <2>1, WorkerStep
<1>3. QED
  BY <1>1, <1>2, TypeCorrect, Ownership, PTL DEF Spec
-----------------------------------------------------------------------------
(* The variables of Dictation under the mapping, and the steps of Pipeline *)
(* that are steps of it.                                                   *)

Stages == [t \in Takes |-> Stage(t)]
Mics   == {t \in Takes : mic[t]}
Dues   == {t \in Takes : GoesOut(t)}

LEMMA ItStutters ==
  ASSUME UNCHANGED <<Stages, Mics, Dues, cancelled, given>>
  PROVE  [Promise!Next]_(Promise!vars)
BY DEF Promise!vars, Stages, Mics, Dues

LEMMA ItBegins ==
  ASSUME NEW t \in Takes, Stages[t] = "none",
         \A u \in Takes : Stages[u] \in {"begun", "stopped"} => Stages[u] = "stopped" /\ u \in cancelled,
         Stages' = [Stages EXCEPT ![t] = "begun"],
         UNCHANGED <<Mics, Dues, cancelled, given>>
  PROVE  [Promise!Next]_(Promise!vars)
BY DEF Promise!Next, Promise!Begins, Promise!UnderWay, Stages, Mics, Dues

LEMMA ItListens ==
  ASSUME NEW t \in Takes, Stages[t] = "begun", Mics = {}, Mics' = {t},
         UNCHANGED <<Stages, Dues, cancelled, given>>
  PROVE  [Promise!Next]_(Promise!vars)
BY DEF Promise!Next, Promise!Listens, Stages, Mics, Dues

LEMMA ItHushes ==
  ASSUME Mics' = {}, UNCHANGED <<Stages, Dues, cancelled, given>>
  PROVE  [Promise!Next]_(Promise!vars)
BY DEF Promise!Next, Promise!Hushes, Stages, Mics, Dues

LEMMA ItStops ==
  ASSUME NEW t \in Takes, Stages[t] = "begun", Stages' = [Stages EXCEPT ![t] = "stopped"],
         UNCHANGED <<Mics, Dues, cancelled, given>>
  PROVE  [Promise!Next]_(Promise!vars)
BY DEF Promise!Next, Promise!Stops, Stages, Mics, Dues

LEMMA ItDecides ==
  ASSUME NEW t \in Takes, Stages[t] = "stopped", t \notin cancelled, Dues' = Dues \cup {t},
         UNCHANGED <<Stages, Mics, cancelled, given>>
  PROVE  [Promise!Next]_(Promise!vars)
BY DEF Promise!Next, Promise!Decides, Stages, Mics, Dues

LEMMA ItReconsiders ==
  ASSUME NEW t \in Takes, Dues' = Dues \ {t}, UNCHANGED <<Stages, Mics, cancelled, given>>
  PROVE  [Promise!Next]_(Promise!vars)
BY DEF Promise!Next, Promise!Reconsiders, Stages, Mics, Dues

LEMMA ItStreams ==
  ASSUME NEW t \in Takes, Stages[t] = "stopped", t \in Dues,
         Dues' = Dues \ {t}, given' = [given EXCEPT ![t] = "part"], UNCHANGED <<Stages, Mics, cancelled>>
  PROVE  [Promise!Next]_(Promise!vars)
BY DEF Promise!Next, Promise!Streams, Stages, Mics, Dues

LEMMA ItDelivers ==
  ASSUME NEW t \in Takes, Stages[t] = "stopped", t \in Dues \/ given[t] = "part",
         Dues' = Dues \ {t}, given' = [given EXCEPT ![t] = "whole"], UNCHANGED <<Stages, Mics, cancelled>>
  PROVE  [Promise!Next]_(Promise!vars)
BY DEF Promise!Next, Promise!Delivers, Stages, Mics, Dues

LEMMA ItEnds ==
  ASSUME NEW t \in Takes, Stages[t] \in {"begun", "stopped"}, t \notin Dues,
         Stages' = [Stages EXCEPT ![t] = "over"], Mics' = Mics \ {t},
         UNCHANGED <<Dues, cancelled, given>>
  PROVE  [Promise!Next]_(Promise!vars)
BY DEF Promise!Next, Promise!Ends, Promise!UnderWay, Stages, Mics, Dues

LEMMA ItCallsOff ==
  ASSUME cancelled' = cancelled \cup {t \in Takes : Stages[t] \in {"begun", "stopped"}},
         UNCHANGED <<Stages, Mics, Dues, given>>
  PROVE  [Promise!Next]_(Promise!vars)
BY DEF Promise!Next, Promise!CallsOff, Promise!UnderWay, Stages, Mics, Dues
-----------------------------------------------------------------------------
(* What the steps of Pipeline are under the mapping.                       *)

\* The latest take is set up or recorded.
Begun == startPc \in SettingUp \/ state = "Recording"

StageOf(t) ==
  IF t > takes THEN "none"
  ELSE IF StopInFlight(t) THEN "stopped"
  ELSE IF t = takes /\ Begun THEN "begun" ELSE "over"

\* The stages as they are, before and after a step.
LEMMA StagesAre ==
  ASSUME TypeOK
  PROVE  Stages = [t \in Takes |-> StageOf(t)]
  <1>1. startPc \in SettingUp <=> startPc \notin {"none", "called"}
    BY DEF SettingUp, TypeOK, CallsOK, StartPc
  <1>2. ASSUME NEW t \in Takes PROVE Stage(t) = StageOf(t)
    BY <1>1 DEF Stage, StageOf, InFlight, Begun
  <1>3. QED
    BY <1>2 DEF Stages

LEMMA StagesWillBe ==
  ASSUME TypeOK'
  PROVE  Stages' = [t \in Takes |-> StageOf(t)']
  <1>1. startPc' \in SettingUp <=> startPc' \notin {"none", "called"}
    BY DEF SettingUp, TypeOK, CallsOK, StartPc
  <1>2. ASSUME NEW t \in Takes PROVE Stage(t)' = StageOf(t)'
    BY <1>1 DEF Stage, StageOf, InFlight, Begun
  <1>3. QED
    BY <1>2 DEF Stages

\* Neither takes nor stops change, and the latest take stays what it is.
LEMMA StagesStay ==
  ASSUME TypeOK, TypeOK', UNCHANGED <<takes, stop>>, Begun' <=> Begun
  PROVE  Stages' = Stages
  BY StagesAre, StagesWillBe DEF StageOf, StopInFlight

\* start() gives up, or abort() ends a recording.
LEMMA StagesOver ==
  ASSUME TypeOK, SetupInv, OrderInv, TypeOK', SetupInv', OrderInv',
         WorkerOwned, UNCHANGED <<takes, stop, worker>>, Begun, ~Begun'
  PROVE  /\ takes \in Takes /\ Stages[takes] = "begun"
         /\ Stages' = [Stages EXCEPT ![takes] = "over"]
         /\ takes \notin Dues /\ Dues' = Dues
  <1>1. takes \in Takes /\ ~StopInFlight(takes) /\ takes \in Nat
    BY DEF Begun, SetupInv, StartOwns, RecordingOwned, StopInFlight, TypeOK, CallsOK
  <1>2. StageOf(takes) = "begun" /\ StageOf(takes)' = "over"
    BY <1>1 DEF StageOf, StopInFlight, Takes
  <1>3. \A u \in Takes \ {takes} : StageOf(u)' = StageOf(u)
    BY DEF StageOf, StopInFlight
  <1>4. Stages[takes] = "begun" /\ Stages' = [Stages EXCEPT ![takes] = "over"]
    BY <1>1, <1>2, <1>3, StagesAre, StagesWillBe
  <1>5. takes \notin Dues /\ Dues' = Dues
    BY <1>1 DEF Dues, GoesOut, StopInFlight, WorkerOwned
  <1>6. QED
    BY <1>1, <1>4, <1>5

\* A stop() goes on.
LEMMA StopMoves ==
  ASSUME TypeOK, SetupInv, OrderInv, TypeOK', SetupInv', OrderInv',
         NEW t \in Takes, StopInFlight(t), NEW pc \in StopPc \ {"none", "ended"},
         stop' = [stop EXCEPT ![t] = pc], UNCHANGED <<takes, startPc>>
  PROVE  Stages[t] = "stopped" /\ Stages' = Stages
  <1>1. state # "Recording" /\ state' # "Recording" /\ t <= takes
    <2>1. StopInFlight(t)'
      BY DEF StopInFlight, TypeOK, StopsOK
    <2>2. QED
      BY <2>1 DEF OrderInv, OneInFlight, SetupInv, Untouched, StopInFlight, Takes, TypeOK, CallsOK
  <1>2. \A u \in Takes : StopInFlight(u)' <=> StopInFlight(u)
    BY DEF StopInFlight, TypeOK, StopsOK
  <1>3. QED
    BY <1>1, <1>2, StagesAre, StagesWillBe DEF StageOf, Begun, Takes, TypeOK, CallsOK

\* A stop() returns.
LEMMA StopIsOver ==
  ASSUME TypeOK, SetupInv, OrderInv, MicOwned, TypeOK', SetupInv', OrderInv',
         NEW t \in Takes, StopInFlight(t), stop[t] \notin {"capturing", "routed", "executing"},
         stop' = [stop EXCEPT ![t] = "ended"], UNCHANGED <<takes, startPc, mic, worker>>,
         worker[t] = "idle", state' # "Recording", UNCHANGED <<cancelled, given>>
  PROVE  [Promise!Next]_(Promise!vars)
  <1>1. state # "Recording" /\ t <= takes /\ (t = takes => startPc \notin SettingUp)
    BY DEF OrderInv, OneInFlight, SetupInv, StartOwns, Untouched, StopInFlight, Takes, TypeOK, CallsOK
  <1>2. Stages[t] = "stopped" /\ Stages' = [Stages EXCEPT ![t] = "over"]
    <2>1. Begun' <=> Begun
      BY <1>1 DEF Begun
    <2>2. StageOf(t) = "stopped" /\ StageOf(t)' = "over"
      BY <1>1 DEF StageOf, StopInFlight, Begun, Takes, TypeOK, StopsOK, CallsOK
    <2>3. \A u \in Takes \ {t} : StageOf(u)' = StageOf(u)
      BY <2>1 DEF StageOf, StopInFlight, TypeOK, StopsOK
    <2>4. QED
      BY <2>2, <2>3, StagesAre, StagesWillBe
  <1>3. t \notin Dues /\ Dues' = Dues
    BY DEF Dues, GoesOut, TypeOK, StopsOK
  <1>4. ~mic[t]
    BY <1>1 DEF MicOwned
  <1>5. Mics' = Mics \ {t}
    BY <1>4 DEF Mics
  <1>6. QED
    BY <1>2, <1>3, <1>5, ItEnds

\* A capture is dropped, and that is all.
LEMMA CaptureDropped ==
  ASSUME MicOwned, mic' = [t \in Takes |-> mic[t] /\ t # audioHandle], UNCHANGED <<Stages, Dues, cancelled, given>>
  PROVE  [Promise!Next]_(Promise!vars)
  <1>1. Mics' = {} \/ Mics' = Mics
    BY DEF MicOwned, Mics
  <1>2. QED
    BY <1>1, ItHushes, ItStutters

\* Every step of an orderly behaviour is one of Dictation, or none.
LEMMA PromiseStep ==
  ASSUME TypeOK, SetupInv, OrderInv, MicOwned, WorkerOwned, TypeOK', SetupInv', OrderInv', MicOwned',
         Next /\ ~raced'
  PROVE  [Promise!Next]_(Promise!vars)
<1>0. Typed /\ Typed'
  BY DEF TypeOK, HandleOK, CallsOK, StopsOK, TasksOK, Typed
<1>w. WorkerTyped /\ WorkerTyped'
  BY DEF TypeOK, StopsOK, WorldOK, WorkerTyped
<1>a. ASSUME UNCHANGED <<takes, stop, mic, worker, cancelled, given>>, Begun' <=> Begun
      PROVE  [Promise!Next]_(Promise!vars)
  BY <1>a, StagesStay, ItStutters DEF Mics, Dues, GoesOut
<1>b. ASSUME UNCHANGED <<takes, stop, worker, cancelled, given>>, Begun, ~Begun',
             mic' = [t \in Takes |-> mic[t] /\ t # takes]
      PROVE  [Promise!Next]_(Promise!vars)
  <2>1. Mics' = Mics \ {takes}
    BY <1>b DEF Mics
  <2>2. QED
    BY <1>b, <2>1, StagesOver, ItEnds
<1>c. ASSUME NEW t \in Takes, StopInFlight(t), NEW pc \in StopPc \ {"none", "ended"},
             stop' = [stop EXCEPT ![t] = pc], UNCHANGED <<takes, startPc, mic, cancelled>>,
             worker[t] # "typing", worker' \in {worker, [worker EXCEPT ![t] = "idle"]}
      PROVE  /\ Stages[t] = "stopped" /\ UNCHANGED <<Stages, Mics>>
             /\ Dues' = IF pc \in {"routed", "executing"} THEN Dues \cup {t} ELSE Dues \ {t}
  <2>1. Dues' = IF pc \in {"routed", "executing"} THEN Dues \cup {t} ELSE Dues \ {t}
    BY <1>0, <1>w, <1>c DEF Dues, GoesOut, Typed, WorkerTyped
  <2>2. QED
    BY <1>c, <2>1, StopMoves DEF Mics
<1>1. CASE StartCall
  BY <1>1, <1>a DEF StartCall, LockFree, Begun, SettingUp
<1>2. CASE StartExchange
  <2>1. CASE state = "Idle"
    <3>1. takes + 1 \in Takes /\ takes' = takes + 1 /\ startPc' = "setup" /\ ~Begun
          /\ UNCHANGED <<stop, mic, worker, cancelled, given>>
      BY <1>0, <1>2, <2>1 DEF StartExchange, StartClears, Begun, SettingUp, TypeOK, CallsOK, Typed, Takes
    <3>2. PICK t \in Takes : t = takes + 1
      BY <3>1
    <3>3. ~StopInFlight(t) /\ \A u \in Takes : StopInFlight(u) => u <= takes /\ u \in cancelled
      BY <1>0, <2>1, <3>2 DEF SetupInv, Untouched, OrderInv, OneInFlight, FlagSpeaks, StopInFlight, Takes, Typed
    <3>4. StageOf(t) = "none" /\ StageOf(t)' = "begun"
      BY <1>0, <3>1, <3>2, <3>3 DEF StageOf, StopInFlight, Begun, SettingUp, Typed, Takes
    <3>5. \A u \in Takes \ {t} : StageOf(u)' = StageOf(u)
      BY <1>0, <3>1, <3>2, <3>3 DEF StageOf, StopInFlight, Begun, Typed, Takes
    <3>6. Stages[t] = "none" /\ Stages' = [Stages EXCEPT ![t] = "begun"]
      BY <3>4, <3>5, StagesAre, StagesWillBe
    <3>7. \A u \in Takes : Stages[u] \in {"begun", "stopped"} => Stages[u] = "stopped" /\ u \in cancelled
      BY <3>1, <3>3, StagesAre DEF StageOf
    <3>8. UNCHANGED <<Mics, Dues>>
      BY <3>1 DEF Mics, Dues, GoesOut
    <3>9. QED
      BY <3>1, <3>6, <3>7, <3>8, ItBegins
  <2>2. CASE state # "Idle"
    BY <1>2, <2>2, <1>a DEF StartExchange, Begun, SettingUp
  <2>3. QED
    BY <2>1, <2>2
<1>3. CASE StartConfigure
  <2>1. Begun /\ \A t \in Takes : ~mic[t]
    BY <1>3 DEF StartConfigure, Begun, SettingUp, MicOwned, SetupInv, RecordingOwned, CapturingOwned
  <2>2. CASE StartGivesUp /\ UNCHANGED mic
    <3>1. mic' = [t \in Takes |-> mic[t] /\ t # takes]
      BY <1>0, <2>1, <2>2 DEF Typed
    <3>2. QED
      BY <1>3, <2>1, <2>2, <3>1, <1>b DEF StartConfigure, StartGivesUp, SetIdle, Begun, SettingUp
  <2>3. CASE mic' = [mic EXCEPT ![takes] = TRUE] /\ startPc' = "connecting"
    <3>1. takes \in Takes /\ Stages' = Stages /\ Stages[takes] = "begun"
      <4>1. takes \in Takes /\ stop[takes] = "none"
        BY <1>3 DEF StartConfigure, SetupInv, StartOwns, SettingUp
      <4>2. Begun' /\ UNCHANGED <<takes, stop>>
        BY <1>3, <2>3 DEF StartConfigure, Begun, SettingUp
      <4>3. QED
        BY <1>0, <2>1, <4>1, <4>2, StagesAre, StagesStay DEF StageOf, StopInFlight, Typed
    <3>2. Mics = {} /\ Mics' = {takes}
      BY <1>0, <2>1, <2>3, <3>1 DEF Mics, Typed
    <3>3. QED
      BY <1>3, <3>1, <3>2, ItListens DEF StartConfigure, Dues, GoesOut
  <2>4. QED
    BY <1>3, <2>2, <2>3 DEF StartConfigure
<1>4. CASE StartConnect
  BY <1>0, <1>4, <1>a, <1>b DEF StartConnect, StartGivesUp, SetIdle, Begun, SettingUp, MicOwned, Typed
<1>5. CASE StartCheckBeforeStore
  BY <1>0, <1>5, <1>a, <1>b DEF StartCheckBeforeStore, StartGivesUp, SetIdle, Begun, SettingUp, MicOwned, Typed
<1>6. CASE StartStore
  <2>1. UNCHANGED <<takes, stop, worker>> /\ (Begun' <=> Begun)
    BY <1>6 DEF StartStore, Begun, SettingUp
  <2>2. QED
    BY <1>6, <2>1, StagesStay, CaptureDropped DEF StartStore, Dues, GoesOut
<1>7. CASE StartCheckAfterStore
  <2>1. CASE abortFlag
    <3>1. mic' = [t \in Takes |-> mic[t] /\ t # takes]
      <4>1. \A t \in Takes : mic[t] => t = takes /\ t = audioHandle
        BY <1>7 DEF StartCheckAfterStore, MicOwned
      <4>2. QED
        BY <1>7, <2>1, <4>1 DEF StartCheckAfterStore, DropCapture
    <3>2. QED
      BY <1>7, <2>1, <3>1, <1>b DEF StartCheckAfterStore, StartGivesUp, SetIdle, Begun, SettingUp
  <2>2. CASE ~abortFlag
    BY <1>7, <2>2, <1>a DEF StartCheckAfterStore, Begun, SettingUp
  <2>3. QED
    BY <2>1, <2>2
<1>8. CASE StartNumber \/ StartArm \/ StartRecording
  BY <1>8, <1>a DEF StartNumber, StartArm, StartRecording, Begun, SettingUp
<1>9. CASE StartSpawn
  BY <1>9, <1>a DEF StartSpawn, Begun, SettingUp, OrderInv, OneInFlight
<1>10. CASE StopExchange
  <2>1. takes \in Takes /\ stop[takes] = "none" /\ Begun /\ ~Begun' /\ UNCHANGED <<takes, mic, worker, cancelled, given>>
    BY <1>10 DEF StopExchange, LockFree, SetupInv, RecordingOwned, Begun, SettingUp
  <2>2. stop' = [stop EXCEPT ![takes] = "capturing"]
    BY <1>10 DEF StopExchange
  <2>3. StageOf(takes) = "begun" /\ StageOf(takes)' = "stopped"
    BY <1>0, <2>1, <2>2 DEF StageOf, StopInFlight, Typed, Takes
  <2>4. \A t \in Takes \ {takes} : StageOf(t)' = StageOf(t)
    BY <1>0, <2>1, <2>2 DEF StageOf, StopInFlight, Typed
  <2>5. Stages[takes] = "begun" /\ Stages' = [Stages EXCEPT ![takes] = "stopped"]
    BY <2>1, <2>3, <2>4, StagesAre, StagesWillBe
  <2>6. UNCHANGED <<Mics, Dues>>
    BY <1>0, <2>1, <2>2 DEF Mics, Dues, GoesOut, Typed
  <2>7. QED
    BY <2>1, <2>5, <2>6, ItStops
<1>11. ASSUME NEW t \in Takes, Task(t) PROVE [Promise!Next]_(Promise!vars)
  <2>1. UNCHANGED <<state, startPc, stop, takes, mic, worker, cancelled, given>>
    BY <1>11 DEF Task, TaskStale, TaskCancelled, TaskText, TaskFail, TaskDrain, TaskDisconnect, TaskAppends, TaskLatches
  <2>2. QED
    BY <2>1, <1>a DEF Begun
<1>12. ASSUME NEW t \in Takes, StopTakeOver(t) PROVE [Promise!Next]_(Promise!vars)
  <2>1. StopInFlight(t) /\ stop' = [stop EXCEPT ![t] = "waiting"] /\ UNCHANGED <<takes, startPc, worker, cancelled, given>>
    BY <1>12 DEF StopTakeOver, StopInFlight
  <2>2. Stages' = Stages
    BY <2>1, StopMoves DEF StopPc
  <2>3. Dues' = Dues
    BY <1>0, <1>12, <2>1 DEF StopTakeOver, Dues, GoesOut, Typed
  <2>4. QED
    BY <1>12, <2>1, <2>2, <2>3, CaptureDropped DEF StopTakeOver, DropCapture
<1>13. ASSUME NEW t \in Takes, StopStale(t) \/ StopError(t) \/ StopSilent(t) PROVE [Promise!Next]_(Promise!vars)
  <2>1. StopInFlight(t) /\ stop[t] = "waiting" /\ worker[t] = "idle"
    BY <1>13 DEF StopStale, StopError, StopSilent, Waited, StopInFlight, WorkerOwned
  <2>2. stop' = [stop EXCEPT ![t] = "ended"] /\ UNCHANGED <<takes, startPc, mic, worker, cancelled, given>>
    BY <1>13 DEF StopStale, StopError, StopSilent, StopReturns
  <2>3. state' \in {"Idle", state} /\ state # "Recording"
    BY <1>13, <2>1 DEF StopStale, StopError, StopSilent, SetIdle, OrderInv, OneInFlight
  <2>4. QED
    BY <2>1, <2>2, <2>3, StopIsOver
<1>14. ASSUME NEW t \in Takes, StopHears(t) PROVE [Promise!Next]_(Promise!vars)
  <2>1. worker[t] = "idle" /\ StopInFlight(t) /\ stop' = [stop EXCEPT ![t] = "heard"] /\ UNCHANGED <<takes, startPc, mic, worker, cancelled, given>>
    BY <1>14 DEF StopHears, Waited, StopInFlight, WorkerOwned
  <2>2. QED
    BY <2>1, <1>c, ItReconsiders DEF StopPc
<1>15. ASSUME NEW t \in Takes, StopRoutes(t) PROVE [Promise!Next]_(Promise!vars)
  <2>1. worker[t] = "idle" /\ StopInFlight(t) /\ stop[t] = "heard" /\ UNCHANGED <<state, takes, startPc, mic, worker, cancelled, given>>
    BY <1>15 DEF StopRoutes, StopInFlight, WorkerOwned
  <2>2. CASE abortFlag
    <3>1. stop' = [stop EXCEPT ![t] = "ended"]
      BY <1>15, <2>2 DEF StopRoutes, StopReturns
    <3>2. QED
      BY <2>1, <3>1, StopIsOver DEF OrderInv, OneInFlight
  <2>3. CASE ~abortFlag
    <3>1. stop' = [stop EXCEPT ![t] = "routed"] /\ t \notin cancelled
      BY <1>15, <2>1, <2>3 DEF StopRoutes, Goto, OrderInv, FlagSpeaks
    <3>2. QED
      BY <2>1, <3>1, <1>c, ItDecides DEF StopPc
  <2>4. QED
    BY <2>2, <2>3
<1>16. ASSUME NEW t \in Takes, StopPolishes(t) PROVE [Promise!Next]_(Promise!vars)
  <2>1. worker[t] = "idle" /\ StopInFlight(t) /\ t \in Dues /\ UNCHANGED <<takes, startPc, mic, worker, cancelled, given>>
    BY <1>16 DEF StopPolishes, StopInFlight, Dues, GoesOut, WorkerOwned
  <2>2. PICK pc \in {"polishing", "executing", "saving"} : stop' = [stop EXCEPT ![t] = pc]
    BY <1>16 DEF StopPolishes, Goto
  <2>3. /\ UNCHANGED <<Stages, Mics>>
        /\ Dues' = IF pc = "executing" THEN Dues \cup {t} ELSE Dues \ {t}
    BY <2>1, <2>2, <1>c DEF StopPc
  <2>4. QED
    BY <2>1, <2>3, ItReconsiders, ItStutters
<1>17. ASSUME NEW t \in Takes, StreamChunk(t) PROVE [Promise!Next]_(Promise!vars)
  <2>1. StopInFlight(t) /\ t \notin cancelled /\ t <= takes
    BY <1>0, <1>17 DEF StreamChunk, StopInFlight, OrderInv, FlagSpeaks, SetupInv, Untouched, Takes, Typed
  <2>2. UNCHANGED <<takes, stop, mic, cancelled, given>> /\ (Begun' <=> Begun)
    BY <1>17 DEF StreamChunk, Begun
  <2>3. Stages[t] = "stopped" /\ UNCHANGED <<Stages, Mics>>
    BY <1>0, <2>1, <2>2, StagesAre, StagesStay DEF StageOf, Mics, Typed, Takes
  <2>4. Dues' = Dues \cup {t}
    BY <1>w, <1>17 DEF StreamChunk, Dues, GoesOut, WorkerTyped
  <2>5. QED
    BY <2>1, <2>2, <2>3, <2>4, ItDecides
<1>17a. ASSUME NEW t \in Takes, StreamTyped(t) PROVE [Promise!Next]_(Promise!vars)
  <2>1. StopInFlight(t) /\ t \in Dues /\ t <= takes
    BY <1>0, <1>17a DEF StreamTyped, StopInFlight, Dues, GoesOut, SetupInv, Untouched, Takes, Typed
  <2>2. UNCHANGED <<takes, stop, mic, cancelled>> /\ (Begun' <=> Begun)
        /\ given' \in {given, [given EXCEPT ![t] = "part"]}
    BY <1>17a DEF StreamTyped, Begun
  <2>3. Stages[t] = "stopped" /\ UNCHANGED <<Stages, Mics>>
    BY <1>0, <2>1, <2>2, StagesAre, StagesStay DEF StageOf, Mics, Typed, Takes
  <2>4. Dues' = Dues \ {t}
    BY <1>w, <1>17a DEF StreamTyped, Dues, GoesOut, WorkerTyped
  <2>5. QED
    BY <2>1, <2>2, <2>3, <2>4, ItStreams, ItReconsiders
<1>18. ASSUME NEW t \in Takes, StopPolished(t) PROVE [Promise!Next]_(Promise!vars)
  <2>1. StopInFlight(t) /\ UNCHANGED <<takes, startPc, mic, cancelled, given>>
        /\ worker[t] # "typing" /\ worker' = [worker EXCEPT ![t] = "idle"]
    BY <1>18 DEF StopPolished, StopInFlight
  <2>2. \/ stop' = [stop EXCEPT ![t] = "executing"] /\ t \notin cancelled
        \/ stop' = [stop EXCEPT ![t] = "completing"]
        \/ stop' = [stop EXCEPT ![t] = "saving"]
    BY <1>18, <2>1 DEF StopPolished, Goto, OrderInv, FlagSpeaks
  <2>3. PICK pc \in {"executing", "completing", "saving"} :
             stop' = [stop EXCEPT ![t] = pc] /\ (pc = "executing" => t \notin cancelled)
    BY <2>2
  <2>4. /\ Stages[t] = "stopped" /\ UNCHANGED <<Stages, Mics>>
        /\ Dues' = IF pc = "executing" THEN Dues \cup {t} ELSE Dues \ {t}
    BY <2>1, <2>3, <1>c DEF StopPc
  <2>5. QED
    BY <2>1, <2>3, <2>4, ItDecides, ItReconsiders
<1>18a. ASSUME NEW t \in Takes, StopCompletes(t) PROVE [Promise!Next]_(Promise!vars)
  <2>1. StopInFlight(t) /\ given[t] = "part" /\ worker[t] = "idle"
        /\ UNCHANGED <<takes, startPc, mic, worker, cancelled>>
    BY <1>18a DEF StopCompletes, StopInFlight, WorkerOwned
  <2>2. stop' = [stop EXCEPT ![t] = "saving"] /\ given' \in {given, [given EXCEPT ![t] = "whole"]}
    BY <1>18a DEF StopCompletes, GivesWhole, Goto
  <2>3. Stages[t] = "stopped" /\ UNCHANGED <<Stages, Mics>> /\ Dues' = Dues \ {t}
    BY <2>1, <2>2, <1>c DEF StopPc
  <2>4. QED
    BY <2>1, <2>2, <2>3, ItDelivers, ItReconsiders
<1>19. ASSUME NEW t \in Takes, StopDelivers(t) PROVE [Promise!Next]_(Promise!vars)
  <2>1. StopInFlight(t) /\ t \in Dues /\ worker[t] = "idle"
        /\ UNCHANGED <<takes, startPc, mic, worker, cancelled>>
    BY <1>19 DEF StopDelivers, StopInFlight, Dues, GoesOut, WorkerOwned
  <2>2. stop' = [stop EXCEPT ![t] = "saving"] /\ given' \in {given, [given EXCEPT ![t] = "whole"]}
    BY <1>19 DEF StopDelivers, GivesWhole, Goto
  <2>3. Stages[t] = "stopped" /\ UNCHANGED <<Stages, Mics>> /\ Dues' = Dues \ {t}
    BY <2>1, <2>2, <1>c DEF StopPc
  <2>4. QED
    BY <2>1, <2>2, <2>3, ItDelivers, ItReconsiders
<1>20. ASSUME NEW t \in Takes, StopSaves(t) PROVE [Promise!Next]_(Promise!vars)
  <2>1. worker[t] = "idle" /\ StopInFlight(t) /\ stop' = [stop EXCEPT ![t] = "closing"]
        /\ UNCHANGED <<takes, startPc, mic, worker, cancelled, given>>
    BY <1>20 DEF StopSaves, StopInFlight, Goto, WorkerOwned
  <2>2. QED
    BY <2>1, <1>c, ItReconsiders DEF StopPc
<1>21. ASSUME NEW t \in Takes, StopCloses(t) PROVE [Promise!Next]_(Promise!vars)
  <2>1. /\ StopInFlight(t) /\ stop[t] = "closing" /\ stop' = [stop EXCEPT ![t] = "ended"]
        /\ worker[t] = "idle" /\ state' = "Idle" /\ UNCHANGED <<takes, startPc, mic, worker, cancelled, given>>
    BY <1>21 DEF StopCloses, StopReturns, SetIdle, StopInFlight, WorkerOwned
  <2>2. QED
    BY <2>1, StopIsOver
<1>22. ASSUME NEW t \in Takes, DeadlineWakes(t) PROVE [Promise!Next]_(Promise!vars)
  BY <1>22, <1>a DEF DeadlineWakes, Begun
<1>23. ASSUME NEW t \in Takes, DeadlineStops(t) PROVE [Promise!Next]_(Promise!vars)
  BY <1>23, <1>10, <1>a DEF DeadlineStops, Begun
<1>24. CASE AbortFlag
  <2>1. UNCHANGED <<takes, stop, mic, worker, given>> /\ (Begun' <=> Begun)
    BY <1>24 DEF AbortFlag, Begun
  <2>2. ASSUME NEW t \in Takes PROVE InFlight(t) <=> StageOf(t) \in {"begun", "stopped"}
    BY <1>0 DEF InFlight, StageOf, Begun, SettingUp, StopInFlight, SetupInv, Untouched, TypeOK, CallsOK, StartPc, Typed, Takes
  <2>3. cancelled' = cancelled \cup {t \in Takes : Stages[t] \in {"begun", "stopped"}}
    BY <1>24, <2>2, StagesAre DEF AbortFlag
  <2>4. QED
    BY <2>1, <2>3, StagesStay, ItCallsOff DEF Mics, Dues, GoesOut
<1>25. CASE AbortRetire \/ AbortNotify
  BY <1>25, <1>a DEF AbortRetire, AbortNotify, Begun
<1>26. CASE AbortSilence
  <2>1. UNCHANGED <<takes, stop, worker>> /\ (Begun' <=> Begun)
    BY <1>26 DEF AbortSilence, Begun
  <2>2. QED
    BY <1>26, <2>1, StagesStay, CaptureDropped DEF AbortSilence, DropCapture, Dues, GoesOut
<1>27. CASE AbortIdle
  <2>1. UNCHANGED <<takes, stop, mic, worker, cancelled, given, startPc>> /\ state' = "Idle"
    BY <1>27 DEF AbortIdle, SetIdle
  <2>2. CASE Begun' <=> Begun
    BY <2>1, <2>2, <1>a
  <2>3. CASE Begun /\ ~Begun'
    <3>1. \A t \in Takes : ~mic[t]
      BY <1>27, <2>1, <2>3 DEF AbortIdle, Begun, MicOwned
    <3>2. mic' = [t \in Takes |-> mic[t] /\ t # takes]
      BY <1>0, <2>1, <3>1 DEF Typed
    <3>3. QED
      BY <2>1, <2>3, <3>2, <1>b
  <2>4. QED
    BY <2>1, <2>2, <2>3 DEF Begun
<1>28. CASE SwitchCheck \/ \E tg \in Targets : SwitchTarget(tg)
  BY <1>28, <1>a DEF SwitchCheck, SwitchTarget, Begun
<1>29. QED
  BY <1>1, <1>2, <1>3, <1>4, <1>5, <1>6, <1>7, <1>8, <1>9, <1>10, <1>11, <1>12, <1>13, <1>14,
     <1>15, <1>16, <1>17, <1>17a, <1>18, <1>18a, <1>19, <1>20, <1>21, <1>22, <1>23, <1>24, <1>25, <1>26, <1>27,
     <1>28 DEF Next, Start, StopCall, Stop, Abort
-----------------------------------------------------------------------------
(* The theorems                                                            *)

LEMMA OrderlyIsSpec == OrderlySpec => Spec
  <1>1. [Next /\ ~raced']_vars => [Next]_vars
    OBVIOUS
  <1>2. QED
    BY <1>1, PTL DEF OrderlySpec, Spec

\* In orderly behaviours abort_flag speaks for every dictation in flight, and
\* the fields of the handle are those of the one that is not cancelled.
THEOREM OrderlyOwnership == OrderlySpec => [](OrderInv /\ SetUpInv)
  <1>1. Init => OrderInv /\ SetUpInv
    <2>1. ASSUME Init PROVE SetUpInv
      BY <2>1 DEF Init, SetUpInv, MicOwned, RecordingIsSetUp, SessionStands, BusyOwned, InstantOwned,
                  StopInFlight, SettingUp, Late, NoTake
    <2>2. QED
      BY <2>1, OrderInit
  <1>2. TypeOK /\ SetupInv /\ OrderInv /\ SetUpInv /\ [Next /\ ~raced']_vars => OrderInv' /\ SetUpInv'
    <2>1. ASSUME TypeOK, SetupInv, OrderInv, SetUpInv, Next /\ ~raced' PROVE OrderInv' /\ SetUpInv'
      BY <2>1, OrderStep, MicStep, SetUpStep, SessionStep, BusyStep, InstantStep DEF SetUpInv
    <2>2. ASSUME OrderInv, SetUpInv, UNCHANGED vars PROVE OrderInv' /\ SetUpInv'
      BY <2>2 DEF OrderInv, SetUpInv, FlagSpeaks, OneInFlight, MicOwned, RecordingIsSetUp, SessionStands,
                  BusyOwned, InstantOwned, StopInFlight
    <2>3. QED
      BY <2>1, <2>2
  <1>3. QED
    BY <1>1, <1>2, OrderlyIsSpec, TypeCorrect, Ownership, PTL DEF OrderlySpec

\* Nothing is left behind by any interleaving of start(), stop(), abort() and
\* the tasks: neither a recording, nor the state, nor the microphone.
THEOREM NothingIsOrphaned == OrderlySpec => []NothingOrphaned
  <1>1. OrderInv /\ SetUpInv /\ SetupInv /\ TypeOK => NothingOrphaned
    <2> SUFFICES ASSUME OrderInv, SetUpInv, SetupInv, TypeOK PROVE NothingOrphaned
      OBVIOUS
    <2>1. startPc \in SettingUp <=> startPc \notin {"none", "called"}
      BY DEF SettingUp, TypeOK, CallsOK, StartPc
    <2>2. RecordingCanEnd
      BY DEF RecordingCanEnd, OrderInv, FlagSpeaks, SetUpInv, RecordingIsSetUp, SetupInv, RecordingOwned
    <2>3. BusyHasOwner
      BY <2>1 DEF BusyHasOwner, SetUpInv, BusyOwned
    <2>4. MicHasOwner
      BY <2>1 DEF MicHasOwner, SetUpInv, MicOwned
    <2>5. QED
      BY <2>2, <2>3, <2>4 DEF NothingOrphaned
  <1>2. QED
    BY <1>1, OrderlyOwnership, OrderlyIsSpec, TypeCorrect, Ownership, PTL

\* The duration that is saved is measured from the dictation's own start.
THEOREM DurationsAreOwn == OrderlySpec => []DurationIsOwn
  <1>1. SetUpInv => DurationIsOwn
    BY DEF SetUpInv, InstantOwned, DurationIsOwn
  <1>2. QED
    BY <1>1, OrderlyOwnership, PTL

\* The pipeline keeps the promise: every orderly behaviour is, under the
\* mapping of PipelineRefinement, a behaviour of Dictation.
THEOREM PromiseIsKept == OrderlySpec => KeepsThePromise
  <1>1. Init => Promise!Init
    BY DEF Init, Promise!Init, Stage, Takes, GoesOut
  <1>2. /\ TypeOK /\ SetupInv /\ OrderInv /\ SetUpInv /\ WorkerOwned
        /\ TypeOK' /\ SetupInv' /\ OrderInv' /\ SetUpInv'
        /\ [Next /\ ~raced']_vars
        => [Promise!Next]_(Promise!vars)
    <2>1. ASSUME TypeOK, SetupInv, OrderInv, SetUpInv, WorkerOwned, TypeOK', SetupInv', OrderInv', SetUpInv',
                 Next /\ ~raced'
          PROVE  [Promise!Next]_(Promise!vars)
      BY <2>1, PromiseStep DEF SetUpInv
    <2>2. ASSUME UNCHANGED vars PROVE UNCHANGED Promise!vars
      BY <2>2 DEF Promise!vars, Stage, StopInFlight, InFlight, GoesOut
    <2>3. QED
      BY <2>1, <2>2
  <1>3. QED
    BY <1>1, <1>2, OrderlyOwnership, OrderlyIsSpec, TypeCorrect, Ownership, WorkersAreOwned, PTL
       DEF OrderlySpec, KeepsThePromise, Promise!Spec

-----------------------------------------------------------------------------
(* Whose text a dictation gets *)

\* Session ids are not used twice; abort() and start() retire the last one.
IdsApart ==
  /\ \A t \in Takes : sid[t] <= activeSttId
  /\ \A t, u \in Takes : sid[t] = sid[u] /\ sid[t] # 0 => t = u
  /\ abortPc \in {"retired", "silenced", "notified"} => \A t \in Takes : sid[t] < activeSttId

\* A take has its id before its task, and its task before its control is
\* published and before it can fail or get a note.
TasksInOrder ==
  /\ \A t \in Takes : t > takes \/ (t = takes /\ startPc \in SettingUp) => task[t] = "none"
  /\ startPc \in {"arming", "numbered", "recording"} => sid[takes] # 0
  /\ \A t \in Takes : task[t] # "none" => sid[t] # 0
  /\ \A t \in Takes : sttSession = t \/ t \in failed \/ doneNote[t] => task[t] # "none"

Live(t) == task[t] \notin {"none", "over"}

\* A task that is about to write may do so, or has been overtaken.
WritersMay ==
  \A t \in Takes : task[t] \in {"appending", "closing", "latching"} /\ t \notin overtaken => ShouldFinalize(t)

\* A task that may still write is the one of the dictation in progress, or has
\* timed out; a note that it is over is true.
WritersKnown ==
  /\ \A t \in Takes : Live(t) /\ activeSttId = sid[t] =>
       \/ t \in timedOut
       \/ stop[t] \in {"capturing", "waiting"}
       \/ t = takes /\ state = "Recording"
  /\ \A t \in Takes : doneNote[t] => ~Live(t) \/ activeSttId # sid[t]

\* Text and error are those of the dictation in progress, or of a late task.
TextOwned ==
  /\ accumulated \subseteq timedOut \cup overtaken \cup {takes}
  /\ \A t \in Takes : heard[t] \subseteq {t} \cup timedOut \cup overtaken
  /\ ~abortFlag => \A t \in failed :
       (t = takes /\ state = "Recording") \/ stop[t] \in {"capturing", "waiting"} =>
         sttError = t \/ sttError \in overtaken \ {t}

TextInv  == IdsApart /\ TasksInOrder /\ WritersMay /\ WritersKnown /\ TextOwned

USE PipelineAssumption
USE DEF vars, ids, text, shared, capture, tasks, stops, calls, world, ghost,
        waitUnchanged, polishUnchanged, deadlineUnchanged, taskUnchanged

TextTyped ==
  /\ takes \in 0..MaxTakes /\ activeSttId \in Nat /\ sid \in [Takes -> Nat]
  /\ stop \in [Takes -> StopPc] /\ heard \in [Takes -> SUBSET Takes]
  /\ task \in [Takes -> TaskPc] /\ overtaken \subseteq Takes
  /\ doneNote \in [Takes -> BOOLEAN] /\ timedOut \subseteq Takes /\ failed \subseteq Takes
  /\ sttSession \in Takes \cup {NoTake}

\* A stop() waits for the task of its own take.
LEMMA WaitedOwn ==
  ASSUME NEW t \in Takes, SetupInv, Waited(t)
  PROVE  /\ stop[t] = "waiting" /\ ctl[t] = t
         /\ \/ doneNote[t] /\ doneNote' = [doneNote EXCEPT ![t] = FALSE] /\ timedOut' = timedOut
            \/ doneNote' = doneNote /\ timedOut' = timedOut \cup {t}
  <1>1. stop[t] = "waiting"
    BY DEF Waited
  <1>2. ctl[t] = t
    BY <1>1 DEF SetupInv, StopOwnsSetup
  <1>3. QED
    BY <1>1, <1>2 DEF Waited, Takes, NoTake

\* A wait makes no note, it takes one at most.
LEMMA WaitedTakesNote ==
  ASSUME NEW t \in Takes, doneNote \in [Takes -> BOOLEAN], Waited(t)
  PROVE  \A u \in Takes : doneNote'[u] => doneNote[u]
  BY DEF Waited

-----------------------------------------------------------------------------
LEMMA IdsStep ==
  ASSUME TypeOK, SetupInv, OrderInv, IdsApart, Next /\ ~raced'
  PROVE  IdsApart'
<1> USE DEF IdsApart, SetupInv, StartOwns, OrderInv, FlagSpeaks, OneInFlight, StopInFlight, SettingUp, Late, Takes, NoTake
<1>0. TextTyped
  BY DEF TypeOK, HandleOK, CallsOK, TasksOK, StopsOK, WorldOK, TextTyped
<1> USE <1>0 DEF TextTyped
<1>1. CASE StartCall
  BY <1>1 DEF StartCall, LockFree
<1>2. CASE StartExchange
  BY <1>2 DEF StartExchange, StartClears
<1>3. CASE StartConfigure
  BY <1>3 DEF StartConfigure, StartGivesUp, SetIdle
<1>4. CASE StartConnect
  BY <1>4 DEF StartConnect, StartGivesUp, SetIdle
<1>5. CASE StartCheckBeforeStore
  BY <1>5 DEF StartCheckBeforeStore, StartGivesUp, SetIdle
<1>6. CASE StartStore
  BY <1>6 DEF StartStore
<1>7. CASE StartCheckAfterStore
  BY <1>7 DEF StartCheckAfterStore, StartGivesUp, SetIdle
<1>8. CASE StartNumber
  BY <1>8 DEF StartNumber
<1>9. CASE StartArm
  BY <1>9 DEF StartArm, ArmDeadline
<1>10. CASE StartRecording
  BY <1>10 DEF StartRecording
<1>11. CASE StartSpawn
  BY <1>11 DEF StartSpawn
<1>12. CASE StopExchange
  BY <1>12 DEF StopExchange, LockFree
<1>13. ASSUME NEW t \in Takes, TaskStale(t) PROVE IdsApart'
  BY <1>13 DEF TaskStale, TaskOver
<1>14. ASSUME NEW t \in Takes, TaskCancelled(t) PROVE IdsApart'
  BY <1>14 DEF TaskCancelled, TaskOver
<1>15. ASSUME NEW t \in Takes, TaskText(t) PROVE IdsApart'
  BY <1>15 DEF TaskText, TaskGoes, ShouldFinalize
<1>16. ASSUME NEW t \in Takes, TaskFail(t) PROVE IdsApart'
  BY <1>16 DEF TaskFail, TaskGoes, TaskOver, ShouldFinalize
<1>17. ASSUME NEW t \in Takes, TaskDrain(t) PROVE IdsApart'
  BY <1>17 DEF TaskDrain, TaskGoes
<1>18. ASSUME NEW t \in Takes, TaskDisconnect(t) PROVE IdsApart'
  BY <1>18 DEF TaskDisconnect, TaskGoes, TaskOver, ShouldFinalize
<1>18a. ASSUME NEW t \in Takes, TaskAppends(t) PROVE IdsApart'
  BY <1>18a DEF TaskAppends, TaskGoes, TaskOver
<1>18b. ASSUME NEW t \in Takes, TaskLatches(t) PROVE IdsApart'
  BY <1>18b DEF TaskLatches, TaskOver
<1>19. ASSUME NEW t \in Takes, StopTakeOver(t) PROVE IdsApart'
  BY <1>19 DEF StopTakeOver
<1>20. ASSUME NEW t \in Takes, StopStale(t) PROVE IdsApart'
  BY <1>20 DEF StopStale, Waited, StopReturns, ClearSession
<1>21. ASSUME NEW t \in Takes, StopError(t) PROVE IdsApart'
  BY <1>21 DEF StopError, Waited, StopReturns, ClearSession, SetIdle
<1>22. ASSUME NEW t \in Takes, StopSilent(t) PROVE IdsApart'
  BY <1>22 DEF StopSilent, Waited, StopReturns, ClearSession, SetIdle
<1>23. ASSUME NEW t \in Takes, StopHears(t) PROVE IdsApart'
  BY <1>23 DEF StopHears, Waited
<1>24. ASSUME NEW t \in Takes, StopRoutes(t) PROVE IdsApart'
  BY <1>24 DEF StopRoutes, StopReturns, ClearSession, Goto
<1>25. ASSUME NEW t \in Takes, StopPolishes(t) PROVE IdsApart'
  BY <1>25 DEF StopPolishes, Goto
<1>26. ASSUME NEW t \in Takes, StreamChunk(t) PROVE IdsApart'
  BY <1>26 DEF StreamChunk
<1>26a. ASSUME NEW t \in Takes, StreamTyped(t) PROVE IdsApart'
  BY <1>26a DEF StreamTyped
<1>27. ASSUME NEW t \in Takes, StopPolished(t) PROVE IdsApart'
  BY <1>27 DEF StopPolished, Goto
<1>27a. ASSUME NEW t \in Takes, StopCompletes(t) PROVE IdsApart'
  BY <1>27a DEF StopCompletes, Goto
<1>28. ASSUME NEW t \in Takes, StopDelivers(t) PROVE IdsApart'
  BY <1>28 DEF StopDelivers, Goto
<1>29. ASSUME NEW t \in Takes, StopSaves(t) PROVE IdsApart'
  BY <1>29 DEF StopSaves, Goto
<1>30. ASSUME NEW t \in Takes, StopCloses(t) PROVE IdsApart'
  BY <1>30 DEF StopCloses, StopReturns, ClearSession, SetIdle
<1>31. ASSUME NEW t \in Takes, DeadlineWakes(t) PROVE IdsApart'
  BY <1>31 DEF DeadlineWakes
<1>32. ASSUME NEW t \in Takes, DeadlineStops(t) PROVE IdsApart'
  BY <1>12, <1>32 DEF DeadlineStops
<1>33. CASE AbortFlag
  BY <1>33 DEF AbortFlag
<1>34. CASE AbortRetire
  BY <1>34 DEF AbortRetire
<1>35. CASE AbortSilence
  BY <1>35 DEF AbortSilence, DropCapture
<1>36. CASE AbortNotify
  BY <1>36 DEF AbortNotify
<1>37. CASE AbortIdle
  BY <1>37 DEF AbortIdle, SetIdle
<1>38. CASE SwitchCheck
  BY <1>38 DEF SwitchCheck
<1>39. ASSUME NEW tg \in Targets, SwitchTarget(tg) PROVE IdsApart'
  BY <1>39 DEF SwitchTarget
<1>40. QED
  BY <1>1, <1>2, <1>3, <1>4, <1>5, <1>6, <1>7, <1>8, <1>9, <1>10, <1>11, <1>12, <1>13, <1>14,
     <1>15, <1>16, <1>17, <1>18, <1>18a, <1>18b, <1>19, <1>20, <1>21, <1>22, <1>23, <1>24, <1>25, <1>26, <1>26a, <1>27, <1>27a, <1>28,
     <1>29, <1>30, <1>31, <1>32, <1>33, <1>34, <1>35, <1>36, <1>37, <1>38, <1>39
     DEF Next, Start, StopCall, Stop, Task, Abort
-----------------------------------------------------------------------------
LEMMA TasksStep ==
  ASSUME TypeOK, SetupInv, OrderInv, IdsApart, SessionStands, TasksInOrder, Next /\ ~raced'
  PROVE  TasksInOrder'
<1> USE DEF TasksInOrder, Live, IdsApart, SessionStands, SetupInv, StartOwns, RecordingOwned, OrderInv, FlagSpeaks, OneInFlight, StopInFlight, SettingUp, Late, Takes, NoTake
<1>0. TextTyped
  BY DEF TypeOK, HandleOK, CallsOK, TasksOK, StopsOK, WorldOK, TextTyped
<1> USE <1>0 DEF TextTyped
<1>1. CASE StartCall
  BY <1>1 DEF StartCall, LockFree
<1>2. CASE StartExchange
  BY <1>2 DEF StartExchange, StartClears
<1>3. CASE StartConfigure
  BY <1>3 DEF StartConfigure, StartGivesUp, SetIdle
<1>4. CASE StartConnect
  BY <1>4 DEF StartConnect, StartGivesUp, SetIdle
<1>5. CASE StartCheckBeforeStore
  BY <1>5 DEF StartCheckBeforeStore, StartGivesUp, SetIdle
<1>6. CASE StartStore
  BY <1>6 DEF StartStore
<1>7. CASE StartCheckAfterStore
  BY <1>7 DEF StartCheckAfterStore, StartGivesUp, SetIdle
<1>8. CASE StartNumber
  BY <1>8 DEF StartNumber
<1>9. CASE StartArm
  BY <1>9 DEF StartArm, ArmDeadline
<1>10. CASE StartRecording
  BY <1>10 DEF StartRecording
<1>11. CASE StartSpawn
  BY <1>11 DEF StartSpawn
<1>12. CASE StopExchange
  BY <1>12 DEF StopExchange, LockFree
<1>13. ASSUME NEW t \in Takes, TaskStale(t) PROVE TasksInOrder'
  BY <1>13 DEF TaskStale, TaskOver
<1>14. ASSUME NEW t \in Takes, TaskCancelled(t) PROVE TasksInOrder'
  BY <1>14 DEF TaskCancelled, TaskOver
<1>15. ASSUME NEW t \in Takes, TaskText(t) PROVE TasksInOrder'
  BY <1>15 DEF TaskText, TaskGoes, ShouldFinalize
<1>16. ASSUME NEW t \in Takes, TaskFail(t) PROVE TasksInOrder'
  BY <1>16 DEF TaskFail, TaskGoes, TaskOver, ShouldFinalize
<1>17. ASSUME NEW t \in Takes, TaskDrain(t) PROVE TasksInOrder'
  BY <1>17 DEF TaskDrain, TaskGoes
<1>18. ASSUME NEW t \in Takes, TaskDisconnect(t) PROVE TasksInOrder'
  BY <1>18 DEF TaskDisconnect, TaskGoes, TaskOver, ShouldFinalize
<1>18a. ASSUME NEW t \in Takes, TaskAppends(t) PROVE TasksInOrder'
  BY <1>18a DEF TaskAppends, TaskGoes, TaskOver
<1>18b. ASSUME NEW t \in Takes, TaskLatches(t) PROVE TasksInOrder'
  BY <1>18b DEF TaskLatches, TaskOver
<1>19. ASSUME NEW t \in Takes, StopTakeOver(t) PROVE TasksInOrder'
  BY <1>19 DEF StopTakeOver
<1>20. ASSUME NEW t \in Takes, StopStale(t) PROVE TasksInOrder'
  <2>1. \A u \in Takes : doneNote'[u] => doneNote[u]
    <3>1. doneNote' = doneNote \/ doneNote' = [doneNote EXCEPT ![ctl[t]] = FALSE]
      BY <1>20 DEF StopStale, Waited
    <3>2. QED
      BY <3>1
  <2>2. sttSession' \in {sttSession, NoTake}
    BY <1>20 DEF StopStale, StopReturns, ClearSession
  <2>3. UNCHANGED <<takes, startPc, task, sid, failed>>
    BY <1>20 DEF StopStale
  <2>4. QED
    BY <2>1, <2>2, <2>3
<1>21. ASSUME NEW t \in Takes, StopError(t) PROVE TasksInOrder'
  <2>1. \A u \in Takes : doneNote'[u] => doneNote[u]
    BY <1>21, WaitedTakesNote DEF StopError
  <2>2. sttSession' \in {sttSession, NoTake}
    BY <1>21 DEF StopError, StopReturns, ClearSession
  <2>3. UNCHANGED <<takes, startPc, task, sid, failed>>
    BY <1>21 DEF StopError
  <2>4. QED
    BY <2>1, <2>2, <2>3
<1>22. ASSUME NEW t \in Takes, StopSilent(t) PROVE TasksInOrder'
  <2>1. \A u \in Takes : doneNote'[u] => doneNote[u]
    BY <1>22 DEF StopSilent, Waited
  <2>2. sttSession' \in {sttSession, NoTake}
    BY <1>22 DEF StopSilent, StopReturns, ClearSession
  <2>3. UNCHANGED <<takes, startPc, task, sid, failed>>
    BY <1>22 DEF StopSilent
  <2>4. QED
    BY <2>1, <2>2, <2>3
<1>23. ASSUME NEW t \in Takes, StopHears(t) PROVE TasksInOrder'
  BY <1>23 DEF StopHears, Waited
<1>24. ASSUME NEW t \in Takes, StopRoutes(t) PROVE TasksInOrder'
  BY <1>24 DEF StopRoutes, StopReturns, ClearSession, Goto
<1>25. ASSUME NEW t \in Takes, StopPolishes(t) PROVE TasksInOrder'
  BY <1>25 DEF StopPolishes, Goto
<1>26. ASSUME NEW t \in Takes, StreamChunk(t) PROVE TasksInOrder'
  BY <1>26 DEF StreamChunk
<1>26a. ASSUME NEW t \in Takes, StreamTyped(t) PROVE TasksInOrder'
  BY <1>26a DEF StreamTyped
<1>27. ASSUME NEW t \in Takes, StopPolished(t) PROVE TasksInOrder'
  BY <1>27 DEF StopPolished, Goto
<1>27a. ASSUME NEW t \in Takes, StopCompletes(t) PROVE TasksInOrder'
  BY <1>27a DEF StopCompletes, Goto
<1>28. ASSUME NEW t \in Takes, StopDelivers(t) PROVE TasksInOrder'
  BY <1>28 DEF StopDelivers, Goto
<1>29. ASSUME NEW t \in Takes, StopSaves(t) PROVE TasksInOrder'
  BY <1>29 DEF StopSaves, Goto
<1>30. ASSUME NEW t \in Takes, StopCloses(t) PROVE TasksInOrder'
  BY <1>30 DEF StopCloses, StopReturns, ClearSession, SetIdle
<1>31. ASSUME NEW t \in Takes, DeadlineWakes(t) PROVE TasksInOrder'
  BY <1>31 DEF DeadlineWakes
<1>32. ASSUME NEW t \in Takes, DeadlineStops(t) PROVE TasksInOrder'
  BY <1>12, <1>32 DEF DeadlineStops
<1>33. CASE AbortFlag
  BY <1>33 DEF AbortFlag
<1>34. CASE AbortRetire
  BY <1>34 DEF AbortRetire
<1>35. CASE AbortSilence
  BY <1>35 DEF AbortSilence, DropCapture
<1>36. CASE AbortNotify
  BY <1>36 DEF AbortNotify
<1>37. CASE AbortIdle
  BY <1>37 DEF AbortIdle, SetIdle
<1>38. CASE SwitchCheck
  BY <1>38 DEF SwitchCheck
<1>39. ASSUME NEW tg \in Targets, SwitchTarget(tg) PROVE TasksInOrder'
  BY <1>39 DEF SwitchTarget
<1>40. QED
  BY <1>1, <1>2, <1>3, <1>4, <1>5, <1>6, <1>7, <1>8, <1>9, <1>10, <1>11, <1>12, <1>13, <1>14,
     <1>15, <1>16, <1>17, <1>18, <1>18a, <1>18b, <1>19, <1>20, <1>21, <1>22, <1>23, <1>24, <1>25, <1>26, <1>26a, <1>27, <1>27a, <1>28,
     <1>29, <1>30, <1>31, <1>32, <1>33, <1>34, <1>35, <1>36, <1>37, <1>38, <1>39
     DEF Next, Start, StopCall, Stop, Task, Abort
-----------------------------------------------------------------------------
LEMMA WritersStep ==
  ASSUME TypeOK, SetupInv, OrderInv, IdsApart, TasksInOrder, SessionStands, WritersKnown, Next /\ ~raced'
  PROVE  WritersKnown'
<1> USE DEF WritersKnown, Live, IdsApart, TasksInOrder, SessionStands, SetupInv, StartOwns, RecordingOwned, StopOwnsSetup, OrderInv, FlagSpeaks, OneInFlight, StopInFlight, SettingUp, Late, Takes, NoTake
<1>0. TextTyped
  BY DEF TypeOK, HandleOK, CallsOK, TasksOK, StopsOK, WorldOK, TextTyped
<1> USE <1>0 DEF TextTyped
<1>1. CASE StartCall
  BY <1>1 DEF StartCall, LockFree
<1>2. CASE StartExchange
  BY <1>2 DEF StartExchange, StartClears
<1>3. CASE StartConfigure
  BY <1>3 DEF StartConfigure, StartGivesUp, SetIdle
<1>4. CASE StartConnect
  BY <1>4 DEF StartConnect, StartGivesUp, SetIdle
<1>5. CASE StartCheckBeforeStore
  BY <1>5 DEF StartCheckBeforeStore, StartGivesUp, SetIdle
<1>6. CASE StartStore
  BY <1>6 DEF StartStore
<1>7. CASE StartCheckAfterStore
  BY <1>7 DEF StartCheckAfterStore, StartGivesUp, SetIdle
<1>8. CASE StartNumber
  BY <1>8 DEF StartNumber
<1>9. CASE StartArm
  BY <1>9 DEF StartArm, ArmDeadline
<1>10. CASE StartRecording
  BY <1>10 DEF StartRecording
<1>11. CASE StartSpawn
  BY <1>11 DEF StartSpawn
<1>12. CASE StopExchange
  BY <1>12 DEF StopExchange, LockFree
<1>13. ASSUME NEW t \in Takes, TaskStale(t) PROVE WritersKnown'
  BY <1>13 DEF TaskStale, TaskOver
<1>14. ASSUME NEW t \in Takes, TaskCancelled(t) PROVE WritersKnown'
  BY <1>14 DEF TaskCancelled, TaskOver
<1>15. ASSUME NEW t \in Takes, TaskText(t) PROVE WritersKnown'
  BY <1>15 DEF TaskText, TaskGoes, ShouldFinalize
<1>16. ASSUME NEW t \in Takes, TaskFail(t) PROVE WritersKnown'
  BY <1>16 DEF TaskFail, TaskGoes, TaskOver, ShouldFinalize
<1>17. ASSUME NEW t \in Takes, TaskDrain(t) PROVE WritersKnown'
  BY <1>17 DEF TaskDrain, TaskGoes
<1>18. ASSUME NEW t \in Takes, TaskDisconnect(t) PROVE WritersKnown'
  BY <1>18 DEF TaskDisconnect, TaskGoes, TaskOver, ShouldFinalize
<1>18a. ASSUME NEW t \in Takes, TaskAppends(t) PROVE WritersKnown'
  BY <1>18a DEF TaskAppends, TaskGoes, TaskOver
<1>18b. ASSUME NEW t \in Takes, TaskLatches(t) PROVE WritersKnown'
  BY <1>18b DEF TaskLatches, TaskOver
<1>19. ASSUME NEW t \in Takes, StopTakeOver(t) PROVE WritersKnown'
  BY <1>19 DEF StopTakeOver
<1>20. ASSUME NEW t \in Takes, StopStale(t) PROVE WritersKnown'
  <2>1. Waited(t)
    BY <1>20 DEF StopStale
  <2>2. state # "Recording" /\ stop' = [stop EXCEPT ![t] = "ended"] /\ UNCHANGED <<takes, task, activeSttId, sid>>
    BY <1>20, <2>1, WaitedOwn DEF StopStale, StopReturns
  <2>3. state' # "Recording"
    BY <1>20, <2>2 DEF StopStale, SetIdle
  <2>4. timedOut \subseteq timedOut' /\ (doneNote[t] \/ t \in timedOut')
    <3>1. CASE doneNote[t] /\ timedOut' = timedOut
      BY <3>1
    <3>2. CASE timedOut' = timedOut \cup {t}
      BY <3>2
    <3>3. QED
      BY <2>1, <3>1, <3>2, WaitedOwn
  <2>5. \A u \in Takes : doneNote'[u] => doneNote[u]
    BY <2>1, WaitedTakesNote
  <2>6. \A u \in Takes : u # t => stop'[u] = stop[u]
    BY <2>2
  <2>7. ASSUME NEW u \in Takes, Live(u)', activeSttId' = sid'[u]
        PROVE  u \in timedOut' \/ stop'[u] \in {"capturing", "waiting"}
    <3>1. Live(u) /\ activeSttId = sid[u]
      BY <2>2, <2>7
    <3>2. u \in timedOut \/ stop[u] \in {"capturing", "waiting"}
      BY <2>2, <3>1
    <3>3. CASE u = t
      BY <2>4, <3>1, <3>3
    <3>4. CASE u # t
      BY <2>4, <2>6, <3>2, <3>4
    <3>5. QED
      BY <3>3, <3>4
  <2>8. ASSUME NEW u \in Takes, doneNote'[u] PROVE ~Live(u)' \/ activeSttId' # sid'[u]
    BY <2>2, <2>5, <2>8
  <2>9. QED
    BY <2>7, <2>8
<1>21. ASSUME NEW t \in Takes, StopError(t) PROVE WritersKnown'
  <2>1. Waited(t)
    BY <1>21 DEF StopError
  <2>2. state # "Recording" /\ stop' = [stop EXCEPT ![t] = "ended"] /\ UNCHANGED <<takes, task, activeSttId, sid>>
    BY <1>21, <2>1, WaitedOwn DEF StopError, StopReturns
  <2>3. state' # "Recording"
    BY <1>21, <2>2 DEF StopError, SetIdle
  <2>4. timedOut \subseteq timedOut' /\ (doneNote[t] \/ t \in timedOut')
    <3>1. CASE doneNote[t] /\ timedOut' = timedOut
      BY <3>1
    <3>2. CASE timedOut' = timedOut \cup {t}
      BY <3>2
    <3>3. QED
      BY <2>1, <3>1, <3>2, WaitedOwn
  <2>5. \A u \in Takes : doneNote'[u] => doneNote[u]
    BY <2>1, WaitedTakesNote
  <2>6. \A u \in Takes : u # t => stop'[u] = stop[u]
    BY <2>2
  <2>7. ASSUME NEW u \in Takes, Live(u)', activeSttId' = sid'[u]
        PROVE  u \in timedOut' \/ stop'[u] \in {"capturing", "waiting"}
    <3>1. Live(u) /\ activeSttId = sid[u]
      BY <2>2, <2>7
    <3>2. u \in timedOut \/ stop[u] \in {"capturing", "waiting"}
      BY <2>2, <3>1
    <3>3. CASE u = t
      BY <2>4, <3>1, <3>3
    <3>4. CASE u # t
      BY <2>4, <2>6, <3>2, <3>4
    <3>5. QED
      BY <3>3, <3>4
  <2>8. ASSUME NEW u \in Takes, doneNote'[u] PROVE ~Live(u)' \/ activeSttId' # sid'[u]
    BY <2>2, <2>5, <2>8
  <2>9. QED
    BY <2>7, <2>8
<1>22. ASSUME NEW t \in Takes, StopSilent(t) PROVE WritersKnown'
  <2>1. Waited(t)
    BY <1>22 DEF StopSilent
  <2>2. state # "Recording" /\ stop' = [stop EXCEPT ![t] = "ended"] /\ UNCHANGED <<takes, task, activeSttId, sid>>
    BY <1>22, <2>1, WaitedOwn DEF StopSilent, StopReturns
  <2>3. state' # "Recording"
    BY <1>22, <2>2 DEF StopSilent, SetIdle
  <2>4. timedOut \subseteq timedOut' /\ (doneNote[t] \/ t \in timedOut')
    <3>1. CASE doneNote[t] /\ timedOut' = timedOut
      BY <3>1
    <3>2. CASE timedOut' = timedOut \cup {t}
      BY <3>2
    <3>3. QED
      BY <2>1, <3>1, <3>2, WaitedOwn
  <2>5. \A u \in Takes : doneNote'[u] => doneNote[u]
    BY <2>1, WaitedTakesNote
  <2>6. \A u \in Takes : u # t => stop'[u] = stop[u]
    BY <2>2
  <2>7. ASSUME NEW u \in Takes, Live(u)', activeSttId' = sid'[u]
        PROVE  u \in timedOut' \/ stop'[u] \in {"capturing", "waiting"}
    <3>1. Live(u) /\ activeSttId = sid[u]
      BY <2>2, <2>7
    <3>2. u \in timedOut \/ stop[u] \in {"capturing", "waiting"}
      BY <2>2, <3>1
    <3>3. CASE u = t
      BY <2>4, <3>1, <3>3
    <3>4. CASE u # t
      BY <2>4, <2>6, <3>2, <3>4
    <3>5. QED
      BY <3>3, <3>4
  <2>8. ASSUME NEW u \in Takes, doneNote'[u] PROVE ~Live(u)' \/ activeSttId' # sid'[u]
    BY <2>2, <2>5, <2>8
  <2>9. QED
    BY <2>7, <2>8
<1>23. ASSUME NEW t \in Takes, StopHears(t) PROVE WritersKnown'
  <2>1. Waited(t)
    BY <1>23 DEF StopHears
  <2>2. state # "Recording" /\ stop' = [stop EXCEPT ![t] = "heard"] /\ UNCHANGED <<takes, task, activeSttId, sid>>
    BY <1>23, <2>1, WaitedOwn DEF StopHears
  <2>3. state' # "Recording"
    BY <1>23, <2>2 DEF StopHears
  <2>4. timedOut \subseteq timedOut' /\ (doneNote[t] \/ t \in timedOut')
    <3>1. CASE doneNote[t] /\ timedOut' = timedOut
      BY <3>1
    <3>2. CASE timedOut' = timedOut \cup {t}
      BY <3>2
    <3>3. QED
      BY <2>1, <3>1, <3>2, WaitedOwn
  <2>5. \A u \in Takes : doneNote'[u] => doneNote[u]
    BY <2>1, WaitedTakesNote
  <2>6. \A u \in Takes : u # t => stop'[u] = stop[u]
    BY <2>2
  <2>7. ASSUME NEW u \in Takes, Live(u)', activeSttId' = sid'[u]
        PROVE  u \in timedOut' \/ stop'[u] \in {"capturing", "waiting"}
    <3>1. Live(u) /\ activeSttId = sid[u]
      BY <2>2, <2>7
    <3>2. u \in timedOut \/ stop[u] \in {"capturing", "waiting"}
      BY <2>2, <3>1
    <3>3. CASE u = t
      BY <2>4, <3>1, <3>3
    <3>4. CASE u # t
      BY <2>4, <2>6, <3>2, <3>4
    <3>5. QED
      BY <3>3, <3>4
  <2>8. ASSUME NEW u \in Takes, doneNote'[u] PROVE ~Live(u)' \/ activeSttId' # sid'[u]
    BY <2>2, <2>5, <2>8
  <2>9. QED
    BY <2>7, <2>8
<1>24. ASSUME NEW t \in Takes, StopRoutes(t) PROVE WritersKnown'
  BY <1>24 DEF StopRoutes, StopReturns, ClearSession, Goto
<1>25. ASSUME NEW t \in Takes, StopPolishes(t) PROVE WritersKnown'
  BY <1>25 DEF StopPolishes, Goto
<1>26. ASSUME NEW t \in Takes, StreamChunk(t) PROVE WritersKnown'
  BY <1>26 DEF StreamChunk
<1>26a. ASSUME NEW t \in Takes, StreamTyped(t) PROVE WritersKnown'
  BY <1>26a DEF StreamTyped
<1>27. ASSUME NEW t \in Takes, StopPolished(t) PROVE WritersKnown'
  BY <1>27 DEF StopPolished, Goto
<1>27a. ASSUME NEW t \in Takes, StopCompletes(t) PROVE WritersKnown'
  BY <1>27a DEF StopCompletes, Goto
<1>28. ASSUME NEW t \in Takes, StopDelivers(t) PROVE WritersKnown'
  BY <1>28 DEF StopDelivers, Goto
<1>29. ASSUME NEW t \in Takes, StopSaves(t) PROVE WritersKnown'
  BY <1>29 DEF StopSaves, Goto
<1>30. ASSUME NEW t \in Takes, StopCloses(t) PROVE WritersKnown'
  BY <1>30 DEF StopCloses, StopReturns, ClearSession, SetIdle
<1>31. ASSUME NEW t \in Takes, DeadlineWakes(t) PROVE WritersKnown'
  BY <1>31 DEF DeadlineWakes
<1>32. ASSUME NEW t \in Takes, DeadlineStops(t) PROVE WritersKnown'
  BY <1>12, <1>32 DEF DeadlineStops
<1>33. CASE AbortFlag
  BY <1>33 DEF AbortFlag
<1>34. CASE AbortRetire
  BY <1>34 DEF AbortRetire
<1>35. CASE AbortSilence
  BY <1>35 DEF AbortSilence, DropCapture
<1>36. CASE AbortNotify
  BY <1>36 DEF AbortNotify
<1>37. CASE AbortIdle
  BY <1>37 DEF AbortIdle, SetIdle
<1>38. CASE SwitchCheck
  BY <1>38 DEF SwitchCheck
<1>39. ASSUME NEW tg \in Targets, SwitchTarget(tg) PROVE WritersKnown'
  BY <1>39 DEF SwitchTarget
<1>40. QED
  BY <1>1, <1>2, <1>3, <1>4, <1>5, <1>6, <1>7, <1>8, <1>9, <1>10, <1>11, <1>12, <1>13, <1>14,
     <1>15, <1>16, <1>17, <1>18, <1>18a, <1>18b, <1>19, <1>20, <1>21, <1>22, <1>23, <1>24, <1>25, <1>26, <1>26a, <1>27, <1>27a, <1>28,
     <1>29, <1>30, <1>31, <1>32, <1>33, <1>34, <1>35, <1>36, <1>37, <1>38, <1>39
     DEF Next, Start, StopCall, Stop, Task, Abort
-----------------------------------------------------------------------------
\* Whoever retires a session, or raises the flag, overtakes those about to write.
LEMMA MayStep ==
  ASSUME TypeOK, WritersMay, Next
  PROVE  WritersMay'
<1> USE DEF WritersMay, ShouldFinalize
<1>0. TextTyped
  BY DEF TypeOK, HandleOK, CallsOK, TasksOK, StopsOK, WorldOK, TextTyped
<1> USE <1>0 DEF TextTyped
<1>1. CASE StartNumber \/ AbortFlag \/ AbortRetire
  BY <1>1 DEF StartNumber, AbortFlag, AbortRetire, Overtakes
<1>2. CASE Start /\ ~StartNumber
  <2>1. UNCHANGED <<activeSttId, sid, overtaken>> /\ (abortFlag' => abortFlag)
    BY <1>2 DEF Start, StartCall, StartExchange, StartClears, StartConfigure, StartConnect, StartCheckBeforeStore,
                StartStore, StartCheckAfterStore, StartArm, StartRecording, StartSpawn
  <2>2. \A t \in Takes : task'[t] = task[t] \/ task'[t] = "running"
    BY <1>2 DEF Start, StartCall, StartExchange, StartConfigure, StartConnect, StartCheckBeforeStore,
                StartStore, StartCheckAfterStore, StartArm, StartRecording, StartSpawn
  <2>3. QED
    BY <2>1, <2>2
<1>3. CASE StopCall \/ AbortSilence \/ AbortNotify \/ AbortIdle \/ SwitchCheck \/ \E tg \in Targets : SwitchTarget(tg)
  <2>1. UNCHANGED <<abortFlag, activeSttId, sid, task, overtaken>>
    BY <1>3 DEF StopCall, StopExchange, AbortSilence, AbortNotify, AbortIdle, SwitchCheck, SwitchTarget
  <2>2. QED
    BY <2>1
<1>4. ASSUME NEW t \in Takes, Task(t) PROVE WritersMay'
  <2>1. UNCHANGED <<abortFlag, activeSttId, sid, overtaken>>
    BY <1>4 DEF Task, TaskStale, TaskCancelled, TaskText, TaskFail, TaskDrain, TaskDisconnect, TaskAppends, TaskLatches
  <2>2. \A u \in Takes : u # t => task'[u] = task[u]
    BY <1>4 DEF Task, TaskStale, TaskCancelled, TaskText, TaskFail, TaskDrain, TaskDisconnect, TaskAppends, TaskLatches,
                TaskGoes, TaskOver
  <2>3. task'[t] \in {"appending", "closing", "latching"} => ShouldFinalize(t)
    BY <1>4 DEF Task, TaskStale, TaskCancelled, TaskText, TaskFail, TaskDrain, TaskDisconnect, TaskAppends, TaskLatches,
                TaskGoes, TaskOver
  <2>4. QED
    BY <2>1, <2>2, <2>3
<1>5. ASSUME NEW t \in Takes, Stop(t) \/ DeadlineWakes(t) \/ DeadlineStops(t) PROVE WritersMay'
  <2>1. UNCHANGED <<abortFlag, activeSttId, sid, task, overtaken>>
    BY <1>5 DEF Stop, StopTakeOver, StopStale, StopError, StopSilent, StopHears, StopRoutes, StopPolishes, StreamChunk,
                StreamTyped, StopPolished, StopCompletes, StopDelivers, StopSaves, StopCloses, DeadlineWakes,
                DeadlineStops, StopExchange
  <2>2. QED
    BY <2>1
<1>6. QED
  BY <1>1, <1>2, <1>3, <1>4, <1>5 DEF Next, Abort

LEMMA TextStep ==
  ASSUME TypeOK, SetupInv, OrderInv, IdsApart, TasksInOrder, WritersMay, WritersKnown, SessionStands, TextOwned, Next /\ ~raced'
  PROVE  TextOwned'
<1> USE DEF TextOwned, Live, IdsApart, TasksInOrder, WritersKnown, SessionStands, SetupInv, StopOwnsSetup, OrderInv, FlagSpeaks, OneInFlight, StopInFlight, SettingUp, Late, Takes, NoTake
<1>0. TextTyped
  BY DEF TypeOK, HandleOK, CallsOK, TasksOK, StopsOK, WorldOK, TextTyped
<1> USE <1>0 DEF TextTyped
<1>1. CASE StartCall
  BY <1>1 DEF StartCall, LockFree
<1>2. CASE StartExchange
  <2>1. CASE state = "Idle"
    <3>1. accumulated' = {} /\ takes' = takes + 1 /\ state' = "Preparing"
          /\ UNCHANGED <<abortFlag, heard, timedOut, overtaken, failed, stop>>
      BY <1>2, <2>1 DEF StartExchange, StartClears
    <3>2. QED
      BY <2>1, <3>1
  <2>2. CASE state # "Idle"
    <3>1. UNCHANGED <<accumulated, sttError, takes, state, abortFlag, heard, timedOut, overtaken, failed, stop>>
      BY <1>2, <2>2 DEF StartExchange
    <3>2. QED
      BY <3>1
  <2>3. QED
    BY <2>1, <2>2
<1>3. CASE StartConfigure
  BY <1>3 DEF StartConfigure, StartGivesUp, SetIdle
<1>4. CASE StartConnect
  BY <1>4 DEF StartConnect, StartGivesUp, SetIdle
<1>5. CASE StartCheckBeforeStore
  BY <1>5 DEF StartCheckBeforeStore, StartGivesUp, SetIdle
<1>6. CASE StartStore
  BY <1>6 DEF StartStore
<1>7. CASE StartCheckAfterStore
  BY <1>7 DEF StartCheckAfterStore, StartGivesUp, SetIdle
<1>8. CASE StartNumber
  BY <1>8 DEF StartNumber, Overtakes
<1>9. CASE StartArm
  BY <1>9 DEF StartArm, ArmDeadline
<1>10. CASE StartRecording
  BY <1>10 DEF StartRecording
<1>11. CASE StartSpawn
  BY <1>11 DEF StartSpawn
<1>12. CASE StopExchange
  BY <1>12 DEF StopExchange, LockFree
<1>13. ASSUME NEW t \in Takes, TaskStale(t) PROVE TextOwned'
  BY <1>13 DEF TaskStale, TaskOver
<1>14. ASSUME NEW t \in Takes, TaskCancelled(t) PROVE TextOwned'
  BY <1>14 DEF TaskCancelled, TaskOver
<1>15. ASSUME NEW t \in Takes, TaskText(t) PROVE TextOwned'
  BY <1>15 DEF TaskText
<1>16. ASSUME NEW t \in Takes, TaskFail(t) PROVE TextOwned'
  BY <1>16 DEF TaskFail
<1>17. ASSUME NEW t \in Takes, TaskDrain(t) PROVE TextOwned'
  BY <1>17 DEF TaskDrain
<1>18. ASSUME NEW t \in Takes, TaskDisconnect(t) PROVE TextOwned'
  BY <1>18 DEF TaskDisconnect
<1>18a. ASSUME NEW t \in Takes, TaskAppends(t) PROVE TextOwned'
  <2>1. /\ Live(t) /\ accumulated' = accumulated \cup {t}
        /\ UNCHANGED <<sttError, abortFlag, timedOut, failed, heard, takes, state, stop>>
    BY <1>18a DEF TaskAppends
  <2>2. ShouldFinalize(t) => t \in timedOut \cup {takes}
    BY <2>1 DEF ShouldFinalize
  <2>3. overtaken' = overtaken /\ (~ShouldFinalize(t) => t \in overtaken)
    BY <1>18a DEF TaskAppends, WritersMay
  <2>4. accumulated' \subseteq timedOut' \cup overtaken' \cup {takes'}
    BY <2>1, <2>2, <2>3
  <2>5. \A u \in Takes : heard'[u] \subseteq {u} \cup timedOut' \cup overtaken'
    BY <2>1, <2>3
  <2>6. QED
    BY <2>1, <2>3, <2>4, <2>5
<1>18b. ASSUME NEW t \in Takes, TaskLatches(t) PROVE TextOwned'
  <2>1. /\ task[t] = "latching" /\ sttError' = t /\ failed' = failed \cup {t}
        /\ UNCHANGED <<accumulated, abortFlag, timedOut, heard, takes, state, stop>>
    BY <1>18b DEF TaskLatches
  <2>2. overtaken' = overtaken /\ (~ShouldFinalize(t) => t \in overtaken)
    BY <1>18b DEF TaskLatches, WritersMay
  <2>3. accumulated' \subseteq timedOut' \cup overtaken' \cup {takes'}
    BY <2>1, <2>2
  <2>4. \A u \in Takes : heard'[u] \subseteq {u} \cup timedOut' \cup overtaken'
    BY <2>1, <2>2
  <2>5. ASSUME ~abortFlag, NEW u \in failed', u # t,
               (u = takes /\ state = "Recording") \/ stop[u] \in {"capturing", "waiting"}
        PROVE  t \in overtaken'
    <3>1. u \in Takes /\ activeSttId = sid[u]
      BY <2>1, <2>5
    <3>2. sid[t] # 0 /\ sid[t] # sid[u]
      BY <2>1, <2>5, <3>1
    <3>3. QED
      BY <2>2, <3>1, <3>2 DEF ShouldFinalize
  <2>6. ~abortFlag' => \A u \in failed' :
          (u = takes' /\ state' = "Recording") \/ stop'[u] \in {"capturing", "waiting"} =>
            sttError' = u \/ sttError' \in overtaken' \ {u}
    BY <2>1, <2>5
  <2>7. QED
    BY <2>3, <2>4, <2>6
<1>19. ASSUME NEW t \in Takes, StopTakeOver(t) PROVE TextOwned'
  BY <1>19 DEF StopTakeOver
<1>20. ASSUME NEW t \in Takes, StopStale(t) PROVE TextOwned'
  BY <1>20 DEF StopStale, Waited, StopReturns, ClearSession
<1>21. ASSUME NEW t \in Takes, StopError(t) PROVE TextOwned'
  <2>1. Waited(t) /\ stop' = [stop EXCEPT ![t] = "ended"] /\ state' = "Idle"
        /\ UNCHANGED <<accumulated, heard, abortFlag, overtaken, failed, takes>>
    BY <1>21 DEF StopError, StopReturns, SetIdle
  <2>2. timedOut \subseteq timedOut'
    <3>1. timedOut' = timedOut \/ timedOut' = timedOut \cup {t}
      BY <2>1, WaitedOwn
    <3>2. QED
      BY <3>1
  <2>3. ASSUME NEW u \in Takes PROVE stop'[u] \notin {"capturing", "waiting"}
    <3>1. stop[t] = "waiting"
      BY <2>1, WaitedOwn
    <3>2. CASE u = t
      BY <2>1, <3>2
    <3>3. CASE u # t
      <4>1. stop[u] \notin {"capturing", "waiting"}
        BY <3>1, <3>3
      <4>2. QED
        BY <2>1, <3>3, <4>1
    <3>4. QED
      BY <3>2, <3>3
  <2>4. QED
    BY <2>1, <2>2, <2>3
<1>22. ASSUME NEW t \in Takes, StopSilent(t) PROVE TextOwned'
  BY <1>22 DEF StopSilent, Waited, StopReturns, ClearSession, SetIdle
<1>23. ASSUME NEW t \in Takes, StopHears(t) PROVE TextOwned'
  <2>1. heard' = [heard EXCEPT ![t] = accumulated] /\ timedOut \subseteq timedOut' /\ t = takes
    BY <1>23 DEF StopHears, Waited
  <2>2. stop' = [stop EXCEPT ![t] = "heard"]
        /\ UNCHANGED <<abortFlag, accumulated, sttError, overtaken, failed, takes, state>>
    BY <1>23 DEF StopHears
  <2>3. ASSUME NEW u \in Takes PROVE heard'[u] \subseteq {u} \cup timedOut' \cup overtaken'
    <3>1. heard[u] \subseteq {u} \cup timedOut \cup overtaken
          /\ accumulated \subseteq timedOut \cup overtaken \cup {t}
      BY <2>1
    <3>2. heard'[u] = IF u = t THEN accumulated ELSE heard[u]
      BY <2>1
    <3>3. CASE u = t
      <4>1. heard'[u] = accumulated /\ accumulated \subseteq timedOut \cup overtaken \cup {u}
        BY <3>1, <3>2, <3>3
      <4>2. QED
        BY <2>1, <2>2, <4>1
    <3>4. CASE u # t
      <4>1. heard'[u] = heard[u]
        BY <3>2, <3>4
      <4>2. QED
        BY <2>1, <2>2, <3>1, <4>1
    <3>5. QED
      BY <3>3, <3>4
  <2>4. QED
    BY <2>1, <2>2, <2>3
<1>24. ASSUME NEW t \in Takes, StopRoutes(t) PROVE TextOwned'
  BY <1>24 DEF StopRoutes, StopReturns, ClearSession, Goto
<1>25. ASSUME NEW t \in Takes, StopPolishes(t) PROVE TextOwned'
  BY <1>25 DEF StopPolishes, Goto
<1>26. ASSUME NEW t \in Takes, StreamChunk(t) PROVE TextOwned'
  BY <1>26 DEF StreamChunk
<1>26a. ASSUME NEW t \in Takes, StreamTyped(t) PROVE TextOwned'
  BY <1>26a DEF StreamTyped
<1>27. ASSUME NEW t \in Takes, StopPolished(t) PROVE TextOwned'
  BY <1>27 DEF StopPolished, Goto
<1>27a. ASSUME NEW t \in Takes, StopCompletes(t) PROVE TextOwned'
  BY <1>27a DEF StopCompletes, Goto
<1>28. ASSUME NEW t \in Takes, StopDelivers(t) PROVE TextOwned'
  BY <1>28 DEF StopDelivers, Goto
<1>29. ASSUME NEW t \in Takes, StopSaves(t) PROVE TextOwned'
  BY <1>29 DEF StopSaves, Goto
<1>30. ASSUME NEW t \in Takes, StopCloses(t) PROVE TextOwned'
  BY <1>30 DEF StopCloses, StopReturns, ClearSession, SetIdle
<1>31. ASSUME NEW t \in Takes, DeadlineWakes(t) PROVE TextOwned'
  BY <1>31 DEF DeadlineWakes
<1>32. ASSUME NEW t \in Takes, DeadlineStops(t) PROVE TextOwned'
  <2>1. CASE state = "Recording"
    BY <1>12, <1>32, <2>1 DEF DeadlineStops
  <2>2. CASE state # "Recording"
    <3>1. UNCHANGED <<accumulated, sttError, takes, state, abortFlag, heard, timedOut, overtaken, failed, stop,
                      activeSttId, sid, task, ctl, startPc>>
      BY <1>32, <2>2 DEF DeadlineStops
    <3>2. QED
      BY <3>1
  <2>3. QED
    BY <2>1, <2>2
<1>33. CASE AbortFlag
  BY <1>33 DEF AbortFlag, Overtakes
<1>34. CASE AbortRetire
  BY <1>34 DEF AbortRetire, Overtakes
<1>35. CASE AbortSilence
  BY <1>35 DEF AbortSilence, DropCapture
<1>36. CASE AbortNotify
  BY <1>36 DEF AbortNotify
<1>37. CASE AbortIdle
  BY <1>37 DEF AbortIdle, SetIdle
<1>38. CASE SwitchCheck
  BY <1>38 DEF SwitchCheck
<1>39. ASSUME NEW tg \in Targets, SwitchTarget(tg) PROVE TextOwned'
  BY <1>39 DEF SwitchTarget
<1>40. QED
  BY <1>1, <1>2, <1>3, <1>4, <1>5, <1>6, <1>7, <1>8, <1>9, <1>10, <1>11, <1>12, <1>13, <1>14,
     <1>15, <1>16, <1>17, <1>18, <1>18a, <1>18b, <1>19, <1>20, <1>21, <1>22, <1>23, <1>24, <1>25, <1>26, <1>26a, <1>27, <1>27a, <1>28,
     <1>29, <1>30, <1>31, <1>32, <1>33, <1>34, <1>35, <1>36, <1>37, <1>38, <1>39
     DEF Next, Start, StopCall, Stop, Task, Abort
-----------------------------------------------------------------------------
LEMMA TextInit == Init => TextInv
  BY DEF Init, TextInv, IdsApart, TasksInOrder, WritersMay, ShouldFinalize, WritersKnown, Live, TextOwned, SettingUp, NoTake, Takes

\* Whose text is where, in orderly behaviours.
THEOREM TextOwnership == OrderlySpec => []TextInv
  <1>1. TypeOK /\ SetupInv /\ OrderInv /\ SetUpInv /\ TextInv /\ [Next /\ ~raced']_vars => TextInv'
    <2>1. ASSUME TypeOK, SetupInv, OrderInv, SetUpInv, TextInv, Next /\ ~raced' PROVE TextInv'
      BY <2>1, IdsStep, TasksStep, MayStep, WritersStep, TextStep DEF SetUpInv, TextInv
    <2>2. ASSUME TextInv, UNCHANGED vars PROVE TextInv'
      BY <2>2 DEF TextInv, IdsApart, TasksInOrder, WritersMay, ShouldFinalize, WritersKnown, Live, TextOwned
    <2>3. QED
      BY <2>1, <2>2
  <1>2. QED
    BY <1>1, TextInit, OrderlyOwnership, OrderlyIsSpec, TypeCorrect, Ownership, PTL DEF OrderlySpec

\* The raw text of a dictation is its own, but for tasks that outlived their
\* finalize timeout or were overtaken between their look and their write.
THEOREM TranscriptsAreOwn == OrderlySpec => []TranscriptIsOwnUnlessLate
  <1>1. TextInv => TranscriptIsOwnUnlessLate
    BY DEF TextInv, TextOwned, TranscriptIsOwnUnlessLate
  <1>2. QED
    BY <1>1, TextOwnership, PTL

\* A transcript is not used once its session has failed, unless an overtaken task
\* has replaced the error.
THEOREM FailuresAreNotHeard == OrderlySpec => FailedIsNotHeard
  <1>1. TypeOK /\ SetupInv /\ TextInv /\ [Next /\ ~raced']_vars
        => [raced \/ \A t \in Takes : heard'[t] # heard[t] /\ t \in failed => sttError \in overtaken \ {t}]_vars
    <2> SUFFICES ASSUME TypeOK, SetupInv, TextInv, Next, NEW t \in Takes, heard'[t] # heard[t], t \in failed
                 PROVE  sttError \in overtaken \ {t}
      OBVIOUS
    <2>1. PICK u \in Takes : StopHears(u)
      <3>1. CASE Start \/ StopCall \/ AbortFlag \/ Abort \/ SwitchCheck \/ \E tg \in Targets : SwitchTarget(tg)
        BY <3>1 DEF Start, StartCall, StartExchange, StartConfigure, StartConnect, StartCheckBeforeStore, StartStore,
              StartCheckAfterStore, StartNumber, StartArm, StartRecording, StartSpawn, StopCall, StopExchange,
              AbortFlag, Abort, AbortRetire, AbortSilence, AbortNotify, AbortIdle, SwitchCheck, SwitchTarget
      <3>2. ASSUME NEW u \in Takes, Task(u) \/ DeadlineWakes(u) \/ DeadlineStops(u) PROVE FALSE
        BY <3>2 DEF Task, TaskStale, TaskCancelled, TaskText, TaskFail, TaskDrain, TaskDisconnect, TaskAppends, TaskLatches,
              DeadlineWakes, DeadlineStops, StopExchange
      <3>3. ASSUME NEW u \in Takes, Stop(u) PROVE StopHears(u)
        BY <3>3 DEF Stop, StopTakeOver, StopStale, StopError, StopSilent, StopRoutes, StopPolishes, StreamChunk, StreamTyped,
              StopPolished, StopCompletes, StopDelivers, StopSaves, StopCloses
      <3>4. QED
        BY <3>1, <3>2, <3>3 DEF Next
    <2>2. u = t
      BY <2>1 DEF StopHears, TypeOK, StopsOK
    <2>3. ctl[t] = t /\ stop[t] = "waiting" /\ ~OwnError(t) /\ ~abortFlag
      BY <2>1, <2>2, WaitedOwn DEF StopHears
    <2>4. QED
      BY <2>3 DEF OwnError, TextInv, TextOwned, Takes, NoTake
  <1>2. QED
    BY <1>1, TextOwnership, OrderlyIsSpec, TypeCorrect, Ownership, PTL DEF OrderlySpec, FailedIsNotHeard
-----------------------------------------------------------------------------
(* Liveness.  That a step is ENABLED is a state predicate, which TLC        *)
(* evaluates and the provers do not: the theorems below take NothingStuck   *)
(* as a hypothesis, and derive from it and from fairness that whatever      *)
(* begins, ends.                                                            *)

\* Where a stop() that stands at pc goes next, and a start().
StopAfter(pc) ==
  CASE pc = "capturing" -> {"waiting"}
    [] pc = "waiting"   -> {"heard", "ended"}
    [] pc = "heard"     -> {"routed", "ended"}
    [] pc = "routed"    -> {"polishing", "executing", "saving"}
    [] pc = "polishing" -> {"completing", "executing", "saving"}
    [] pc = "completing" -> {"saving"}
    [] pc = "executing" -> {"saving"}
    [] pc = "saving"    -> {"closing"}
    [] pc = "closing"   -> {"ended"}

StartAfter(pc) ==
  CASE pc = "called"     -> {"setup", "none"}
    [] pc = "setup"      -> {"connecting", "none"}
    [] pc = "connecting" -> {"ready", "none"}
    [] pc = "ready"      -> {"storing", "none"}
    [] pc = "storing"    -> {"stored"}
    [] pc = "stored"     -> {"numbering", "none"}
    [] pc = "numbering"  -> {"arming"}
    [] pc = "arming"     -> {"numbered"}
    [] pc = "numbered"   -> {"recording"}
    [] pc = "recording"  -> {"none"}

\* The streaming worker has not typed yet, or is typing.
Fresh(t)  == worker[t] = "idle" /\ given[t] = "nothing"
Typing(t) == worker[t] = "typing"

\* A step of stop() moves it on, or its worker, once for the chunk it types.
LEMMA StopGoesOn ==
  ASSUME NEW t \in Takes, TypeOK, Stop(t)
  PROVE  \/ stop'[t] \in StopAfter(stop[t]) /\ \A u \in Takes \ {t} : stop'[u] = stop[u]
         \/ /\ stop[t] = "polishing" /\ stop' = stop
            /\ \/ Fresh(t) /\ Typing(t)'
               \/ Typing(t) /\ ~Fresh(t)' /\ ~Typing(t)'
<1> USE DEF StopAfter, TypeOK, StopsOK
<1>1. CASE StopTakeOver(t)
  BY <1>1 DEF StopTakeOver
<1>2. CASE StopStale(t) \/ StopError(t) \/ StopSilent(t) \/ StopHears(t)
  BY <1>2 DEF StopStale, StopError, StopSilent, StopHears, Waited, StopReturns
<1>3. CASE StopRoutes(t) \/ StopCloses(t)
  BY <1>3 DEF StopRoutes, StopCloses, StopReturns, Goto
<1>4. CASE StopPolishes(t) \/ StopPolished(t) \/ StopCompletes(t) \/ StopDelivers(t) \/ StopSaves(t)
  BY <1>4 DEF StopPolishes, StopPolished, StopCompletes, StopDelivers, StopSaves, Goto
<1>5. CASE StreamChunk(t)
  BY <1>5 DEF StreamChunk, Fresh, Typing
<1>6. CASE StreamTyped(t)
  BY <1>6 DEF StreamTyped, Fresh, Typing, WorldOK, Given
<1>7. QED
  BY <1>1, <1>2, <1>3, <1>4, <1>5, <1>6 DEF Stop

\* Nobody but stop() itself moves it once it is in flight.
LEMMA OnlyStopMoves ==
  ASSUME NEW t \in Takes, TypeOK, SetupInv, [Next]_vars, StopInFlight(t), ~Stop(t)
  PROVE  stop'[t] = stop[t] /\ worker'[t] = worker[t] /\ given'[t] = given[t]
<1> USE DEF TypeOK, StopsOK, StopInFlight
<1>0. CASE UNCHANGED vars
  BY <1>0
<1>1. CASE Start
  BY <1>1 DEF Start, StartCall, StartExchange, StartConfigure, StartConnect, StartCheckBeforeStore,
              StartStore, StartCheckAfterStore, StartNumber, StartArm, StartRecording, StartSpawn
<1>2. CASE StopExchange
  <2>1. t # takes
    BY <1>2 DEF StopExchange, SetupInv, RecordingOwned
  <2>2. QED
    BY <1>2, <2>1 DEF StopExchange
<1>3. ASSUME NEW u \in Takes, Task(u) PROVE stop' = stop /\ worker' = worker /\ given' = given
  BY <1>3 DEF Task, TaskStale, TaskCancelled, TaskText, TaskFail, TaskDrain, TaskDisconnect, TaskAppends, TaskLatches
<1>4. ASSUME NEW u \in Takes, Stop(u) PROVE stop'[t] = stop[t] /\ worker'[t] = worker[t] /\ given'[t] = given[t]
  <2>1. u # t
    BY <1>4
  <2>2. stop'[t] = stop[t]
    BY <1>4, <2>1, StopGoesOn
  <2>3. /\ worker' = worker \/ \E how : worker' = [worker EXCEPT ![u] = how]
        /\ given' = given \/ \E what : given' = [given EXCEPT ![u] = what]
    BY <1>4 DEF Stop, StopTakeOver, StopStale, StopError, StopSilent, StopHears, StopRoutes, StopPolishes,
                StreamChunk, StreamTyped, StopPolished, StopCompletes, StopDelivers, StopSaves, StopCloses,
                GivesWhole
  <2>4. QED
    BY <2>1, <2>2, <2>3 DEF WorldOK
<1>5. ASSUME NEW u \in Takes, DeadlineWakes(u) PROVE stop' = stop /\ worker' = worker /\ given' = given
  BY <1>5 DEF DeadlineWakes
<1>6. ASSUME NEW u \in Takes, DeadlineStops(u) PROVE stop'[t] = stop[t] /\ worker'[t] = worker[t] /\ given'[t] = given[t]
  BY <1>2, <1>6 DEF DeadlineStops
<1>7. CASE AbortFlag \/ Abort \/ SwitchCheck
  BY <1>7 DEF AbortFlag, Abort, AbortRetire, AbortSilence, AbortNotify, AbortIdle, SwitchCheck
<1>8. ASSUME NEW tg \in Targets, SwitchTarget(tg) PROVE stop' = stop /\ worker' = worker /\ given' = given
  BY <1>8 DEF SwitchTarget
<1>9. QED
  BY <1>0, <1>1, <1>2, <1>3, <1>4, <1>5, <1>6, <1>7, <1>8 DEF Next, StopCall

\* The fair behaviours in which nobody is ever stuck, and what holds in them.
Goes == FairSpec /\ []NothingStuck

StopMovesFrom(t, pc) == stop[t] = pc ~> stop[t] \in StopAfter(pc)

\* stop() leaves the place where it stands, ...
LEMMA StopLeaves ==
  ASSUME NEW t \in Takes, NEW pc \in StopPc \ {"none", "polishing", "ended"}
  PROVE  Goes => StopMovesFrom(t, pc)
<1>1. TypeOK /\ SetupInv /\ stop[t] = pc /\ [Next]_vars => (stop[t] = pc)' \/ (stop[t] \in StopAfter(pc))'
  BY StopGoesOn, OnlyStopMoves DEF StopInFlight
<1>2. TypeOK /\ stop[t] = pc /\ <<Stop(t)>>_vars => (stop[t] \in StopAfter(pc))'
  BY StopGoesOn
<1>3. NothingStuck => (stop[t] = pc => ENABLED <<Stop(t)>>_vars)
  BY DEF NothingStuck, StopInFlight
<1>4. Fairness => TakeIsFair(t)
  BY DEF Fairness
<1>5. QED
  BY <1>1, <1>2, <1>3, <1>4, TypeCorrect, Ownership, PTL
     DEF Goes, FairSpec, Spec, TakeIsFair, StopMovesFrom

\* ... also when a chunk is streamed meanwhile, which happens once.
LEMMA PolishingEnds ==
  ASSUME NEW t \in Takes
  PROVE  Goes => StopMovesFrom(t, "polishing")
<1> DEFINE Left == stop[t] \in StopAfter("polishing")
           Here == stop[t] = "polishing"
           New  == Fresh(t)
           Busy == Typing(t)
<1>1. TypeOK /\ SetupInv /\ Here /\ [Next]_vars
        => \/ Left'
           \/ Here' /\ (New' <=> New) /\ (Busy' <=> Busy)
           \/ Here' /\ New /\ Busy'
           \/ Here' /\ Busy /\ ~New' /\ ~Busy'
  BY StopGoesOn, OnlyStopMoves DEF StopInFlight, TypeOK, StopsOK, Fresh, Typing
<1>2. TypeOK /\ Here /\ <<Stop(t)>>_vars
        => \/ Left'
           \/ Here' /\ New /\ Busy'
           \/ Here' /\ Busy /\ ~New' /\ ~Busy'
  BY StopGoesOn
<1>3. NothingStuck => (Here => ENABLED <<Stop(t)>>_vars)
  BY DEF NothingStuck, StopInFlight
<1>4. Fairness => TakeIsFair(t)
  BY DEF Fairness
<1>0. ~(New /\ Busy)
  BY DEF Fresh, Typing
<1> HIDE DEF Left, Here, New, Busy
<1>5. Goes => (Here /\ New ~> Left \/ (Here /\ Busy))
  BY <1>0, <1>1, <1>2, <1>3, <1>4, TypeCorrect, Ownership, PTL DEF Goes, FairSpec, Spec, TakeIsFair
<1>6. Goes => (Here /\ Busy ~> Left \/ (Here /\ ~New /\ ~Busy))
  BY <1>0, <1>1, <1>2, <1>3, <1>4, TypeCorrect, Ownership, PTL DEF Goes, FairSpec, Spec, TakeIsFair
<1>7. Goes => (Here /\ ~New /\ ~Busy ~> Left)
  BY <1>1, <1>2, <1>3, <1>4, TypeCorrect, Ownership, PTL DEF Goes, FairSpec, Spec, TakeIsFair
<1>8. Goes => (Here ~> Left)
  BY <1>5, <1>6, <1>7, PTL
<1>9. QED
  BY <1>8, PTL DEF Here, Left, StopMovesFrom

\* Every stop() returns, in every fair behaviour where nobody is stuck, the
\* raced ones included (stop, its error paths and its waits).
THEOREM StopsReturn == FairSpec /\ []NothingStuck => StopReturnsInTheEnd
<1>1. SUFFICES ASSUME NEW t \in Takes
               PROVE  FairSpec /\ []NothingStuck => (StopInFlight(t) ~> stop[t] = "ended")
  BY DEF StopReturnsInTheEnd
<1>2. TypeOK => (StopInFlight(t) =>
        \/ stop[t] = "capturing" \/ stop[t] = "waiting" \/ stop[t] = "heard" \/ stop[t] = "routed"
        \/ stop[t] = "polishing" \/ stop[t] = "completing" \/ stop[t] = "executing"
        \/ stop[t] = "saving" \/ stop[t] = "closing")
  BY DEF StopInFlight, TypeOK, StopsOK, StopPc
<1>3. /\ stop[t] \in StopAfter("capturing") => stop[t] = "waiting"
      /\ stop[t] \in StopAfter("waiting") => stop[t] = "heard" \/ stop[t] = "ended"
      /\ stop[t] \in StopAfter("heard") => stop[t] = "routed" \/ stop[t] = "ended"
      /\ stop[t] \in StopAfter("routed") =>
           stop[t] = "polishing" \/ stop[t] = "executing" \/ stop[t] = "saving"
      /\ stop[t] \in StopAfter("polishing") =>
           stop[t] = "completing" \/ stop[t] = "executing" \/ stop[t] = "saving"
      /\ stop[t] \in StopAfter("completing") => stop[t] = "saving"
      /\ stop[t] \in StopAfter("executing") => stop[t] = "saving"
      /\ stop[t] \in StopAfter("saving") => stop[t] = "closing"
      /\ stop[t] \in StopAfter("closing") => stop[t] = "ended"
  BY DEF StopAfter
<1>4. Goes => StopMovesFrom(t, "capturing")
  BY StopLeaves DEF StopPc
<1>5. Goes => StopMovesFrom(t, "waiting")
  BY StopLeaves DEF StopPc
<1>6. Goes => StopMovesFrom(t, "heard")
  BY StopLeaves DEF StopPc
<1>7. Goes => StopMovesFrom(t, "routed")
  BY StopLeaves DEF StopPc
<1>8. Goes => StopMovesFrom(t, "polishing")
  BY PolishingEnds
<1>8a. Goes => StopMovesFrom(t, "completing")
  BY StopLeaves DEF StopPc
<1>9. Goes => StopMovesFrom(t, "executing")
  BY StopLeaves DEF StopPc
<1>10. Goes => StopMovesFrom(t, "saving")
  BY StopLeaves DEF StopPc
<1>11. Goes => StopMovesFrom(t, "closing")
  BY StopLeaves DEF StopPc
<1>12. QED
  BY <1>2, <1>3, <1>4, <1>5, <1>6, <1>7, <1>8, <1>8a, <1>9, <1>10, <1>11, TypeCorrect, PTL
     DEF Goes, FairSpec, StopMovesFrom

\* A step of start() moves it on, and nobody else does.
LEMMA StartGoesOn ==
  ASSUME TypeOK, startPc # "none", Start
  PROVE  startPc' \in StartAfter(startPc)
<1> USE DEF StartAfter
<1>1. CASE StartCall
  BY <1>1 DEF StartCall, LockFree
<1>2. CASE StartExchange \/ StartConfigure \/ StartConnect
  BY <1>2 DEF StartExchange, StartConfigure, StartConnect, StartGivesUp
<1>3. CASE StartCheckBeforeStore \/ StartStore \/ StartCheckAfterStore
  BY <1>3 DEF StartCheckBeforeStore, StartStore, StartCheckAfterStore, StartGivesUp
<1>4. CASE StartNumber \/ StartArm \/ StartRecording \/ StartSpawn
  BY <1>4 DEF StartNumber, StartArm, StartRecording, StartSpawn
<1>5. QED
  BY <1>1, <1>2, <1>3, <1>4 DEF Start

LEMMA OnlyStartMoves ==
  ASSUME [Next]_vars, ~Start
  PROVE  startPc' = startPc
<1>0. CASE UNCHANGED vars
  BY <1>0
<1>1. CASE StopExchange
  BY <1>1 DEF StopExchange
<1>2. ASSUME NEW t \in Takes, Task(t) PROVE startPc' = startPc
  BY <1>2 DEF Task, TaskStale, TaskCancelled, TaskText, TaskFail, TaskDrain, TaskDisconnect, TaskAppends, TaskLatches
<1>3. ASSUME NEW t \in Takes, Stop(t) PROVE startPc' = startPc
  BY <1>3 DEF Stop, StopTakeOver, StopStale, StopError, StopSilent, StopHears, StopRoutes, StopPolishes,
              StreamChunk, StreamTyped, StopPolished, StopCompletes, StopDelivers, StopSaves, StopCloses
<1>4. ASSUME NEW t \in Takes, DeadlineWakes(t) \/ DeadlineStops(t) PROVE startPc' = startPc
  BY <1>1, <1>4 DEF DeadlineWakes, DeadlineStops
<1>5. CASE AbortFlag \/ Abort \/ SwitchCheck
  BY <1>5 DEF AbortFlag, Abort, AbortRetire, AbortSilence, AbortNotify, AbortIdle, SwitchCheck
<1>6. ASSUME NEW tg \in Targets, SwitchTarget(tg) PROVE startPc' = startPc
  BY <1>6 DEF SwitchTarget
<1>7. QED
  BY <1>0, <1>1, <1>2, <1>3, <1>4, <1>5, <1>6 DEF Next, StopCall

StartMovesFrom(pc) == startPc = pc ~> startPc \in StartAfter(pc)

LEMMA StartLeaves ==
  ASSUME NEW pc \in StartPc \ {"none"}
  PROVE  Goes => StartMovesFrom(pc)
<1>1. TypeOK /\ startPc = pc /\ [Next]_vars => (startPc = pc)' \/ (startPc \in StartAfter(pc))'
  BY StartGoesOn, OnlyStartMoves
<1>2. TypeOK /\ startPc = pc /\ <<startPc # "none" /\ Start>>_vars => (startPc \in StartAfter(pc))'
  BY StartGoesOn
<1>3. NothingStuck => (startPc = pc => ENABLED <<startPc # "none" /\ Start>>_vars)
  BY DEF NothingStuck
<1>4. Fairness => StartIsFair
  BY DEF Fairness
<1>5. QED
  BY <1>1, <1>2, <1>3, <1>4, TypeCorrect, PTL DEF Goes, FairSpec, Spec, StartIsFair, StartMovesFrom

\* Every start() returns, and releases pipeline_lock.
LEMMA StartsReturn == Goes => (startPc # "none" ~> startPc = "none")
<1>1. TypeOK => (startPc # "none" =>
        \/ startPc = "called" \/ startPc = "setup" \/ startPc = "connecting" \/ startPc = "ready"
        \/ startPc = "storing" \/ startPc = "stored" \/ startPc = "numbering" \/ startPc = "arming"
        \/ startPc = "numbered" \/ startPc = "recording")
  BY DEF TypeOK, CallsOK, StartPc
<1>2. /\ startPc \in StartAfter("called") => startPc = "setup" \/ startPc = "none"
      /\ startPc \in StartAfter("setup") => startPc = "connecting" \/ startPc = "none"
      /\ startPc \in StartAfter("connecting") => startPc = "ready" \/ startPc = "none"
      /\ startPc \in StartAfter("ready") => startPc = "storing" \/ startPc = "none"
      /\ startPc \in StartAfter("storing") => startPc = "stored"
      /\ startPc \in StartAfter("stored") => startPc = "numbering" \/ startPc = "none"
      /\ startPc \in StartAfter("numbering") => startPc = "arming"
      /\ startPc \in StartAfter("arming") => startPc = "numbered"
      /\ startPc \in StartAfter("numbered") => startPc = "recording"
      /\ startPc \in StartAfter("recording") => startPc = "none"
  BY DEF StartAfter
<1>3. Goes => StartMovesFrom("called") /\ StartMovesFrom("setup") /\ StartMovesFrom("connecting")
  BY StartLeaves DEF StartPc
<1>4. Goes => StartMovesFrom("ready") /\ StartMovesFrom("storing") /\ StartMovesFrom("stored")
  BY StartLeaves DEF StartPc
<1>5. Goes => StartMovesFrom("numbering") /\ StartMovesFrom("arming")
  BY StartLeaves DEF StartPc
<1>6. Goes => StartMovesFrom("numbered") /\ StartMovesFrom("recording")
  BY StartLeaves DEF StartPc
<1>7. QED
  BY <1>1, <1>2, <1>3, <1>4, <1>5, <1>6, TypeCorrect, PTL DEF Goes, FairSpec, StartMovesFrom

\* A step of abort() moves it on, and its last one sets the state to Idle.
LEMMA AbortGoesOn ==
  ASSUME [Next]_vars, abortPc # "none"
  PROVE  \/ ~Abort /\ abortPc' = abortPc
         \/ abortPc = "flagged" /\ abortPc' = "retired"
         \/ abortPc = "retired" /\ abortPc' = "silenced"
         \/ abortPc = "silenced" /\ abortPc' = "notified"
         \/ abortPc = "notified" /\ abortPc' = "none" /\ state' = "Idle"
<1>0. CASE Abort
  BY <1>0 DEF Abort, AbortRetire, AbortSilence, AbortNotify, AbortIdle, SetIdle
<1>1. CASE UNCHANGED vars
  BY <1>0, <1>1
<1>2. CASE Start
  BY <1>0, <1>2 DEF Start, StartCall, StartExchange, StartConfigure, StartConnect, StartCheckBeforeStore,
              StartStore, StartCheckAfterStore, StartNumber, StartArm, StartRecording, StartSpawn
<1>3. CASE StopExchange
  BY <1>0, <1>3 DEF StopExchange
<1>4. ASSUME NEW t \in Takes, Task(t) PROVE abortPc' = abortPc
  BY <1>4 DEF Task, TaskStale, TaskCancelled, TaskText, TaskFail, TaskDrain, TaskDisconnect, TaskAppends, TaskLatches
<1>5. ASSUME NEW t \in Takes, Stop(t) PROVE abortPc' = abortPc
  BY <1>5 DEF Stop, StopTakeOver, StopStale, StopError, StopSilent, StopHears, StopRoutes, StopPolishes,
              StreamChunk, StreamTyped, StopPolished, StopCompletes, StopDelivers, StopSaves, StopCloses
<1>6. ASSUME NEW t \in Takes, DeadlineWakes(t) \/ DeadlineStops(t) PROVE abortPc' = abortPc
  BY <1>6 DEF DeadlineWakes, DeadlineStops, StopExchange
<1>7. CASE AbortFlag \/ SwitchCheck
  BY <1>0, <1>7 DEF AbortFlag, SwitchCheck
<1>8. ASSUME NEW tg \in Targets, SwitchTarget(tg) PROVE abortPc' = abortPc
  BY <1>8 DEF SwitchTarget
<1>9. QED
  BY <1>0, <1>1, <1>2, <1>3, <1>4, <1>5, <1>6, <1>7, <1>8 DEF Next, StopCall

\* Every abort() returns, and leaves the pipeline Idle.
LEMMA AbortsReturn == Goes => (abortPc # "none" ~> state = "Idle" /\ abortPc = "none")
<1> DEFINE At(pc) == abortPc = pc
           Done   == state = "Idle" /\ abortPc = "none"
<1>1. TypeOK => (abortPc # "none" => At("flagged") \/ At("retired") \/ At("silenced") \/ At("notified"))
  BY DEF TypeOK, CallsOK, AbortPc
<1>2. /\ At("flagged") /\ [Next]_vars => At("flagged")' \/ At("retired")'
      /\ At("retired") /\ [Next]_vars => At("retired")' \/ At("silenced")'
      /\ At("silenced") /\ [Next]_vars => At("silenced")' \/ At("notified")'
      /\ At("notified") /\ [Next]_vars => At("notified")' \/ Done'
  BY AbortGoesOn
<1>3. /\ At("flagged") /\ <<Abort>>_vars => At("retired")'
      /\ At("retired") /\ <<Abort>>_vars => At("silenced")'
      /\ At("silenced") /\ <<Abort>>_vars => At("notified")'
      /\ At("notified") /\ <<Abort>>_vars => Done'
  BY AbortGoesOn DEF Next
<1>4. NothingStuck => (abortPc # "none" => ENABLED <<Abort>>_vars)
  BY DEF NothingStuck
<1>5. Fairness => AbortIsFair
  BY DEF Fairness
<1>6. At("flagged") \/ At("retired") \/ At("silenced") \/ At("notified") => abortPc # "none"
  OBVIOUS
<1> HIDE DEF At, Done
<1>7. Goes => (abortPc # "none" ~> Done)
  BY <1>1, <1>2, <1>3, <1>4, <1>5, <1>6, TypeCorrect, PTL DEF Goes, FairSpec, Spec, AbortIsFair
<1>8. QED
  BY <1>7 DEF Done
-----------------------------------------------------------------------------
(* Liveness of the orderly behaviours                                      *)

\* What is known in every state of them.
Order == TypeOK /\ SetupInv /\ OrderInv /\ SetUpInv

OrderlyGoes == OrderlyFairSpec /\ []NothingStuck

LEMMA OrderlyHas == OrderlyGoes => Goes /\ []Order
<1>1. Order <=> TypeOK /\ SetupInv /\ OrderInv /\ SetUpInv
  BY DEF Order
<1>2. QED
  BY <1>1, OrderlyIsSpec, TypeCorrect, Ownership, OrderlyOwnership, PTL DEF OrderlyGoes, OrderlyFairSpec, Goes, FairSpec

\* A stop() that will set the state to Idle: it is not cancelled, or it is
\* past the places where that would end it.
Winding(t) == StopInFlight(t) /\ (abortFlag => stop[t] \in Closing)

LEMMA WindingStep ==
  ASSUME NEW t \in Takes, Order, Winding(t), [Next]_vars
  PROVE  Winding(t)' \/ (state = "Idle")' \/ (abortPc # "none")'
<1> USE DEF Order, TypeOK, StopsOK, Winding, StopInFlight, Closing
<1>1. CASE Stop(t)
  <2>1. ctl[t] = t \/ stop[t] = "capturing"
    BY DEF SetupInv, StopOwnsSetup
  <2>2. ~abortFlag => activeSttId = sid[t]
    BY DEF SetUpInv, SessionStands
  <2>3. CASE StopTakeOver(t)
    BY <2>3 DEF StopTakeOver
  <2>4. CASE StopStale(t)
    BY <2>1, <2>2, <2>4 DEF StopStale, Waited, Valid, ShouldFinalize
  <2>5. CASE StopError(t) \/ StopSilent(t) \/ StopCloses(t)
    BY <2>5 DEF StopError, StopSilent, StopCloses, SetIdle
  <2>6. CASE StopHears(t)
    BY <2>6 DEF StopHears, Waited
  <2>7. CASE StopRoutes(t)
    BY <2>7 DEF StopRoutes, Goto
  <2>8. CASE StopPolishes(t) \/ StopPolished(t) \/ StopCompletes(t) \/ StopDelivers(t) \/ StopSaves(t)
    BY <2>8 DEF StopPolishes, StopPolished, StopCompletes, StopDelivers, StopSaves, Goto
  <2>9. CASE StreamChunk(t) \/ StreamTyped(t)
    BY <2>9 DEF StreamChunk, StreamTyped
  <2>10. QED
    BY <1>1, <2>3, <2>4, <2>5, <2>6, <2>7, <2>8, <2>9 DEF Stop
<1>2. CASE ~Stop(t)
  <2>1. stop'[t] = stop[t]
    BY <1>2, OnlyStopMoves
  <2>2. (abortFlag' => abortFlag) \/ abortPc' # "none"
    <3>0. CASE UNCHANGED vars
      BY <3>0
    <3>1. CASE Start
      BY <3>1 DEF Start, StartCall, StartExchange, StartConfigure, StartConnect, StartCheckBeforeStore,
                  StartStore, StartCheckAfterStore, StartNumber, StartArm, StartRecording, StartSpawn
    <3>2. CASE StopExchange
      BY <3>2 DEF StopExchange
    <3>3. ASSUME NEW u \in Takes, Task(u) PROVE abortFlag' = abortFlag
      BY <3>3 DEF Task, TaskStale, TaskCancelled, TaskText, TaskFail, TaskDrain, TaskDisconnect, TaskAppends, TaskLatches
    <3>4. ASSUME NEW u \in Takes, Stop(u) PROVE abortFlag' = abortFlag
      BY <3>4 DEF Stop, StopTakeOver, StopStale, StopError, StopSilent, StopHears, StopRoutes, StopPolishes,
                  StreamChunk, StreamTyped, StopPolished, StopCompletes, StopDelivers, StopSaves, StopCloses
    <3>5. ASSUME NEW u \in Takes, DeadlineWakes(u) \/ DeadlineStops(u) PROVE abortFlag' = abortFlag
      BY <3>5 DEF DeadlineWakes, DeadlineStops, StopExchange
    <3>6. CASE AbortFlag \/ Abort \/ SwitchCheck
      BY <3>6 DEF AbortFlag, Abort, AbortRetire, AbortSilence, AbortNotify, AbortIdle, SwitchCheck
    <3>7. ASSUME NEW tg \in Targets, SwitchTarget(tg) PROVE abortFlag' = abortFlag
      BY <3>7 DEF SwitchTarget
    <3>8. QED
      BY <3>0, <3>1, <3>2, <3>3, <3>4, <3>5, <3>6, <3>7 DEF Next, StopCall
  <2>3. QED
    BY <2>1, <2>2
<1>3. QED
  BY <1>1, <1>2

\* It does, unless abort() begins meanwhile.
WindsUp(t) == Winding(t) ~> state = "Idle" \/ abortPc # "none"

LEMMA StopsWindUp ==
  ASSUME NEW t \in Takes
  PROVE  OrderlyGoes => WindsUp(t)
<1>1. Order /\ Winding(t) /\ [Next]_vars => Winding(t)' \/ (state = "Idle")' \/ (abortPc # "none")'
  BY WindingStep
<1>2. Winding(t) => StopInFlight(t) /\ ~(stop[t] = "ended")
  BY DEF Winding, StopInFlight
<1> DEFINE Returns == StopInFlight(t) ~> stop[t] = "ended"
<1>3. Goes => Returns
  <2>1. StopReturnsInTheEnd => Returns
    BY DEF StopReturnsInTheEnd
  <2>2. QED
    BY <2>1, StopsReturn, PTL DEF Goes
<1>4. QED
  BY <1>1, <1>2, <1>3, OrderlyHas, PTL DEF Goes, FairSpec, Spec, WindsUp

\* A recording that start() has handed over, while nobody aborts.
Recorded(t) == /\ state = "Recording" /\ takes = t /\ abortPc = "none"
               /\ startPc \in {"none", "called"}

\* It ends by its stop(), or abort() begins; until then its deadline is armed,
\* and once that is reached its task waits for the lock.
LEMMA RecordedStep ==
  ASSUME NEW t \in Takes, Order, Recorded(t), [Next]_vars
  PROVE  \/ /\ Recorded(t)'
            /\ \/ deadline'[t] = deadline[t]
               \/ deadline[t] = "armed" /\ deadline'[t] = "reached"
            /\ ~DeadlineStops(t)
            /\ DeadlineWakes(t) => deadline'[t] = "reached"
         \/ Winding(t)'
         \/ (abortPc # "none")'
<1> USE DEF Order, TypeOK, Recorded
<1>a. ~abortFlag
  BY DEF OrderInv, FlagSpeaks
<1>b. activeDeadlineId = sid[t] /\ stop[t] = "none"
  BY <1>a DEF SetUpInv, RecordingIsSetUp, SetupInv, RecordingOwned
<1>c. \A u \in Takes : ~StopInFlight(u)
  BY DEF OrderInv, OneInFlight
<1>d. ASSUME StopExchange PROVE Winding(t)' /\ stop'[t] = "capturing"
  BY <1>a, <1>d DEF StopExchange, Winding, StopInFlight, StopsOK
<1>0. CASE UNCHANGED vars
  <2>1. ~DeadlineStops(t) /\ ~DeadlineWakes(t)
    BY <1>0 DEF DeadlineStops, DeadlineWakes, TasksOK
  <2>2. QED
    BY <1>0, <2>1
<1>1. CASE Start
  <2>1. CASE StartCall
    BY <2>1 DEF StartCall, LockFree, DeadlineStops, DeadlineWakes, TasksOK
  <2>2. CASE StartExchange
    BY <2>2 DEF StartExchange, DeadlineStops, DeadlineWakes, TasksOK
  <2>3. QED
    BY <1>1, <2>1, <2>2 DEF Start, StartConfigure, StartConnect, StartCheckBeforeStore,
              StartStore, StartCheckAfterStore, StartNumber, StartArm, StartRecording, StartSpawn
<1>2. CASE StopExchange
  BY <1>2, <1>d
<1>3. ASSUME NEW u \in Takes, Task(u)
      PROVE  UNCHANGED <<state, takes, abortPc, startPc, deadline>>
  BY <1>3 DEF Task, TaskStale, TaskCancelled, TaskText, TaskFail, TaskDrain, TaskDisconnect, TaskAppends, TaskLatches
<1>4. ASSUME NEW u \in Takes PROVE ~Stop(u)
  BY <1>4, <1>c DEF Stop, StopTakeOver, StopStale, StopError, StopSilent, StopHears, StopRoutes, StopPolishes,
              StreamChunk, StreamTyped, StopPolished, StopCompletes, StopDelivers, StopSaves, StopCloses, Waited, StopInFlight
<1>5. ASSUME NEW u \in Takes, DeadlineWakes(u)
      PROVE  /\ UNCHANGED <<state, takes, abortPc, startPc>>
             /\ u # t => deadline'[t] = deadline[t]
             /\ u = t => deadline[t] = "armed" /\ deadline'[t] = "reached"
  BY <1>5, <1>b DEF DeadlineWakes, TasksOK
<1>6. ASSUME NEW u \in Takes, DeadlineStops(u) PROVE Winding(t)'
  BY <1>6, <1>d DEF DeadlineStops
<1>7. CASE AbortFlag \/ Abort
  BY <1>7 DEF AbortFlag, Abort, AbortRetire, AbortSilence, AbortNotify, AbortIdle
<1>8. SwitchCheck => UNCHANGED <<state, takes, abortPc, startPc, deadline>>
  BY DEF SwitchCheck
<1>9. ASSUME NEW tg \in Targets, SwitchTarget(tg)
      PROVE  UNCHANGED <<state, takes, abortPc, startPc, deadline>>
  BY <1>9 DEF SwitchTarget
<1>e. DeadlineStops(t) => Winding(t)'
  BY <1>6
<1>f. DeadlineWakes(t) => deadline'[t] = "reached" /\ Recorded(t)' /\ deadline[t] = "armed"
  BY <1>5
<1>10. CASE \E u \in Takes : Task(u)
  BY <1>10, <1>3, <1>e, <1>f
<1>11. CASE \E u \in Takes : DeadlineWakes(u) \/ DeadlineStops(u)
  BY <1>11, <1>5, <1>6, <1>e, <1>f
<1>12. CASE SwitchCheck \/ \E tg \in Targets : SwitchTarget(tg)
  BY <1>12, <1>8, <1>9, <1>e, <1>f
<1>13. QED
  BY <1>0, <1>1, <1>2, <1>4, <1>7, <1>10, <1>11, <1>12 DEF Next, StopCall

\* The lock is free while a recording runs and no start() looks at the state.
LEMMA RecordedIsFree ==
  ASSUME NEW t \in Takes, Order, Recorded(t), startPc = "none"
  PROVE  LockFree
  BY DEF Order, OrderInv, OneInFlight, StopInFlight, Recorded, LockFree

RecordingEnds(t) == Recorded(t) ~> state = "Idle" \/ abortPc # "none"

\* So a recording ends, by its deadline if by nothing else: the task gets the
\* lock, which is free again and again.
LEMMA RecordingsEnd ==
  ASSUME NEW t \in Takes
  PROVE  OrderlyGoes => RecordingEnds(t)
<1> DEFINE Armed   == deadline[t] = "armed"
           Reached == deadline[t] = "reached"
           Over    == state = "Idle" \/ abortPc # "none"
<1>1. Order /\ Recorded(t) => Armed \/ Reached
  BY DEF Order, Recorded, OrderInv, FlagSpeaks, SetUpInv, RecordingIsSetUp
<1>2. Order /\ Recorded(t) /\ Armed /\ [Next]_vars =>
        (Recorded(t)' /\ (Armed' \/ Reached')) \/ Winding(t)' \/ Over'
  BY RecordedStep
<1>3. Order /\ Recorded(t) /\ Armed /\ <<DeadlineWakes(t)>>_vars => Reached' \/ Winding(t)' \/ Over'
  BY RecordedStep DEF Next
<1>4. Order /\ Recorded(t) /\ Reached /\ [Next]_vars => (Recorded(t)' /\ Reached') \/ Winding(t)' \/ Over'
  BY RecordedStep
<1>5. Order /\ Recorded(t) /\ Reached /\ <<DeadlineStops(t)>>_vars => Winding(t)' \/ Over'
  BY RecordedStep DEF Next
<1>6. NothingStuck /\ Armed => ENABLED <<DeadlineWakes(t)>>_vars
  BY DEF NothingStuck
<1>7. NothingStuck /\ Order /\ Recorded(t) /\ Reached /\ startPc = "none" => ENABLED <<DeadlineStops(t)>>_vars
  BY RecordedIsFree DEF NothingStuck
<1>8. Fairness => TakeIsFair(t)
  BY DEF Fairness
<1>9. OrderlyGoes => WindsUp(t)
  BY StopsWindUp
<1>10. WindsUp(t) => (Winding(t) ~> Over)
  BY DEF WindsUp
<1>11. startPc = "none" \/ startPc # "none"
  OBVIOUS
<1> HIDE DEF Armed, Reached, Over
<1>12. OrderlyGoes => (Recorded(t) /\ Armed ~> (Recorded(t) /\ Reached) \/ Over)
  BY <1>2, <1>3, <1>6, <1>8, <1>9, <1>10, OrderlyHas, PTL DEF OrderlyGoes, Goes, FairSpec, Spec, TakeIsFair
<1>13. OrderlyGoes => (Recorded(t) /\ Reached ~> Over)
  BY <1>4, <1>5, <1>7, <1>8, <1>9, <1>10, <1>11, OrderlyHas, StartsReturn, PTL
     DEF OrderlyGoes, Goes, FairSpec, Spec, TakeIsFair
<1>14. OrderlyGoes => (Recorded(t) ~> Over)
  BY <1>1, <1>12, <1>13, OrderlyHas, PTL
<1>15. QED
  BY <1>14, PTL DEF RecordingEnds, Over

\* Nobody sets a dictation up: start() is away, or has not looked at the state.
NoneBegins == startPc \in {"none", "called"}

LEMMA NoneBegan ==
  ASSUME NoneBegins, [Next]_vars
  PROVE  NoneBegins' \/ (state = "Idle" /\ takes' = takes + 1)
<1>1. CASE Start
  BY <1>1 DEF NoneBegins, Start, StartCall, StartExchange, StartConfigure, StartConnect, StartCheckBeforeStore,
              StartStore, StartCheckAfterStore, StartNumber, StartArm, StartRecording, StartSpawn
<1>2. CASE ~Start
  BY <1>2, OnlyStartMoves DEF NoneBegins
<1>3. QED
  BY <1>1, <1>2

\* The pipeline gets back to Idle, whoever stops, fails, aborts or does nothing:
\* set_state(Idle) is reached on every path (start, stop, abort, the deadline).
THEOREM StatesReturn == OrderlyGoes => BackToIdle
<1> DEFINE Idle   == state = "Idle"
           Aborts == abortPc # "none"
           SomeRecorded == \E t \in Takes : Recorded(t)
           SomeWinds    == \E t \in Takes : Winding(t)
           WindsNow(t)     == Winding(t) => <>(Idle \/ Aborts)
           RecordsNow(t)   == Recorded(t) => <>(Idle \/ Aborts)
\* Somebody owns a state that is not Idle.
<1>1. Order => Idle \/ Aborts \/ ~NoneBegins \/ SomeRecorded \/ SomeWinds
  <2>1. SUFFICES ASSUME Order, ~Idle, ~Aborts, NoneBegins PROVE SomeRecorded \/ SomeWinds
    OBVIOUS
  <2>2. state = "Recording" \/ SomeWinds
    BY <2>1 DEF Order, SetUpInv, BusyOwned, Winding, NoneBegins, SettingUp
  <2>3. state = "Recording" => Recorded(takes) /\ takes \in Takes
    BY <2>1 DEF Order, SetupInv, RecordingOwned, Recorded, NoneBegins
  <2>4. QED
    BY <2>2, <2>3
<1>2. NoneBegins /\ [Next]_vars => NoneBegins' \/ Idle
  BY NoneBegan
<1>3. startPc = "none" => NoneBegins
  BY DEF NoneBegins
<1>4. startPc = "none" \/ startPc # "none"
  OBVIOUS
<1>5. Goes => (Aborts ~> Idle)
  BY AbortsReturn, PTL
<1>6. OrderlyGoes => (SomeRecorded ~> Idle \/ Aborts)
  <2>1. OrderlyGoes => \A t \in Takes : RecordingEnds(t)
    BY RecordingsEnd
  <2>2. (\A t \in Takes : RecordingEnds(t)) => (\A t \in Takes : []RecordsNow(t))
    <3>1. ASSUME NEW t \in Takes PROVE RecordingEnds(t) => []RecordsNow(t)
      BY PTL DEF RecordingEnds
    <3> HIDE DEF RecordsNow
    <3>2. QED
      BY <3>1
  <2>3. (\A t \in Takes : []RecordsNow(t)) => [](\A t \in Takes : RecordsNow(t))
    OBVIOUS
  <2>4. (\A t \in Takes : RecordsNow(t)) => (SomeRecorded => <>(Idle \/ Aborts))
    OBVIOUS
  <2>5. QED
    BY <2>1, <2>2, <2>3, <2>4, PTL
<1>7. OrderlyGoes => (SomeWinds ~> Idle \/ Aborts)
  <2>1. OrderlyGoes => \A t \in Takes : WindsUp(t)
    BY StopsWindUp
  <2>2. (\A t \in Takes : WindsUp(t)) => (\A t \in Takes : []WindsNow(t))
    <3>1. ASSUME NEW t \in Takes PROVE WindsUp(t) => []WindsNow(t)
      BY PTL DEF WindsUp
    <3> HIDE DEF WindsNow
    <3>2. QED
      BY <3>1
  <2>3. (\A t \in Takes : []WindsNow(t)) => [](\A t \in Takes : WindsNow(t))
    OBVIOUS
  <2>4. (\A t \in Takes : WindsNow(t)) => (SomeWinds => <>(Idle \/ Aborts))
    OBVIOUS
  <2>5. QED
    BY <2>1, <2>2, <2>3, <2>4, PTL
<1> HIDE DEF Idle, Aborts, SomeRecorded, SomeWinds
<1>8. OrderlyGoes => (~Idle ~> Idle)
  BY <1>1, <1>2, <1>3, <1>4, <1>5, <1>6, <1>7, OrderlyHas, StartsReturn, PTL DEF Goes, FairSpec, Spec
<1>9. QED
  BY <1>8, PTL DEF BackToIdle, Idle

\* Every capture ends: by the stop() of its take, by the abort() or the failure
\* of its start(), or because the deadline brought that stop().
THEOREM MicsAreReleased == OrderlyGoes => MicIsReleased
<1>1. SUFFICES ASSUME NEW t \in Takes PROVE OrderlyGoes => (mic[t] ~> ~mic[t])
  BY DEF MicIsReleased
<1> DEFINE On        == mic[t]
           Idle      == state = "Idle"
           Aborts    == abortPc # "none"
           Capturing == stop[t] = "capturing"
           Captured  == stop[t] \in StopAfter("capturing")
\* Who holds a microphone that is on.
<1>2. Order /\ On /\ NoneBegins => Capturing \/ Recorded(t) \/ (Aborts /\ ~Idle)
  <2>1. SUFFICES ASSUME Order, On, NoneBegins PROVE Capturing \/ (state = "Recording" /\ takes = t)
    BY DEF Recorded, NoneBegins
  <2>2. QED
    BY <2>1 DEF Order, SetUpInv, MicOwned, NoneBegins, SettingUp
<1>3. Order /\ Captured => ~On
  <2>1. SUFFICES ASSUME Order, stop[t] = "waiting" PROVE ~On
    BY DEF StopAfter
  <2>2. StopInFlight(t)
    BY <2>1 DEF StopInFlight
  <2>3. QED
    BY <2>1, <2>2 DEF Order, SetUpInv, MicOwned, SetupInv, StartOwns, OrderInv, OneInFlight
<1>4. Order /\ Order' /\ On /\ NoneBegins /\ [Next]_vars => NoneBegins' \/ ~On'
  <2>1. SUFFICES ASSUME Order, Order', On, On', NoneBegins, [Next]_vars, takes' = takes + 1 PROVE FALSE
    BY NoneBegan
  <2>2. t = takes /\ t = takes'
    BY <2>1 DEF Order, SetUpInv, MicOwned
  <2>3. QED
    BY <2>1, <2>2 DEF Takes
<1>5. startPc = "none" => NoneBegins
  BY DEF NoneBegins
<1>6. startPc = "none" \/ startPc # "none"
  OBVIOUS
<1>7. Goes => (Aborts ~> Idle)
  BY AbortsReturn, PTL
<1>8. Recorded(t) => ~Idle
  BY DEF Recorded
<1>9. OrderlyGoes => (Recorded(t) ~> Idle \/ Aborts)
  BY RecordingsEnd, PTL DEF RecordingEnds
<1>10. Goes => (Capturing ~> Captured)
  <2>1. Goes => StopMovesFrom(t, "capturing")
    BY StopLeaves DEF StopPc
  <2>2. QED
    BY <2>1, PTL DEF StopMovesFrom
<1> HIDE DEF On, Idle, Aborts, Capturing, Captured
\* Once Idle, only a stop() that has not taken the handle over holds it.
<1>11. OrderlyGoes => (Capturing ~> ~On)
  BY <1>3, <1>10, OrderlyHas, PTL
<1>12. OrderlyGoes => (On /\ NoneBegins /\ Idle ~> ~On)
  BY <1>2, <1>8, <1>11, OrderlyHas, PTL
<1>13. OrderlyGoes => (On /\ NoneBegins ~> ~On)
  BY <1>2, <1>4, <1>7, <1>9, <1>11, <1>12, OrderlyHas, PTL DEF Goes, FairSpec, Spec
<1>14. OrderlyGoes => (On ~> ~On)
  BY <1>5, <1>6, <1>13, OrderlyHas, StartsReturn, PTL
<1>15. QED
  BY <1>14, PTL DEF On

\* Whatever begins, ends: every stop() returns, the pipeline gets back to Idle
\* and the microphone is released, in every fair orderly behaviour in which
\* nobody is stuck. That nobody is, TLC checks.
THEOREM EverythingEnds == OrderlyFairSpec /\ []NothingStuck => EndsInTheEnd
<1>1. OrderlyGoes => StopReturnsInTheEnd /\ BackToIdle /\ MicIsReleased
  BY OrderlyHas, StopsReturn, StatesReturn, MicsAreReleased, PTL DEF Goes
<1>2. QED
  BY <1>1 DEF OrderlyGoes, EndsInTheEnd
=============================================================================
