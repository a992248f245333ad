------------------------------ MODULE AskProofs ------------------------------
(***************************************************************************)
(* Theorems about AskDictation, for every number of attempts: one stage at *)
(* a time, what an abort may take away, and, if no step that is in         *)
(* progress waits for good, that Ask becomes free again, its captures end  *)
(* and its failures are shown.                                             *)
(***************************************************************************)
EXTENDS AskDictation, TLAPS

\* Attempts to come have not begun, and only one that has begun records or
\* was aborted.
Begun == /\ \A a \in Attempts : a > attempts => startPc[a] = "none"
         /\ session <= attempts
         /\ \A a \in aborted : a <= attempts

\* The flag `starting` is the reservation of the latest attempt, which was not
\* aborted: an abort would have cleared it.
ReservedByLatest == starting => attempts \notin aborted

\* An attempt whose start is in flight holds the reservation, or was aborted,
\* or lost the reservation to an earlier attempt that was.
FlightOwned ==
  \A a \in InFlight : \/ starting /\ a = attempts
                      \/ \E b \in aborted : b <= a

StageInv == Begun /\ OneStage
AbortInv == ReservedByLatest /\ AbortedLatestStaysSilent
LossInv  == FlightOwned /\ LostOnlyAfterAbort

USE AskAssumption

\* The tuples that UNCHANGED speaks of.
USE DEF vars, inner, start, parts, stop, taskUnchanged, pressUnchanged,
        Attempts, NoAttempt

\* A reservation keeps the types.
LEMMA ReserveTypes ==
  ASSUME TypeOK, attempts < MaxAttempts, NEW h \in BOOLEAN, Reserve(h)
  PROVE  /\ attempts' \in 0..MaxAttempts
         /\ startPc' \in [Attempts -> StartPc]
         /\ byHotkey' \in [Attempts -> BOOLEAN]
         /\ starting' \in BOOLEAN /\ stopAfterStart' \in BOOLEAN
<1>1. attempts \in Nat /\ attempts + 1 \in 0..MaxAttempts
  BY DEF TypeOK
<1>2. startPc' \in [Attempts -> StartPc]
  BY DEF TypeOK, Reserve, Goto, StartPc
<1>3. byHotkey' \in [Attempts -> BOOLEAN]
  BY DEF TypeOK, Reserve
<1>4. QED
  BY <1>1, <1>2, <1>3 DEF Reserve

\* The type invariant holds in every behaviour; with it, that a stop is in
\* progress exactly while `processing` is set.
THEOREM AskTypeCorrect == Spec => []TypeOK
<1> USE DEF TypeOK, StartPc, TaskPc, StopPc, PressPc
<1>1. ASSUME Init PROVE TypeOK
  <2> USE <1>1 DEF Init
  <2>1. (processing <=> stopPc # "none") /\ (processing <=> stopOf # NoAttempt)
    OBVIOUS
  <2>2. starting \in BOOLEAN /\ stopAfterStart \in BOOLEAN /\ processing \in BOOLEAN
    OBVIOUS
  <2>3. byHotkey \in [Attempts -> BOOLEAN] /\ mic \in [Attempts -> BOOLEAN]
    OBVIOUS
  <2>4. heard \in [Attempts -> BOOLEAN] /\ err \in [Attempts -> BOOLEAN]
    OBVIOUS
  <2>5. startPc \in [Attempts -> StartPc] /\ task \in [Attempts -> TaskPc]
    OBVIOUS
  <2>6. deadline \in [Attempts -> {"none", "armed", "reached", "over"}]
    OBVIOUS
  <2>7. session \in Attempts \cup {NoAttempt} /\ attempts \in 0..MaxAttempts
    OBVIOUS
  <2>8. stopPc \in StopPc /\ stopOf \in Attempts \cup {NoAttempt} /\ press \in PressPc
    OBVIOUS
  <2>9. aborted \subseteq Attempts /\ shown \subseteq Attempts
    OBVIOUS
  <2>10. QED
    BY <2>1, <2>2, <2>3, <2>4, <2>5, <2>6, <2>7, <2>8, <2>9
<1>2. ASSUME TypeOK, [Next]_vars PROVE TypeOK'
  <2> USE <1>2
  <2>1. CASE StartCall
    <3>1. Reserve(FALSE) /\ attempts < MaxAttempts
      BY <2>1 DEF StartCall
    <3>2. /\ attempts' \in 0..MaxAttempts
          /\ startPc' \in [Attempts -> StartPc]
          /\ byHotkey' \in [Attempts -> BOOLEAN]
          /\ starting' \in BOOLEAN /\ stopAfterStart' \in BOOLEAN
      <4>1. FALSE \in BOOLEAN
        OBVIOUS
      <4>2. QED
        BY <3>1, <4>1, ReserveTypes
    <3>3. UNCHANGED <<processing, session, parts, stop, press, aborted, shown>>
      BY <2>1 DEF StartCall, Reserve
    <3>4. QED
      BY <3>2, <3>3
  <2>2. CASE StopCall
    BY <2>2 DEF StopCall, StopTakes, CanStop
  <2>3. CASE StopListens
    BY <2>3 DEF StopListens, MicOff
  <2>4. CASE StopFinalizes
    BY <2>4 DEF StopFinalizes, StopReads, StopCloses
  <2>5. CASE StopAnswers
    BY <2>5 DEF StopAnswers, StopCloses
  <2>6. CASE Abort
    BY <2>6 DEF Abort, InFlight
  <2>7. CASE PressBegins
    BY <2>7 DEF PressBegins
  <2>8. CASE PressSeesStarting
    BY <2>8 DEF PressSeesStarting
  <2>9. CASE PressSeesBusy
    BY <2>9 DEF PressSeesBusy
  <2>10. CASE PressStarts
    <3>1. CASE Free /\ attempts < MaxAttempts
      <4>1. Reserve(TRUE)
        BY <2>10, <3>1 DEF PressStarts
      <4>2. QED
        BY <2>10, <3>1, <4>1, ReserveTypes DEF PressStarts, Reserve
    <3>2. CASE ~(Free /\ attempts < MaxAttempts)
      BY <2>10, <3>2 DEF PressStarts
    <3>3. QED
      BY <3>1, <3>2
  <2>11. CASE PressRequests
    BY <2>11 DEF PressRequests
  <2>12. CASE PressStops
    BY <2>12 DEF PressStops, StopIfRecording, StopTakes, CanStop
  <2>13. ASSUME NEW a \in Attempts, StartCaptures(a) PROVE TypeOK'
    BY <2>13 DEF StartCaptures, Goto, MicOff, At
  <2>14. ASSUME NEW a \in Attempts, StartConnects(a) PROVE TypeOK'
    BY <2>14 DEF StartConnects, Goto, MicOff, At
  <2>15. ASSUME NEW a \in Attempts, StartFails(a) PROVE TypeOK'
    BY <2>15 DEF StartFails, Goto, At
  <2>16. ASSUME NEW a \in Attempts, StartCommits(a) PROVE TypeOK'
    BY <2>16 DEF StartCommits, Goto, MicOff, At
  <2>17. ASSUME NEW a \in Attempts, StartDiscards(a) PROVE TypeOK'
    BY <2>17 DEF StartDiscards, Goto, At
  <2>18. ASSUME NEW a \in Attempts, StartSpawns(a) PROVE TypeOK'
    BY <2>18 DEF StartSpawns, Goto, At
  <2>19. ASSUME NEW a \in Attempts, StartReturns(a) PROVE TypeOK'
    BY <2>19 DEF StartReturns, Goto, At
  <2>20. ASSUME NEW a \in Attempts, StartStops(a) PROVE TypeOK'
    BY <2>20 DEF StartStops, Goto, At, StopIfRecording, StopTakes, CanStop
  <2>21. ASSUME NEW a \in Attempts, TaskText(a) PROVE TypeOK'
    BY <2>21 DEF TaskText
  <2>22. ASSUME NEW a \in Attempts, TaskFails(a) PROVE TypeOK'
    BY <2>22 DEF TaskFails, TaskGoto
  <2>23. ASSUME NEW a \in Attempts, TaskDrains(a) PROVE TypeOK'
    BY <2>23 DEF TaskDrains, TaskGoto
  <2>24. ASSUME NEW a \in Attempts, TaskDisconnects(a) PROVE TypeOK'
    BY <2>24 DEF TaskDisconnects, TaskGoto
  <2>25. ASSUME NEW a \in Attempts, TaskSurfaces(a) PROVE TypeOK'
    BY <2>25 DEF TaskSurfaces, TaskGoto, MicOff
  <2>26. ASSUME NEW a \in Attempts, DeadlineWakes(a) PROVE TypeOK'
    BY <2>26 DEF DeadlineWakes
  <2>27. ASSUME NEW a \in Attempts, DeadlineStops(a) PROVE TypeOK'
    BY <2>27 DEF DeadlineStops, StopIfRecording, StopTakes, CanStop
  <2>28. CASE UNCHANGED vars
    BY <2>28
  <2>29. QED
    BY <2>1, <2>2, <2>3, <2>4, <2>5, <2>6, <2>7, <2>8, <2>9, <2>10, <2>11,
        <2>12, <2>13, <2>14, <2>15, <2>16, <2>17, <2>18, <2>19, <2>20, <2>21,
        <2>22, <2>23, <2>24, <2>25, <2>26, <2>27, <2>28 DEF Next, Stop, Press,
        Start, Task
<1>3. QED
  BY <1>1, <1>2, PTL DEF Spec

\* Ask starts, records or processes, and never two of these at once.
THEOREM OneStageAtATime == Spec => []StageInv
<1>1. ASSUME Init PROVE StageInv
  BY <1>1 DEF Init, StageInv, Begun, OneStage
<1>2. ASSUME TypeOK, StageInv, [Next]_vars PROVE StageInv'
  <2> USE <1>2 DEF TypeOK, StageInv, Begun, OneStage
  <2>1. CASE StartCall
    BY <2>1 DEF StartCall, Reserve, Goto, Free
  <2>2. CASE StopCall
    BY <2>2 DEF StopCall, StopTakes, CanStop
  <2>3. CASE StopListens
    BY <2>3 DEF StopListens, MicOff
  <2>4. CASE StopFinalizes
    BY <2>4 DEF StopFinalizes, StopReads, StopCloses
  <2>5. CASE StopAnswers
    BY <2>5 DEF StopAnswers, StopCloses
  <2>6. CASE Abort
    BY <2>6 DEF Abort, InFlight
  <2>7. CASE PressBegins
    BY <2>7 DEF PressBegins
  <2>8. CASE PressSeesStarting
    BY <2>8 DEF PressSeesStarting
  <2>9. CASE PressSeesBusy
    BY <2>9 DEF PressSeesBusy
  <2>10. CASE PressStarts
    BY <2>10 DEF PressStarts, Reserve, Goto, Free
  <2>11. CASE PressRequests
    BY <2>11 DEF PressRequests
  <2>12. CASE PressStops
    BY <2>12 DEF PressStops, StopIfRecording, StopTakes, CanStop
  <2>13. ASSUME NEW a \in Attempts, StartCaptures(a) PROVE StageInv'
    BY <2>13 DEF StartCaptures, Goto, MicOff, At
  <2>14. ASSUME NEW a \in Attempts, StartConnects(a) PROVE StageInv'
    BY <2>14 DEF StartConnects, Goto, MicOff, At
  <2>15. ASSUME NEW a \in Attempts, StartFails(a) PROVE StageInv'
    BY <2>15 DEF StartFails, Goto, At
  <2>16. ASSUME NEW a \in Attempts, StartCommits(a) PROVE StageInv'
    BY <2>16 DEF StartCommits, Goto, MicOff, At
  <2>17. ASSUME NEW a \in Attempts, StartDiscards(a) PROVE StageInv'
    BY <2>17 DEF StartDiscards, Goto, At
  <2>18. ASSUME NEW a \in Attempts, StartSpawns(a) PROVE StageInv'
    BY <2>18 DEF StartSpawns, Goto, At
  <2>19. ASSUME NEW a \in Attempts, StartReturns(a) PROVE StageInv'
    BY <2>19 DEF StartReturns, Goto, At
  <2>20. ASSUME NEW a \in Attempts, StartStops(a) PROVE StageInv'
    BY <2>20 DEF StartStops, Goto, At, StopIfRecording, StopTakes, CanStop
  <2>21. ASSUME NEW a \in Attempts, TaskText(a) PROVE StageInv'
    BY <2>21 DEF TaskText
  <2>22. ASSUME NEW a \in Attempts, TaskFails(a) PROVE StageInv'
    BY <2>22 DEF TaskFails, TaskGoto
  <2>23. ASSUME NEW a \in Attempts, TaskDrains(a) PROVE StageInv'
    BY <2>23 DEF TaskDrains, TaskGoto
  <2>24. ASSUME NEW a \in Attempts, TaskDisconnects(a) PROVE StageInv'
    BY <2>24 DEF TaskDisconnects, TaskGoto
  <2>25. ASSUME NEW a \in Attempts, TaskSurfaces(a) PROVE StageInv'
    BY <2>25 DEF TaskSurfaces, TaskGoto, MicOff
  <2>26. ASSUME NEW a \in Attempts, DeadlineWakes(a) PROVE StageInv'
    BY <2>26 DEF DeadlineWakes
  <2>27. ASSUME NEW a \in Attempts, DeadlineStops(a) PROVE StageInv'
    BY <2>27 DEF DeadlineStops, StopIfRecording, StopTakes, CanStop
  <2>28. CASE UNCHANGED vars
    BY <2>28
  <2>29. QED
    BY <2>1, <2>2, <2>3, <2>4, <2>5, <2>6, <2>7, <2>8, <2>9, <2>10, <2>11,
        <2>12, <2>13, <2>14, <2>15, <2>16, <2>17, <2>18, <2>19, <2>20, <2>21,
        <2>22, <2>23, <2>24, <2>25, <2>26, <2>27, <2>28 DEF Next, Stop, Press,
        Start, Task
<1>3. QED
  BY <1>1, <1>2, AskTypeCorrect, PTL DEF Spec

\* The promise of the run: the three stages exclude each other.
THEOREM StagesExclude == Spec => []OneStage
<1>1. StageInv => OneStage
  BY DEF StageInv
<1>2. QED
  BY <1>1, OneStageAtATime, PTL

\* The reservation is never the one of an aborted attempt.
THEOREM AbortsOwnReservations == Spec => []AbortInv
<1>1. ASSUME Init PROVE AbortInv
  BY <1>1 DEF Init, AbortInv, ReservedByLatest, AbortedLatestStaysSilent
<1>2. ASSUME TypeOK, StageInv, AbortInv, [Next]_vars PROVE AbortInv'
  <2> USE <1>2 DEF TypeOK, StageInv, Begun, AbortInv, ReservedByLatest,
                   AbortedLatestStaysSilent
  <2>1. CASE StartCall
    BY <2>1 DEF StartCall, Reserve, Goto, Free
  <2>2. CASE StopCall
    BY <2>2 DEF StopCall, StopTakes, CanStop
  <2>3. CASE StopListens
    BY <2>3 DEF StopListens, MicOff
  <2>4. CASE StopFinalizes
    BY <2>4 DEF StopFinalizes, StopReads, StopCloses
  <2>5. CASE StopAnswers
    BY <2>5 DEF StopAnswers, StopCloses
  <2>6. CASE Abort
    BY <2>6 DEF Abort, InFlight
  <2>7. CASE PressBegins
    BY <2>7 DEF PressBegins
  <2>8. CASE PressSeesStarting
    BY <2>8 DEF PressSeesStarting
  <2>9. CASE PressSeesBusy
    BY <2>9 DEF PressSeesBusy
  <2>10. CASE PressStarts
    BY <2>10 DEF PressStarts, Reserve, Goto, Free
  <2>11. CASE PressRequests
    BY <2>11 DEF PressRequests
  <2>12. CASE PressStops
    BY <2>12 DEF PressStops, StopIfRecording, StopTakes, CanStop
  <2>13. ASSUME NEW a \in Attempts, StartCaptures(a) PROVE AbortInv'
    BY <2>13 DEF StartCaptures, Goto, MicOff, At
  <2>14. ASSUME NEW a \in Attempts, StartConnects(a) PROVE AbortInv'
    BY <2>14 DEF StartConnects, Goto, MicOff, At
  <2>15. ASSUME NEW a \in Attempts, StartFails(a) PROVE AbortInv'
    BY <2>15 DEF StartFails, Goto, At
  <2>16. ASSUME NEW a \in Attempts, StartCommits(a) PROVE AbortInv'
    BY <2>16 DEF StartCommits, Goto, MicOff, At
  <2>17. ASSUME NEW a \in Attempts, StartDiscards(a) PROVE AbortInv'
    BY <2>17 DEF StartDiscards, Goto, At
  <2>18. ASSUME NEW a \in Attempts, StartSpawns(a) PROVE AbortInv'
    BY <2>18 DEF StartSpawns, Goto, At
  <2>19. ASSUME NEW a \in Attempts, StartReturns(a) PROVE AbortInv'
    BY <2>19 DEF StartReturns, Goto, At
  <2>20. ASSUME NEW a \in Attempts, StartStops(a) PROVE AbortInv'
    BY <2>20 DEF StartStops, Goto, At, StopIfRecording, StopTakes, CanStop
  <2>21. ASSUME NEW a \in Attempts, TaskText(a) PROVE AbortInv'
    BY <2>21 DEF TaskText
  <2>22. ASSUME NEW a \in Attempts, TaskFails(a) PROVE AbortInv'
    BY <2>22 DEF TaskFails, TaskGoto
  <2>23. ASSUME NEW a \in Attempts, TaskDrains(a) PROVE AbortInv'
    BY <2>23 DEF TaskDrains, TaskGoto
  <2>24. ASSUME NEW a \in Attempts, TaskDisconnects(a) PROVE AbortInv'
    BY <2>24 DEF TaskDisconnects, TaskGoto
  <2>25. ASSUME NEW a \in Attempts, TaskSurfaces(a) PROVE AbortInv'
    BY <2>25 DEF TaskSurfaces, TaskGoto, MicOff
  <2>26. ASSUME NEW a \in Attempts, DeadlineWakes(a) PROVE AbortInv'
    BY <2>26 DEF DeadlineWakes
  <2>27. ASSUME NEW a \in Attempts, DeadlineStops(a) PROVE AbortInv'
    BY <2>27 DEF DeadlineStops, StopIfRecording, StopTakes, CanStop
  <2>28. CASE UNCHANGED vars
    BY <2>28
  <2>29. QED
    BY <2>1, <2>2, <2>3, <2>4, <2>5, <2>6, <2>7, <2>8, <2>9, <2>10, <2>11,
        <2>12, <2>13, <2>14, <2>15, <2>16, <2>17, <2>18, <2>19, <2>20, <2>21,
        <2>22, <2>23, <2>24, <2>25, <2>26, <2>27, <2>28 DEF Next, Stop, Press,
        Start, Task
<1>3. QED
  BY <1>1, <1>2, AskTypeCorrect, OneStageAtATime, PTL DEF Spec

\* Every start in flight holds the reservation or was robbed after an abort.
THEOREM LossesHaveCause == Spec => []LossInv
<1>1. ASSUME Init PROVE LossInv
  BY <1>1 DEF Init, LossInv, FlightOwned, InFlight, LostOnlyAfterAbort, At
<1>2. ASSUME TypeOK, StageInv, LossInv, [Next]_vars PROVE LossInv'
  <2> USE <1>2 DEF TypeOK, StageInv, Begun, OneStage, LossInv, FlightOwned,
                   InFlight, LostOnlyAfterAbort, At
  <2>1. CASE StartCall
    BY <2>1 DEF StartCall, Reserve, Goto, Free
  <2>2. CASE StopCall
    BY <2>2 DEF StopCall, StopTakes, CanStop
  <2>3. CASE StopListens
    BY <2>3 DEF StopListens, MicOff
  <2>4. CASE StopFinalizes
    BY <2>4 DEF StopFinalizes, StopReads, StopCloses
  <2>5. CASE StopAnswers
    BY <2>5 DEF StopAnswers, StopCloses
  <2>6. CASE Abort
    BY <2>6 DEF Abort
  <2>7. CASE PressBegins
    BY <2>7 DEF PressBegins
  <2>8. CASE PressSeesStarting
    BY <2>8 DEF PressSeesStarting
  <2>9. CASE PressSeesBusy
    BY <2>9 DEF PressSeesBusy
  <2>10. CASE PressStarts
    BY <2>10 DEF PressStarts, Reserve, Goto, Free
  <2>11. CASE PressRequests
    BY <2>11 DEF PressRequests
  <2>12. CASE PressStops
    BY <2>12 DEF PressStops, StopIfRecording, StopTakes, CanStop
  <2>13. ASSUME NEW a \in Attempts, StartCaptures(a) PROVE LossInv'
    BY <2>13 DEF StartCaptures, Goto, MicOff, At
  <2>14. ASSUME NEW a \in Attempts, StartConnects(a) PROVE LossInv'
    BY <2>14 DEF StartConnects, Goto, MicOff, At
  <2>15. ASSUME NEW a \in Attempts, StartFails(a) PROVE LossInv'
    BY <2>15 DEF StartFails, Goto, At
  <2>16. ASSUME NEW a \in Attempts, StartCommits(a) PROVE LossInv'
    <3>1. a \in InFlight /\ a \notin InFlight'
      BY <2>16 DEF StartCommits, Goto
    <3>2. InFlight' \subseteq InFlight
      BY <2>16 DEF StartCommits, Goto
    <3>3. aborted' = aborted /\ attempts' = attempts /\ ~starting'
      BY <2>16 DEF StartCommits
    <3>4. ASSUME NEW c \in InFlight' PROVE \E b \in aborted : b <= c
      <4>1. c \in InFlight /\ c # a
        BY <3>1, <3>2, <3>4
      <4>2. CASE \E b \in aborted : b <= c
        BY <4>2
      <4>3. CASE starting /\ c = attempts
        <5>1. a <= attempts /\ a # attempts
          BY <3>1, <4>1, <4>3
        <5>2. PICK b \in aborted : b <= a
          BY <3>1, <5>1
        <5>3. b \in Attempts /\ b <= c
          BY <4>3, <5>1, <5>2
        <5>4. QED
          BY <5>2, <5>3
      <4>4. QED
        BY <4>1, <4>2, <4>3
    <3>5. FlightOwned'
      BY <3>3, <3>4
    <3>6. ASSUME NEW c \in Attempts, startPc'[c] = "discarding"
          PROVE  \E b \in aborted : b <= c
      <4>1. CASE c # a
        BY <2>16, <3>6, <4>1 DEF StartCommits, Goto
      <4>2. CASE c = a
        <5>1. ~starting
          BY <2>16, <3>6, <4>2 DEF StartCommits, Goto
        <5>2. QED
          BY <3>1, <4>2, <5>1
      <4>3. QED
        BY <4>1, <4>2
    <3>7. LostOnlyAfterAbort'
      BY <3>3, <3>6
    <3>8. QED
      BY <3>5, <3>7
  <2>17. ASSUME NEW a \in Attempts, StartDiscards(a) PROVE LossInv'
    BY <2>17 DEF StartDiscards, Goto, At
  <2>18. ASSUME NEW a \in Attempts, StartSpawns(a) PROVE LossInv'
    BY <2>18 DEF StartSpawns, Goto, At
  <2>19. ASSUME NEW a \in Attempts, StartReturns(a) PROVE LossInv'
    BY <2>19 DEF StartReturns, Goto, At
  <2>20. ASSUME NEW a \in Attempts, StartStops(a) PROVE LossInv'
    BY <2>20 DEF StartStops, Goto, At, StopIfRecording, StopTakes, CanStop
  <2>21. ASSUME NEW a \in Attempts, TaskText(a) PROVE LossInv'
    BY <2>21 DEF TaskText
  <2>22. ASSUME NEW a \in Attempts, TaskFails(a) PROVE LossInv'
    BY <2>22 DEF TaskFails, TaskGoto
  <2>23. ASSUME NEW a \in Attempts, TaskDrains(a) PROVE LossInv'
    BY <2>23 DEF TaskDrains, TaskGoto
  <2>24. ASSUME NEW a \in Attempts, TaskDisconnects(a) PROVE LossInv'
    BY <2>24 DEF TaskDisconnects, TaskGoto
  <2>25. ASSUME NEW a \in Attempts, TaskSurfaces(a) PROVE LossInv'
    BY <2>25 DEF TaskSurfaces, TaskGoto, MicOff
  <2>26. ASSUME NEW a \in Attempts, DeadlineWakes(a) PROVE LossInv'
    BY <2>26 DEF DeadlineWakes
  <2>27. ASSUME NEW a \in Attempts, DeadlineStops(a) PROVE LossInv'
    BY <2>27 DEF DeadlineStops, StopIfRecording, StopTakes, CanStop
  <2>28. CASE UNCHANGED vars
    BY <2>28
  <2>29. QED
    BY <2>1, <2>2, <2>3, <2>4, <2>5, <2>6, <2>7, <2>8, <2>9, <2>10, <2>11,
        <2>12, <2>13, <2>14, <2>15, <2>16, <2>17, <2>18, <2>19, <2>20, <2>21,
        <2>22, <2>23, <2>24, <2>25, <2>26, <2>27, <2>28 DEF Next, Stop, Press,
        Start, Task
<1>3. QED
  BY <1>1, <1>2, AskTypeCorrect, OneStageAtATime, PTL DEF Spec

\* An aborted start does not record unless another one followed it.
THEOREM AbortIsFinal == Spec => []AbortedLatestStaysSilent
<1>1. AbortInv => AbortedLatestStaysSilent
  BY DEF AbortInv
<1>2. QED
  BY <1>1, AbortsOwnReservations, PTL

\* A start is discarded without a word only after an abort.
THEOREM LossNeedsAbort == Spec => []LostOnlyAfterAbort
<1>1. LossInv => LostOnlyAfterAbort
  BY DEF LossInv
<1>2. QED
  BY <1>1, LossesHaveCause, PTL

-----------------------------------------------------------------------------
(* Liveness. That a step is ENABLED is a state predicate, which TLC         *)
(* evaluates and the provers do not: the theorems below take NothingStuck   *)
(* as a hypothesis, and derive from it and from fairness that whatever      *)
(* begins, ends, and that no failure is silent.                             *)

\* The reservation is being used: its start will commit it or clear it.
ReservationRuns == starting => attempts \in InFlight

\* A session that records was committed, and has a deadline as soon as its tasks
\* are spawned.
SessionIsTimed ==
  session # NoAttempt =>
    \/ At(session, "committed")
    \/ /\ startPc[session] \in {"started", "stopping", "over"}
       /\ deadline[session] \in {"armed", "reached"}

\* A microphone that is on is held by a start, by the session, or by a stop.
MicIsHeld ==
  \A a \in Attempts :
    mic[a] => \/ startPc[a] \in {"connecting", "connected"}
              \/ session = a
              \/ (stopOf = a /\ stopPc = "taken")

\* A task belongs to the session, to the stop, or to an attempt that is settled;
\* one that has surfaced its error no longer has the session.
TaskIsOwned ==
  \A a \in Attempts :
    /\ task[a] # "none" => startPc[a] \in {"started", "stopping", "over"}
    /\ (task[a] # "none" \/ At(a, "committed")) =>
         session = a \/ stopOf = a \/ a \in shown \/ a \in aborted
    /\ err[a] => task[a] \in {"failing", "over"}
    /\ (task[a] = "over" /\ err[a]) => session # a

HeldInv == ReservationRuns /\ SessionIsTimed /\ MicIsHeld /\ TaskIsOwned

LEMMA HeldAlways == Spec => []HeldInv
<1>1. ASSUME Init PROVE HeldInv
  BY <1>1 DEF Init, HeldInv, ReservationRuns, SessionIsTimed, MicIsHeld, TaskIsOwned, At
<1>2. ASSUME TypeOK, StageInv, HeldInv, [Next]_vars PROVE HeldInv'
  <2> USE <1>2 DEF TypeOK, StageInv, Begun, OneStage, HeldInv, ReservationRuns, SessionIsTimed, MicIsHeld,
                   TaskIsOwned, InFlight, At
  <2>1. CASE StartCall
    BY <2>1 DEF StartCall, Reserve, Goto, Free
  <2>2. CASE StopCall
    BY <2>2 DEF StopCall, StopTakes, CanStop
  <2>3. CASE StopListens
    <3>1. MicIsHeld'
      BY <2>3 DEF StopListens, MicOff
    <3>2. ReservationRuns' /\ SessionIsTimed' /\ TaskIsOwned'
      BY <2>3 DEF StopListens
    <3>3. QED
      BY <3>1, <3>2
  <2>4. CASE StopFinalizes
    BY <2>4 DEF StopFinalizes, StopReads, StopCloses
  <2>5. CASE StopAnswers
    BY <2>5 DEF StopAnswers, StopCloses
  <2>6. CASE Abort
    BY <2>6 DEF Abort
  <2>7. CASE PressBegins
    BY <2>7 DEF PressBegins
  <2>8. CASE PressSeesStarting
    BY <2>8 DEF PressSeesStarting
  <2>9. CASE PressSeesBusy
    BY <2>9 DEF PressSeesBusy
  <2>10. CASE PressStarts
    <3>1. CASE Free /\ attempts < MaxAttempts
      <4>1. Reserve(TRUE) /\ UNCHANGED <<stop, parts, aborted, shown>>
        BY <2>10, <3>1 DEF PressStarts
      <4>2. attempts + 1 \in Attempts /\ startPc[attempts + 1] = "none"
        BY <3>1
      <4>3. startPc' = [startPc EXCEPT ![attempts + 1] = "reserved"]
        BY <4>1 DEF Reserve, Goto
      <4>4. /\ attempts' = attempts + 1 /\ session' = session
        BY <4>1 DEF Reserve
      <4>5. ReservationRuns'
        BY <4>2, <4>3, <4>4
      <4>6. SessionIsTimed' /\ MicIsHeld'
        BY <3>1, <4>1, <4>2, <4>3, <4>4 DEF Free
      <4>7. TaskIsOwned'
        BY <4>1, <4>2, <4>3, <4>4
      <4>8. QED
        BY <4>5, <4>6, <4>7
    <3>2. CASE ~(Free /\ attempts < MaxAttempts)
      BY <2>10, <3>2 DEF PressStarts
    <3>3. QED
      BY <3>1, <3>2
  <2>11. CASE PressRequests
    BY <2>11 DEF PressRequests
  <2>12. CASE PressStops
    BY <2>12 DEF PressStops, StopIfRecording, StopTakes, CanStop
  <2>13. ASSUME NEW a \in Attempts, StartCaptures(a) PROVE HeldInv'
    <3>1. ReservationRuns'
      BY <2>13 DEF StartCaptures, Goto
    <3>2. SessionIsTimed'
      BY <2>13 DEF StartCaptures, Goto
    <3>3. MicIsHeld'
      BY <2>13 DEF StartCaptures, Goto
    <3>4. TaskIsOwned'
      BY <2>13 DEF StartCaptures, Goto
    <3>5. QED
      BY <3>1, <3>2, <3>3, <3>4
  <2>14. ASSUME NEW a \in Attempts, StartConnects(a) PROVE HeldInv'
    BY <2>14 DEF StartConnects, Goto, MicOff
  <2>15. ASSUME NEW a \in Attempts, StartFails(a) PROVE HeldInv'
    BY <2>15 DEF StartFails, Goto
  <2>16. ASSUME NEW a \in Attempts, StartCommits(a) PROVE HeldInv'
    <3>1. ReservationRuns'
      BY <2>16 DEF StartCommits, Goto
    <3>2. SessionIsTimed'
      BY <2>16 DEF StartCommits, Goto
    <3>3. MicIsHeld'
      BY <2>16 DEF StartCommits, Goto, MicOff
    <3>4. TaskIsOwned'
      BY <2>16 DEF StartCommits, Goto
    <3>5. QED
      BY <3>1, <3>2, <3>3, <3>4
  <2>17. ASSUME NEW a \in Attempts, StartDiscards(a) PROVE HeldInv'
    BY <2>17 DEF StartDiscards, Goto
  <2>18. ASSUME NEW a \in Attempts, StartSpawns(a) PROVE HeldInv'
    BY <2>18 DEF StartSpawns, Goto
  <2>19. ASSUME NEW a \in Attempts, StartReturns(a) PROVE HeldInv'
    BY <2>19 DEF StartReturns, Goto
  <2>20. ASSUME NEW a \in Attempts, StartStops(a) PROVE HeldInv'
    BY <2>20 DEF StartStops, Goto, StopIfRecording, StopTakes, CanStop
  <2>21. ASSUME NEW a \in Attempts, TaskText(a) PROVE HeldInv'
    BY <2>21 DEF TaskText
  <2>22. ASSUME NEW a \in Attempts, TaskFails(a) PROVE HeldInv'
    BY <2>22 DEF TaskFails, TaskGoto
  <2>23. ASSUME NEW a \in Attempts, TaskDrains(a) PROVE HeldInv'
    BY <2>23 DEF TaskDrains, TaskGoto
  <2>24. ASSUME NEW a \in Attempts, TaskDisconnects(a) PROVE HeldInv'
    BY <2>24 DEF TaskDisconnects, TaskGoto
  <2>25. ASSUME NEW a \in Attempts, TaskSurfaces(a) PROVE HeldInv'
    BY <2>25 DEF TaskSurfaces, TaskGoto, MicOff
  <2>26. ASSUME NEW a \in Attempts, DeadlineWakes(a) PROVE HeldInv'
    BY <2>26 DEF DeadlineWakes
  <2>27. ASSUME NEW a \in Attempts, DeadlineStops(a) PROVE HeldInv'
    BY <2>27 DEF DeadlineStops, StopIfRecording, StopTakes, CanStop
  <2>28. CASE UNCHANGED vars
    BY <2>28
  <2>29. QED
    BY <2>1, <2>2, <2>3, <2>4, <2>5, <2>6, <2>7, <2>8, <2>9, <2>10, <2>11,
        <2>12, <2>13, <2>14, <2>15, <2>16, <2>17, <2>18, <2>19, <2>20, <2>21,
        <2>22, <2>23, <2>24, <2>25, <2>26, <2>27, <2>28 DEF Next, Stop, Press,
        Start, Task
<1>3. QED
  BY <1>1, <1>2, AskTypeCorrect, OneStageAtATime, PTL DEF Spec

\* The fair behaviours in which nobody is ever stuck.
Goes == FairSpec /\ []NothingStuck

\* Where a stop that stands at pc goes next, and a start.
StopAfter(pc) ==
  CASE pc = "taken"     -> {"waiting"}
    [] pc = "waiting"   -> {"answering", "none"}
    [] pc = "answering" -> {"none"}

StartAfter(pc) ==
  CASE pc = "reserved"   -> {"connecting", "failed"}
    [] pc = "connecting" -> {"connected", "failed"}
    [] pc = "connected"  -> {"committed", "discarding"}
    [] pc = "failed"     -> {"over"}
    [] pc = "committed"  -> {"started"}
    [] pc = "discarding" -> {"started"}
    [] pc = "started"    -> {"stopping", "over"}
    [] pc = "stopping"   -> {"over"}

\* A step of the stop moves it on, and shows a result where it ends.
LEMMA StopGoesOn ==
  ASSUME TypeOK, Stop
  PROVE  /\ stopPc # "none" /\ stopPc' \in StopAfter(stopPc)
         /\ stopPc' # "none" => stopOf' = stopOf
         /\ stopPc' = "none" => stopOf \in shown'
<1> USE DEF StopAfter, TypeOK
<1>1. CASE StopListens
  BY <1>1 DEF StopListens
<1>2. CASE StopFinalizes
  BY <1>2 DEF StopFinalizes, StopReads, StopCloses
<1>3. CASE StopAnswers
  BY <1>3 DEF StopAnswers, StopCloses
<1>4. QED
  BY <1>1, <1>2, <1>3 DEF Stop

\* Nobody else moves it once it is processing.
LEMMA OnlyStopMoves ==
  ASSUME [Next]_vars, processing, ~Stop
  PROVE  UNCHANGED <<stopPc, stopOf, processing>>
<1> USE DEF StopIfRecording, CanStop
<1>1. CASE UNCHANGED vars
  BY <1>1
<1>2. CASE StartCall \/ StopCall \/ Abort \/ PressBegins
  BY <1>2 DEF StartCall, Free, StopCall, Abort, PressBegins
<1>3. CASE Press
  BY <1>3 DEF Press, PressSeesStarting, PressSeesBusy, PressStarts, Free, PressRequests, PressStops
<1>4. ASSUME NEW a \in Attempts, Start(a) PROVE UNCHANGED <<stopPc, stopOf, processing>>
  BY <1>4 DEF Start, StartCaptures, StartConnects, StartFails, StartCommits, StartDiscards, StartSpawns,
              StartReturns, StartStops
<1>5. ASSUME NEW a \in Attempts, Task(a) PROVE UNCHANGED <<stopPc, stopOf, processing>>
  BY <1>5 DEF Task, TaskText, TaskFails, TaskDrains, TaskDisconnects, TaskSurfaces
<1>6. ASSUME NEW a \in Attempts, DeadlineWakes(a) \/ DeadlineStops(a)
      PROVE  UNCHANGED <<stopPc, stopOf, processing>>
  BY <1>6 DEF DeadlineWakes, DeadlineStops
<1>7. QED
  BY <1>1, <1>2, <1>3, <1>4, <1>5, <1>6 DEF Next

StopMovesFrom(pc) == stopPc = pc ~> stopPc \in StopAfter(pc)

\* So a stop leaves the place where it stands, ...
LEMMA StopLeaves ==
  ASSUME NEW pc \in StopPc \ {"none"}
  PROVE  Goes => StopMovesFrom(pc)
<1>1. TypeOK /\ stopPc = pc /\ [Next]_vars => (stopPc = pc)' \/ (stopPc \in StopAfter(pc))'
  BY StopGoesOn, OnlyStopMoves DEF TypeOK
<1>2. TypeOK /\ stopPc = pc /\ <<Stop>>_vars => (stopPc \in StopAfter(pc))'
  BY StopGoesOn
<1>3. NothingStuck /\ TypeOK /\ stopPc = pc => ENABLED <<Stop>>_vars
  BY DEF NothingStuck, TypeOK
<1>4. QED
  BY <1>1, <1>2, <1>3, AskTypeCorrect, PTL
     DEF Goes, FairSpec, Spec, Fairness, CallersAreFair, StopMovesFrom

\* ... and returns: `processing` is cleared, in every fair behaviour where nobody
\* is stuck (stop_ask_dictation, its error paths and its waits).
THEOREM AskStopsReturn == FairSpec /\ []NothingStuck => StopReturnsInTheEnd
<1>1. TypeOK => (stopPc = "none" => ~processing)
  BY DEF TypeOK
<1>2. TypeOK => (processing => stopPc = "taken" \/ stopPc = "waiting" \/ stopPc = "answering")
  BY DEF TypeOK, StopPc
<1>3. /\ stopPc \in StopAfter("taken") => stopPc = "waiting"
      /\ stopPc \in StopAfter("waiting") => stopPc = "answering" \/ stopPc = "none"
      /\ stopPc \in StopAfter("answering") => stopPc = "none"
  BY DEF StopAfter
<1>4. Goes => StopMovesFrom("taken")
  BY StopLeaves DEF StopPc
<1>5. Goes => StopMovesFrom("waiting")
  BY StopLeaves DEF StopPc
<1>6. Goes => StopMovesFrom("answering")
  BY StopLeaves DEF StopPc
<1>7. QED
  BY <1>1, <1>2, <1>3, <1>4, <1>5, <1>6, AskTypeCorrect, PTL
     DEF Goes, FairSpec, StopMovesFrom, StopReturnsInTheEnd

Answers(a) == stopOf = a ~> a \in shown

\* What a stop has taken, it shows something of.
LEMMA StopsShow ==
  ASSUME NEW a \in Attempts
  PROVE  Goes => Answers(a)
<1>1. TypeOK /\ stopOf = a /\ [Next]_vars => (stopOf = a)' \/ (a \in shown)'
  <2> SUFFICES ASSUME TypeOK, stopOf = a, [Next]_vars PROVE stopOf' = a \/ a \in shown'
    OBVIOUS
  <2>1. processing
    BY DEF TypeOK
  <2>2. CASE Stop
    BY <2>2, StopGoesOn
  <2>3. QED
    BY <2>1, <2>2, OnlyStopMoves
<1>2. TypeOK /\ stopOf = a => processing
  BY DEF TypeOK
<1>3. QED
  BY <1>1, <1>2, AskTypeCorrect, AskStopsReturn, PTL
     DEF Goes, FairSpec, Spec, StopReturnsInTheEnd, Answers

\* A step of a start moves it on; nobody else does once it has begun.
LEMMA StartGoesOn ==
  ASSUME NEW a \in Attempts, TypeOK, Start(a)
  PROVE  startPc'[a] \in StartAfter(startPc[a])
<1> USE DEF StartAfter, TypeOK, At, Goto
<1>1. CASE StartCaptures(a) \/ StartConnects(a) \/ StartFails(a)
  BY <1>1 DEF StartCaptures, StartConnects, StartFails
<1>2. CASE StartCommits(a) \/ StartDiscards(a) \/ StartSpawns(a)
  BY <1>2 DEF StartCommits, StartDiscards, StartSpawns
<1>3. CASE StartReturns(a)
  BY <1>3 DEF StartReturns
<1>4. CASE StartStops(a)
  BY <1>4 DEF StartStops
<1>5. QED
  BY <1>1, <1>2, <1>3, <1>4 DEF Start

LEMMA OnlyStartMoves ==
  ASSUME NEW a \in Attempts, TypeOK, Begun, [Next]_vars, startPc[a] # "none", ~Start(a)
  PROVE  startPc'[a] = startPc[a]
<1> USE DEF Goto
<1>1. CASE UNCHANGED vars
  BY <1>1
<1>2. ASSUME NEW h \in BOOLEAN, Reserve(h) PROVE startPc'[a] = startPc[a]
  <2>1. a # attempts + 1
    BY DEF Begun, TypeOK
  <2>2. QED
    BY <1>2, <2>1 DEF Reserve
<1>3. CASE StartCall \/ StopCall \/ Abort \/ PressBegins
  BY <1>2, <1>3 DEF StartCall, StopCall, Abort, PressBegins
<1>4. CASE Press
  BY <1>2, <1>4 DEF Press, PressSeesStarting, PressSeesBusy, PressStarts, PressRequests, PressStops
<1>5. ASSUME NEW b \in Attempts, Start(b) PROVE startPc'[a] = startPc[a]
  <2>1. a # b
    BY <1>5
  <2>2. \E pc : startPc' = [startPc EXCEPT ![b] = pc]
    BY <1>5 DEF Start, StartCaptures, StartConnects, StartFails, StartCommits, StartDiscards, StartSpawns,
                StartReturns, StartStops
  <2>3. QED
    BY <2>1, <2>2 DEF TypeOK
<1>6. ASSUME NEW b \in Attempts, Task(b) PROVE startPc'[a] = startPc[a]
  BY <1>6 DEF Task, TaskText, TaskFails, TaskDrains, TaskDisconnects, TaskSurfaces
<1>7. ASSUME NEW b \in Attempts, DeadlineWakes(b) \/ DeadlineStops(b) PROVE startPc'[a] = startPc[a]
  BY <1>7 DEF DeadlineWakes, DeadlineStops
<1>8. CASE Stop
  BY <1>8 DEF Stop, StopListens, StopFinalizes, StopReads, StopCloses, StopAnswers
<1>9. QED
  BY <1>1, <1>3, <1>4, <1>5, <1>6, <1>7, <1>8 DEF Next

StartMovesFrom(a, pc) == startPc[a] = pc ~> startPc[a] \in StartAfter(pc)

LEMMA StartLeaves ==
  ASSUME NEW a \in Attempts, NEW pc \in StartPc \ {"none", "over"}
  PROVE  Goes => StartMovesFrom(a, pc)
<1>1. TypeOK /\ StageInv /\ startPc[a] = pc /\ [Next]_vars =>
        (startPc[a] = pc)' \/ (startPc[a] \in StartAfter(pc))'
  BY StartGoesOn, OnlyStartMoves DEF StageInv
<1>2. TypeOK /\ startPc[a] = pc /\ <<Start(a)>>_vars => (startPc[a] \in StartAfter(pc))'
  BY StartGoesOn
<1>3. NothingStuck /\ startPc[a] = pc => ENABLED <<Start(a)>>_vars
  BY DEF NothingStuck
<1>4. Fairness => AttemptIsFair(a)
  BY DEF Fairness
<1>5. QED
  BY <1>1, <1>2, <1>3, <1>4, AskTypeCorrect, OneStageAtATime, PTL
     DEF Goes, FairSpec, Spec, AttemptIsFair, StartMovesFrom

\* The start is under way, and has returned.
Underway(a)   == startPc[a] \notin {"none", "over"}
StartEnds(a) == Underway(a) ~> startPc[a] = "over"

\* Every start returns (start_reserved_ask_dictation, start_ask_shortcut).
LEMMA StartsReturn ==
  ASSUME NEW a \in Attempts
  PROVE  Goes => StartEnds(a)
<1>1. TypeOK => (Underway(a) =>
        \/ At(a, "reserved") \/ At(a, "connecting") \/ At(a, "connected") \/ At(a, "failed")
        \/ At(a, "committed") \/ At(a, "discarding") \/ At(a, "started") \/ At(a, "stopping"))
  BY DEF Underway, TypeOK, StartPc, At
<1>2. /\ startPc[a] \in StartAfter("reserved") => At(a, "connecting") \/ At(a, "failed")
      /\ startPc[a] \in StartAfter("connecting") => At(a, "connected") \/ At(a, "failed")
      /\ startPc[a] \in StartAfter("connected") => At(a, "committed") \/ At(a, "discarding")
      /\ startPc[a] \in StartAfter("failed") => At(a, "over")
      /\ startPc[a] \in StartAfter("committed") => At(a, "started")
      /\ startPc[a] \in StartAfter("discarding") => At(a, "started")
      /\ startPc[a] \in StartAfter("started") => At(a, "stopping") \/ At(a, "over")
      /\ startPc[a] \in StartAfter("stopping") => At(a, "over")
  BY DEF StartAfter, At
<1>3. Goes => StartMovesFrom(a, "reserved")
  BY StartLeaves DEF StartPc
<1>4. Goes => StartMovesFrom(a, "connecting")
  BY StartLeaves DEF StartPc
<1>5. Goes => StartMovesFrom(a, "connected")
  BY StartLeaves DEF StartPc
<1>6. Goes => StartMovesFrom(a, "failed")
  BY StartLeaves DEF StartPc
<1>7. Goes => StartMovesFrom(a, "committed")
  BY StartLeaves DEF StartPc
<1>8. Goes => StartMovesFrom(a, "discarding")
  BY StartLeaves DEF StartPc
<1>9. Goes => StartMovesFrom(a, "started")
  BY StartLeaves DEF StartPc
<1>10. Goes => StartMovesFrom(a, "stopping")
  BY StartLeaves DEF StartPc
<1>11. QED
  BY <1>1, <1>2, <1>3, <1>4, <1>5, <1>6, <1>7, <1>8, <1>9, <1>10, AskTypeCorrect, PTL
     DEF Goes, FairSpec, StartMovesFrom, StartEnds, At

\* While a session records, nothing else happens to Ask: a step leaves the
\* session alone, frees Ask, or is a stop that takes it.
LEMMA SessionStep ==
  ASSUME NEW a \in Attempts, OneStage, session = a, [Next]_vars
  PROVE  \/ session' = a
         \/ processing'
         \/ Free'
<1> USE DEF Free, StopIfRecording, StopTakes, CanStop
<1>0. session # NoAttempt /\ ~starting /\ ~processing
  BY DEF OneStage
<1>1. CASE UNCHANGED vars
  BY <1>1
<1>2. CASE StartCall \/ StopCall \/ PressBegins
  BY <1>0, <1>2 DEF StartCall, StopCall, PressBegins
<1>a. CASE Abort
  BY <1>0, <1>a DEF Abort
<1>3. CASE Press
  <2>1. CASE PressStops
    BY <2>1 DEF PressStops
  <2>2. CASE PressStarts
    BY <1>0, <2>2 DEF PressStarts
  <2>3. QED
    BY <1>3, <2>1, <2>2 DEF Press, PressSeesStarting, PressSeesBusy, PressRequests
<1>4. ASSUME NEW b \in Attempts, Start(b) PROVE session' = a \/ processing'
  BY <1>0, <1>4 DEF Start, StartCaptures, StartConnects, StartFails, StartCommits, StartDiscards,
                    StartSpawns, StartReturns, StartStops
<1>5. ASSUME NEW b \in Attempts, Task(b) PROVE session' = a \/ Free'
  BY <1>0, <1>5 DEF Task, TaskText, TaskFails, TaskDrains, TaskDisconnects, TaskSurfaces
<1>6. ASSUME NEW b \in Attempts, DeadlineWakes(b) \/ DeadlineStops(b) PROVE session' = a \/ processing'
  BY <1>6 DEF DeadlineWakes, DeadlineStops
<1>7. CASE Stop
  BY <1>7 DEF Stop, StopListens, StopFinalizes, StopReads, StopCloses, StopAnswers
<1>8. QED
  BY <1>1, <1>2, <1>a, <1>3, <1>4, <1>5, <1>6, <1>7 DEF Next

\* Only the start of a committed attempt spawns its deadline task, which alone
\* moves it on.
LEMMA DeadlineStep ==
  ASSUME NEW a \in Attempts, TypeOK, ~At(a, "committed"), [Next]_vars
  PROVE  \/ deadline'[a] = deadline[a]
         \/ DeadlineWakes(a)
         \/ DeadlineStops(a)
<1> USE DEF TypeOK
<1>1. CASE UNCHANGED vars
  BY <1>1
<1>2. CASE StartCall \/ StopCall \/ Abort \/ PressBegins
  BY <1>2 DEF StartCall, StopCall, Abort, PressBegins
<1>3. CASE Press
  BY <1>3 DEF Press, PressSeesStarting, PressSeesBusy, PressStarts, PressRequests, PressStops
<1>4. ASSUME NEW b \in Attempts, Start(b) PROVE deadline'[a] = deadline[a]
  BY <1>4 DEF Start, StartCaptures, StartConnects, StartFails, StartCommits, StartDiscards, StartSpawns,
              StartReturns, StartStops
<1>5. ASSUME NEW b \in Attempts, Task(b) PROVE deadline'[a] = deadline[a]
  BY <1>5 DEF Task, TaskText, TaskFails, TaskDrains, TaskDisconnects, TaskSurfaces
<1>6. ASSUME NEW b \in Attempts, b # a, DeadlineWakes(b) \/ DeadlineStops(b) PROVE deadline'[a] = deadline[a]
  BY <1>6 DEF DeadlineWakes, DeadlineStops
<1>7. CASE Stop
  BY <1>7 DEF Stop, StopListens, StopFinalizes, StopReads, StopCloses, StopAnswers
<1>8. QED
  BY <1>1, <1>2, <1>3, <1>4, <1>5, <1>6, <1>7 DEF Next

\* The start has put its session away, or has failed.
Past(a) == startPc[a] \in {"discarding", "committed", "failed", "started", "stopping", "over"}

LEMMA PastStays ==
  ASSUME NEW a \in Attempts, TypeOK, StageInv, [Next]_vars, Past(a)
  PROVE  Past(a)'
<1>1. CASE Start(a)
  BY <1>1, StartGoesOn DEF Past, StartAfter, Start, StartCaptures, StartConnects, StartFails, StartCommits,
                           StartDiscards, StartSpawns, StartReturns, StartStops, At
<1>2. CASE ~Start(a)
  BY <1>2, OnlyStartMoves DEF Past, StageInv
<1>3. QED
  BY <1>1, <1>2

SessionEnds(a) == session = a ~> session # a

\* A session ends, by its deadline if by nothing else: the task finds the
\* session still there, and then nothing is processing that would refuse it.
LEMMA SessionsEnd ==
  ASSUME NEW a \in Attempts
  PROVE  Goes => SessionEnds(a)
<1> DEFINE Records   == session = a
           Committed == At(a, "committed")
           Armed     == deadline[a] = "armed"
           Reached   == deadline[a] = "reached"
<1>1. HeldInv /\ Records => Committed \/ Armed \/ Reached
  BY DEF HeldInv, SessionIsTimed
<1>2. TypeOK /\ ~Committed /\ Records /\ Armed /\ [Next]_vars => Armed' \/ Reached' \/ ~Records'
  BY DeadlineStep DEF DeadlineWakes, DeadlineStops, TypeOK
<1>3. TypeOK /\ StageInv /\ Records /\ Reached /\ <<DeadlineStops(a)>>_vars => ~Records'
  BY DEF DeadlineStops, StopIfRecording, StopTakes, CanStop, StageInv, OneStage
<1>4. TypeOK /\ ~Committed /\ Records /\ Reached /\ [Next]_vars => Reached' \/ DeadlineStops(a)
  BY DeadlineStep DEF DeadlineWakes
<1>5. TypeOK /\ Records /\ Armed /\ <<DeadlineWakes(a)>>_vars => Reached'
  BY DEF DeadlineWakes, TypeOK
<1>6. TypeOK /\ StageInv /\ HeldInv /\ Records /\ ~Committed /\ [Next]_vars => ~Committed' \/ ~Records'
  <2> SUFFICES ASSUME TypeOK, StageInv, HeldInv, Records, ~Committed, [Next]_vars PROVE ~Committed'
    OBVIOUS
  <2>1. startPc[a] \in {"started", "stopping", "over"}
    BY DEF HeldInv, SessionIsTimed
  <2>2. CASE Start(a)
    BY <2>1, <2>2, StartGoesOn DEF StartAfter, Start, StartCaptures, StartConnects, StartFails,
       StartCommits, StartDiscards, StartSpawns, StartReturns, StartStops, At, TypeOK
  <2>3. CASE ~Start(a)
    BY <2>1, <2>3, OnlyStartMoves DEF StageInv, At
  <2>4. QED
    BY <2>2, <2>3
<1>7. Goes => (Committed ~> ~Committed)
  <2>1. Goes => StartMovesFrom(a, "committed")
    BY StartLeaves DEF StartPc
  <2>2. startPc[a] \in StartAfter("committed") => ~Committed
    BY DEF StartAfter, At
  <2>3. QED
    BY <2>1, <2>2, PTL DEF StartMovesFrom, At
<1>8. /\ NothingStuck /\ Armed => ENABLED <<DeadlineWakes(a)>>_vars
      /\ NothingStuck /\ Reached => ENABLED <<DeadlineStops(a)>>_vars
  BY DEF NothingStuck
<1>9. Fairness => AttemptIsFair(a)
  BY DEF Fairness
<1>10. Reached /\ DeadlineStops(a) /\ ~Reached' => <<DeadlineStops(a)>>_vars
  BY DEF DeadlineStops
<1> HIDE DEF Records, Committed, Armed, Reached
<1>11. Goes => (Records /\ ~Committed /\ Reached ~> ~Records)
  BY <1>3, <1>4, <1>6, <1>8, <1>9, <1>10, AskTypeCorrect, OneStageAtATime, HeldAlways, PTL
     DEF Goes, FairSpec, Spec, AttemptIsFair
<1>12. Goes => (Records /\ ~Committed /\ Armed ~> ~Records \/ (Records /\ ~Committed /\ Reached))
  BY <1>2, <1>5, <1>6, <1>8, <1>9, AskTypeCorrect, OneStageAtATime, HeldAlways, PTL
     DEF Goes, FairSpec, Spec, AttemptIsFair
<1>13. Goes => (Records ~> ~Records)
  BY <1>1, <1>7, <1>11, <1>12, HeldAlways, PTL DEF Goes, FairSpec
<1>14. ~Records => session # a
  BY DEF Records
<1>15. QED
  BY <1>13, <1>14, PTL DEF Records, SessionEnds

\* While a stop is processing nothing else happens to Ask, so it is free when the
\* stop returns; ...
ProcessingFrees == processing ~> Free

LEMMA StopsFree == Goes => ProcessingFrees
<1>1. TypeOK /\ StageInv /\ processing /\ [Next]_vars => processing' \/ Free'
  <2> SUFFICES ASSUME TypeOK, OneStage, processing, [Next]_vars PROVE processing' \/ Free'
    BY DEF StageInv
  <2>1. ~starting /\ session = NoAttempt
    BY DEF OneStage, TypeOK
  <2>2. CASE Stop
    BY <2>1, <2>2 DEF Stop, StopListens, StopFinalizes, StopReads, StopAnswers, StopCloses, Free
  <2>3. QED
    BY <2>2, OnlyStopMoves
<1>2. QED
  BY <1>1, AskTypeCorrect, OneStageAtATime, AskStopsReturn, PTL
     DEF Goes, FairSpec, Spec, StopReturnsInTheEnd, ProcessingFrees

\* ... a session that ends has freed Ask or was taken by a stop; ...
SessionFrees(a) == session = a ~> Free

LEMMA SessionsFree ==
  ASSUME NEW a \in Attempts
  PROVE  Goes => SessionFrees(a)
<1>1. TypeOK /\ StageInv /\ session = a /\ [Next]_vars => (session = a)' \/ processing' \/ Free'
  BY SessionStep DEF StageInv
<1>2. session # a => ~(session = a)
  OBVIOUS
<1>3. QED
  BY <1>1, <1>2, SessionsEnd, StopsFree, AskTypeCorrect, OneStageAtATime, PTL
     DEF Goes, FairSpec, Spec, SessionEnds, SessionFrees, ProcessingFrees

\* ... and a start that holds the reservation turns it into a session or drops
\* it, before it returns.
ReservationEnds(a) == starting /\ attempts = a ~> session # NoAttempt \/ Free

LEMMA ReservationsEnd ==
  ASSUME NEW a \in Attempts
  PROVE  Goes => ReservationEnds(a)
<1> DEFINE Reserved(b) == starting /\ attempts = b
           Records     == session # NoAttempt
<1>1. TypeOK /\ StageInv /\ Reserved(a) /\ [Next]_vars => Reserved(a)' \/ Records' \/ Free'
  <2> SUFFICES ASSUME TypeOK, OneStage, Reserved(a), [Next]_vars PROVE Reserved(a)' \/ Records' \/ Free'
    BY DEF StageInv
  <2>0. starting /\ attempts = a /\ session = NoAttempt /\ ~processing
    BY DEF OneStage, TypeOK
  <2> USE DEF Free, StopIfRecording, CanStop
  <2>1. CASE UNCHANGED vars
    BY <2>0, <2>1
  <2>2. CASE StartCall \/ StopCall \/ Abort \/ PressBegins
    BY <2>0, <2>2 DEF StartCall, StopCall, Abort, PressBegins
  <2>3. CASE Press
    BY <2>0, <2>3 DEF Press, PressSeesStarting, PressSeesBusy, PressStarts, PressRequests, PressStops
  <2>4. ASSUME NEW b \in Attempts, Start(b) PROVE Reserved(a)' \/ Records' \/ Free'
    BY <2>0, <2>4 DEF Start, StartCaptures, StartConnects, StartFails, StartCommits, StartDiscards,
                      StartSpawns, StartReturns, StartStops
  <2>5. ASSUME NEW b \in Attempts, Task(b) PROVE Reserved(a)'
    BY <2>0, <2>5 DEF Task, TaskText, TaskFails, TaskDrains, TaskDisconnects, TaskSurfaces
  <2>6. ASSUME NEW b \in Attempts, DeadlineWakes(b) \/ DeadlineStops(b) PROVE Reserved(a)'
    BY <2>0, <2>6 DEF DeadlineWakes, DeadlineStops
  <2>7. CASE Stop
    BY <2>0, <2>7 DEF Stop, StopListens, StopFinalizes, StopReads, StopCloses, StopAnswers, TypeOK
  <2>8. QED
    BY <2>1, <2>2, <2>3, <2>4, <2>5, <2>6, <2>7 DEF Next
<1>2. HeldInv /\ Reserved(a) => Underway(a)
  BY DEF HeldInv, ReservationRuns, InFlight, Underway
<1>3. startPc[a] = "over" => ~Underway(a)
  BY DEF Underway
<1> HIDE DEF Reserved, Records
<1>4. Goes => (Reserved(a) ~> Records \/ Free)
  BY <1>1, <1>2, <1>3, StartsReturn, AskTypeCorrect, OneStageAtATime, HeldAlways, PTL
     DEF Goes, FairSpec, Spec, StartEnds
<1>5. QED
  BY <1>4, PTL DEF Reserved, Records, ReservationEnds

\* Ask becomes free again: it starts, records and processes in turn, and each of
\* them ends (stop_ask_dictation, start_reserved_ask_dictation, the deadline).
THEOREM AskGetsFree == FairSpec /\ []NothingStuck => FreeInTheEnd
<1> DEFINE Records        == session # NoAttempt
           SomeSession    == \E a \in Attempts : session = a
           SomeReserved   == \E a \in Attempts : starting /\ attempts = a
           FreeFrom(a)    == session = a => <>Free
           YieldsFrom(a)  == starting /\ attempts = a => <>(Records \/ Free)
<1>1. TypeOK /\ HeldInv => Free \/ SomeReserved \/ Records \/ processing
  BY DEF Free, TypeOK, HeldInv, ReservationRuns, InFlight
<1>2. TypeOK /\ Records => SomeSession
  BY DEF TypeOK
<1>3. Goes => (SomeSession ~> Free)
  <2>1. Goes => \A a \in Attempts : SessionFrees(a)
    BY SessionsFree
  <2>2. (\A a \in Attempts : SessionFrees(a)) => (\A a \in Attempts : []FreeFrom(a))
    <3>1. ASSUME NEW a \in Attempts PROVE SessionFrees(a) => []FreeFrom(a)
      BY PTL DEF SessionFrees
    <3> HIDE DEF FreeFrom
    <3>2. QED
      BY <3>1
  <2>3. (\A a \in Attempts : []FreeFrom(a)) => [](\A a \in Attempts : FreeFrom(a))
    OBVIOUS
  <2>4. (\A a \in Attempts : FreeFrom(a)) => (SomeSession => <>Free)
    OBVIOUS
  <2>5. QED
    BY <2>1, <2>2, <2>3, <2>4, PTL
<1>4. Goes => (SomeReserved ~> Records \/ Free)
  <2>1. Goes => \A a \in Attempts : ReservationEnds(a)
    BY ReservationsEnd
  <2>2. (\A a \in Attempts : ReservationEnds(a)) => (\A a \in Attempts : []YieldsFrom(a))
    <3>1. ASSUME NEW a \in Attempts PROVE ReservationEnds(a) => []YieldsFrom(a)
      BY PTL DEF ReservationEnds
    <3> HIDE DEF YieldsFrom
    <3>2. QED
      BY <3>1
  <2>3. (\A a \in Attempts : []YieldsFrom(a)) => [](\A a \in Attempts : YieldsFrom(a))
    OBVIOUS
  <2>4. (\A a \in Attempts : YieldsFrom(a)) => (SomeReserved => <>(Records \/ Free))
    OBVIOUS
  <2>5. QED
    BY <2>1, <2>2, <2>3, <2>4, PTL
<1> HIDE DEF Records, SomeSession, SomeReserved
<1>5. QED
  BY <1>1, <1>2, <1>3, <1>4, StopsFree, AskTypeCorrect, HeldAlways, PTL
     DEF Goes, FairSpec, ProcessingFrees, FreeInTheEnd

\* Past and without its session, an attempt does not get it back; nor does a stop
\* come for it.
LEMMA SessionIsGone ==
  ASSUME NEW a \in Attempts, TypeOK, StageInv, [Next]_vars, Past(a), session # a
  PROVE  session' # a
<1> USE DEF StopIfRecording, StopTakes, CanStop
<1>1. CASE UNCHANGED vars
  BY <1>1
<1>2. CASE StartCall \/ StopCall \/ Abort \/ PressBegins
  BY <1>2 DEF StartCall, Reserve, StopCall, Abort, PressBegins
<1>3. CASE Press
  BY <1>3 DEF Press, PressSeesStarting, PressSeesBusy, PressStarts, Reserve, PressRequests, PressStops
<1>4. ASSUME NEW b \in Attempts, Start(b) PROVE session' # a
  <2>1. CASE StartCommits(b)
    <3>1. a # b
      BY <2>1 DEF StartCommits, At, Past
    <3>2. QED
      BY <2>1, <3>1 DEF StartCommits
  <2>2. CASE ~StartCommits(b)
    BY <1>4, <2>2 DEF Start, StartCaptures, StartConnects, StartFails, StartDiscards, StartSpawns,
                      StartReturns, StartStops
  <2>3. QED
    BY <2>1, <2>2
<1>5. ASSUME NEW b \in Attempts, Task(b) PROVE session' # a
  BY <1>5 DEF Task, TaskText, TaskFails, TaskDrains, TaskDisconnects, TaskSurfaces
<1>6. ASSUME NEW b \in Attempts, DeadlineWakes(b) \/ DeadlineStops(b) PROVE session' # a
  BY <1>6 DEF DeadlineWakes, DeadlineStops
<1>7. CASE Stop
  BY <1>7 DEF Stop, StopListens, StopFinalizes, StopReads, StopCloses, StopAnswers
<1>8. QED
  BY <1>1, <1>2, <1>3, <1>4, <1>5, <1>6, <1>7 DEF Next

LEMMA StopIsGone ==
  ASSUME NEW a \in Attempts, TypeOK, [Next]_vars, session # a, stopOf # a
  PROVE  stopOf' # a
<1> USE DEF StopIfRecording, StopTakes, CanStop
<1>1. CASE UNCHANGED vars
  BY <1>1
<1>2. CASE StartCall \/ StopCall \/ Abort \/ PressBegins
  BY <1>2 DEF StartCall, StopCall, Abort, PressBegins
<1>3. CASE Press
  BY <1>3 DEF Press, PressSeesStarting, PressSeesBusy, PressStarts, PressRequests, PressStops
<1>4. ASSUME NEW b \in Attempts, Start(b) PROVE stopOf' # a
  BY <1>4 DEF Start, StartCaptures, StartConnects, StartFails, StartCommits, StartDiscards, StartSpawns,
              StartReturns, StartStops
<1>5. ASSUME NEW b \in Attempts, Task(b) PROVE stopOf' # a
  BY <1>5 DEF Task, TaskText, TaskFails, TaskDrains, TaskDisconnects, TaskSurfaces
<1>6. ASSUME NEW b \in Attempts, DeadlineWakes(b) \/ DeadlineStops(b) PROVE stopOf' # a
  BY <1>6 DEF DeadlineWakes, DeadlineStops
<1>7. CASE Stop
  BY <1>7 DEF Stop, StopListens, StopFinalizes, StopReads, StopCloses, StopAnswers
<1>8. QED
  BY <1>1, <1>2, <1>3, <1>4, <1>5, <1>6, <1>7 DEF Next

\* Every capture ends: by the failure of its start or the commit that is refused,
\* by the stop that takes its session, or with the session.
THEOREM AskMicsAreReleased == FairSpec /\ []NothingStuck => MicIsReleased
<1>1. SUFFICES ASSUME NEW a \in Attempts PROVE Goes => (mic[a] ~> ~mic[a])
  BY DEF MicIsReleased, Goes
<1> DEFINE On      == mic[a]
           Put     == Past(a)
           Mine    == session = a
           Stopped == stopOf = a
\* Who holds a microphone that is on; whoever has let go does not take it back.
<1>2. HeldInv /\ On => Underway(a) \/ Mine \/ Stopped
  BY DEF HeldInv, MicIsHeld, Underway
<1>3. HeldInv /\ On /\ Put => Mine \/ Stopped
  BY DEF HeldInv, MicIsHeld, Past
<1>4. /\ TypeOK /\ StageInv /\ Put /\ [Next]_vars => Put'
      /\ TypeOK /\ StageInv /\ Put /\ ~Mine /\ [Next]_vars => ~Mine'
      /\ TypeOK /\ ~Mine /\ ~Stopped /\ [Next]_vars => ~Stopped'
  BY PastStays, SessionIsGone, StopIsGone
<1>5. HeldInv /\ TypeOK /\ Mine => Put
  BY DEF HeldInv, SessionIsTimed, Past, At
<1>6. startPc[a] = "over" => Put
  BY DEF Past
<1>7. Goes => (Mine ~> ~Mine)
  <2>1. session # a => ~Mine
    OBVIOUS
  <2>2. Goes => SessionEnds(a)
    BY SessionsEnd
  <2>3. QED
    BY <2>1, <2>2, PTL DEF SessionEnds
<1>8. Goes => (Stopped ~> ~Stopped)
  <2>1. TypeOK => (Stopped => processing)
    BY DEF TypeOK
  <2>2. Goes => [](Stopped => processing)
    BY <2>1, AskTypeCorrect, PTL DEF Goes, FairSpec
  <2>3. QED
    BY <2>2, AskStopsReturn, PTL DEF Goes, StopReturnsInTheEnd
<1>9. Goes => (Underway(a) ~> Put)
  BY <1>6, StartsReturn, PTL DEF StartEnds
<1> HIDE DEF On, Put, Mine, Stopped
<1>10. Goes => (Put ~> ~On)
  BY <1>3, <1>4, <1>7, <1>8, AskTypeCorrect, OneStageAtATime, HeldAlways, PTL DEF Goes, FairSpec, Spec
<1>11. Goes => (On ~> ~On)
  BY <1>2, <1>5, <1>8, <1>9, <1>10, AskTypeCorrect, HeldAlways, PTL DEF Goes, FairSpec
<1>12. QED
  BY <1>11, PTL DEF On

\* Whatever begins, ends: every stop returns, Ask becomes free and every capture
\* ends, in every fair behaviour in which nobody is stuck. That nobody is, TLC
\* checks.
THEOREM AskEverythingEnds == FairSpec /\ []NothingStuck => EndsInTheEnd
  BY AskStopsReturn, AskGetsFree, AskMicsAreReleased DEF EndsInTheEnd

\* The error of a task is not lost, and a task that has it surfaces it.
LEMMA ErrorStep ==
  ASSUME NEW a \in Attempts, TypeOK, HeldInv, err[a], [Next]_vars
  PROVE  /\ err'[a]
         /\ task'[a] = task[a] \/ TaskSurfaces(a)
<1>0. task[a] \in {"failing", "over"} /\ ~At(a, "committed")
  BY DEF HeldInv, TaskIsOwned, At
<1> USE DEF TypeOK
<1>1. CASE UNCHANGED vars
  BY <1>1
<1>2. CASE StartCall \/ StopCall \/ Abort \/ PressBegins
  BY <1>2 DEF StartCall, StopCall, Abort, PressBegins
<1>3. CASE Press
  BY <1>3 DEF Press, PressSeesStarting, PressSeesBusy, PressStarts, PressRequests, PressStops
<1>4. ASSUME NEW b \in Attempts, Start(b) PROVE err'[a] /\ task'[a] = task[a]
  BY <1>0, <1>4 DEF Start, StartCaptures, StartConnects, StartFails, StartCommits, StartDiscards,
                    StartSpawns, StartReturns, StartStops
<1>5. ASSUME NEW b \in Attempts, Task(b) PROVE err'[a] /\ (task'[a] = task[a] \/ TaskSurfaces(a))
  BY <1>0, <1>5 DEF Task, TaskText, TaskFails, TaskDrains, TaskDisconnects, TaskSurfaces, TaskGoto
<1>6. ASSUME NEW b \in Attempts, DeadlineWakes(b) \/ DeadlineStops(b) PROVE err'[a] /\ task'[a] = task[a]
  BY <1>6 DEF DeadlineWakes, DeadlineStops
<1>7. CASE Stop
  BY <1>7 DEF Stop, StopListens, StopFinalizes, StopReads, StopCloses, StopAnswers
<1>8. QED
  BY <1>1, <1>2, <1>3, <1>4, <1>5, <1>6, <1>7 DEF Next

\* A failure of the STT task is shown, by the task or by the stop that overtook
\* it, unless the user gave the recording up (surface_async_recording_error,
\* stop_ask_dictation).
THEOREM FailuresAreShown == FairSpec /\ []NothingStuck => FailureIsNotSilent
<1>1. SUFFICES ASSUME NEW a \in Attempts PROVE Goes => (err[a] ~> (a \in shown \/ a \in aborted))
  BY DEF FailureIsNotSilent, Goes
<1> DEFINE Failed  == err[a]
           Failing == task[a] = "failing"
           Over    == task[a] = "over"
           Stopped == stopOf = a
           Known   == a \in shown \/ a \in aborted
<1>2. HeldInv /\ Failed => Failing \/ Over
  BY DEF HeldInv, TaskIsOwned
<1>3. HeldInv /\ Failed /\ Over => Stopped \/ Known
  BY DEF HeldInv, TaskIsOwned
<1>4. TypeOK /\ HeldInv /\ Failed /\ Failing /\ [Next]_vars => Failed' /\ (Failing' \/ Over')
  BY ErrorStep DEF TaskSurfaces, TaskGoto, TypeOK
<1>5. TypeOK /\ Failing /\ <<TaskSurfaces(a)>>_vars => Over'
  BY DEF TaskSurfaces, TaskGoto, TypeOK
<1>6. NothingStuck /\ Failing => ENABLED <<TaskSurfaces(a)>>_vars
  BY DEF NothingStuck
<1>7. Fairness => AttemptIsFair(a)
  BY DEF Fairness
<1>8. a \in shown => Known
  OBVIOUS
<1>9. Goes => (Stopped ~> Known)
  BY <1>8, StopsShow, PTL DEF Answers, Stopped
<1> HIDE DEF Failed, Failing, Over, Stopped, Known
<1>10. Goes => (Failed /\ Failing ~> Failed /\ Over)
  BY <1>4, <1>5, <1>6, <1>7, AskTypeCorrect, HeldAlways, PTL DEF Goes, FairSpec, Spec, AttemptIsFair
<1>11. Goes => (Failed ~> Known)
  BY <1>2, <1>3, <1>9, <1>10, HeldAlways, PTL DEF Goes, FairSpec
<1>12. QED
  BY <1>11, PTL DEF Failed, Known
=============================================================================
