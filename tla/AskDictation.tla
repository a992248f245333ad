---------------------------- MODULE AskDictation ----------------------------
(***************************************************************************)
(* Ask dictation (src-tauri/src/commands/ask.rs, hotkey.rs): a question is *)
(* recorded, transcribed and answered, independently of the dictation      *)
(* pipeline.  One mutex guards the state; every action below that touches  *)
(* it is one critical section, and the awaits lie between the actions.     *)
(*                                                                         *)
(* An "attempt" is one start that won try_begin_starting(), with all that  *)
(* it spawns.  The state does not remember which attempt it belongs to     *)
(* while that attempt is starting: `starting` is a plain flag.             *)
(***************************************************************************)
EXTENDS Naturals

CONSTANTS
  MaxAttempts,   \* bound on the attempts of a behaviour
  Hotkey         \* whether the user presses the Ask hotkey

ASSUME AskAssumption == MaxAttempts \in Nat /\ Hotkey \in BOOLEAN

Attempts  == 1..MaxAttempts
NoAttempt == 0

StartPc == {"none", "reserved", "connecting", "connected", "discarding",
            "committed", "failed", "started", "stopping", "over"}
TaskPc  == {"none", "running", "draining", "failing", "over"}
StopPc  == {"none", "taken", "waiting", "answering"}
PressPc == {"none", "notRecording", "notStarting", "start", "request", "stop"}

VARIABLES
  \* AskDictationStateInner
  starting, stopAfterStart, processing,
  session,       \* the attempt whose AskDictationSession is stored
  \* the starts
  attempts,      \* how many there have been
  startPc, byHotkey,
  \* per attempt: what its session holds and what it spawned
  mic, task, deadline, heard, err,
  \* the stop that set `processing`, of which there is one at most
  stopPc, stopOf,
  \* a press of the Ask hotkey that is being handled
  press,
  \* what happened, for the properties only
  aborted, shown

inner == <<starting, stopAfterStart, processing, session>>
start == <<attempts, startPc, byHotkey>>
parts == <<mic, task, deadline, heard, err>>
stop  == <<stopPc, stopOf>>
vars  == <<inner, start, parts, stop, press, aborted, shown>>

Init ==
  /\ starting = FALSE /\ stopAfterStart = FALSE /\ processing = FALSE
  /\ session = NoAttempt
  /\ attempts = 0
  /\ startPc = [a \in Attempts |-> "none"]
  /\ byHotkey = [a \in Attempts |-> FALSE]
  /\ mic = [a \in Attempts |-> FALSE]
  /\ task = [a \in Attempts |-> "none"]
  /\ deadline = [a \in Attempts |-> "none"]
  /\ heard = [a \in Attempts |-> FALSE]
  /\ err = [a \in Attempts |-> FALSE]
  /\ stopPc = "none" /\ stopOf = NoAttempt
  /\ press = "none"
  /\ aborted = {} /\ shown = {}

At(a, pc)   == startPc[a] = pc
Goto(a, pc) == startPc' = [startPc EXCEPT ![a] = pc]
MicOff(a)   == mic' = [mic EXCEPT ![a] = FALSE]

\* The attempts whose start still uses, or will release, the reservation.
InFlight == {a \in Attempts :
               startPc[a] \in {"reserved", "connecting", "connected", "failed"}}
-----------------------------------------------------------------------------
(* stop_ask_dictation() *)

\* It is refused while another stop is processing or without a session.
CanStop == session # NoAttempt /\ ~processing

StopTakes ==
  /\ session' = NoAttempt
  /\ stopAfterStart' = FALSE
  /\ processing' = TRUE
  /\ stopPc' = "taken" /\ stopOf' = session
  /\ UNCHANGED starting

StopIfRecording == IF CanStop THEN StopTakes ELSE UNCHANGED <<inner, stop>>

\* A caller's stop; one that is refused changes nothing.
StopCall ==
  /\ CanStop
  /\ StopTakes
  /\ UNCHANGED <<start, parts, press, aborted, shown>>

\* The capture is stopped, and the wait for the STT task begins.
StopListens ==
  /\ stopPc = "taken"
  /\ stopPc' = "waiting"
  /\ MicOff(stopOf)
  /\ UNCHANGED <<inner, start, task, deadline, heard, err, stopOf, press,
                 aborted, shown>>

StopStaysBusy ==                                                      \* mutant
  /\ stopPc' = "none" /\ stopOf' = NoAttempt
  /\ shown' = shown \cup {stopOf}
  /\ UNCHANGED processing

\* The caller gets a result or an error, and shows it.
StopCloses ==
  /\ stopPc' = "none" /\ stopOf' = NoAttempt
  /\ processing' = FALSE
  /\ shown' = shown \cup {stopOf}

\* An error of the task wins; without a transcript there is no question.
StopReads ==
  /\ IF err[stopOf] \/ ~heard[stopOf]
     THEN StopCloses
     ELSE stopPc' = "answering" /\ UNCHANGED <<processing, stopOf, shown>>
  /\ UNCHANGED <<starting, stopAfterStart, session, start, parts, press,
                 aborted>>

StopWaitsOn ==                                                        \* mutant
  stopPc = "waiting" /\ task[stopOf] = "over" /\ StopReads

\* The task wakes the stop, or twelve seconds pass: with notify_waiters a task
\* that was over before the wait began does not wake it either.
StopFinalizes == stopPc = "waiting" /\ StopReads

\* The question is answered, searched for, or drafted by the pipeline; it may
\* be too long, or any of these may fail.
StopAnswers ==
  /\ stopPc = "answering"
  /\ StopCloses
  /\ UNCHANGED <<starting, stopAfterStart, session, start, parts, press,
                 aborted>>

Stop == StopListens \/ StopFinalizes \/ StopAnswers
-----------------------------------------------------------------------------
(* try_begin_starting() and start_reserved_ask_dictation() *)

FreeButStarting  == session = NoAttempt /\ ~processing                 \* mutant
FreeButAnswering == ~starting /\ session = NoAttempt                   \* mutant
Free == ~starting /\ session = NoAttempt /\ ~processing

Reserve(hotkey) ==
  /\ starting' = TRUE
  /\ stopAfterStart' = FALSE
  /\ attempts' = attempts + 1
  /\ Goto(attempts + 1, "reserved")
  /\ byHotkey' = [byHotkey EXCEPT ![attempts + 1] = hotkey]
  /\ UNCHANGED <<processing, session>>

\* start_ask_flow or start_ask_dictation, from a window or the command line.
StartCall ==
  /\ attempts < MaxAttempts /\ Free
  /\ Reserve(FALSE)
  /\ UNCHANGED <<parts, stop, press, aborted, shown>>

\* Configuration, credentials and provider are resolved and the capture
\* thread is started, or one of them fails.
StartCaptures(a) ==
  /\ At(a, "reserved")
  /\ \/ Goto(a, "failed") /\ UNCHANGED mic
     \/ Goto(a, "connecting") /\ mic' = [mic EXCEPT ![a] = TRUE]
  /\ UNCHANGED <<inner, attempts, byHotkey, task, deadline, heard, err, stop,
                 press, aborted, shown>>

\* await_recording_startup: ready, failed, or thirty seconds have passed.
StartConnects(a) ==
  /\ At(a, "connecting")
  /\ \/ Goto(a, "failed") /\ MicOff(a)
     \/ Goto(a, "connected") /\ UNCHANGED mic
  /\ UNCHANGED <<inner, attempts, byHotkey, task, deadline, heard, err, stop,
                 press, aborted, shown>>

StartForgets(a) ==                                                    \* mutant
  /\ At(a, "failed")
  /\ Goto(a, "over")
  /\ shown' = shown \cup {a}
  /\ UNCHANGED <<inner, attempts, byHotkey, parts, stop, press, aborted>>

\* clear_starting(), whosever reservation it is by now; the error is shown.
StartFails(a) ==
  /\ At(a, "failed")
  /\ Goto(a, "over")
  /\ starting' = FALSE /\ stopAfterStart' = FALSE
  /\ shown' = shown \cup {a}
  /\ UNCHANGED <<processing, session, attempts, byHotkey, parts, stop, press,
                 aborted>>

UnreservedCommit(a) ==                                                \* mutant
  /\ At(a, "connected")
  /\ starting' = FALSE
  /\ IF session # NoAttempt \/ processing
     THEN /\ Goto(a, "discarding") /\ MicOff(a)
          /\ stopAfterStart' = FALSE /\ UNCHANGED session
     ELSE /\ Goto(a, "committed") /\ session' = a
          /\ UNCHANGED <<stopAfterStart, mic>>
  /\ UNCHANGED <<processing, attempts, byHotkey, task, deadline, heard, err,
                 stop, press, aborted, shown>>

\* The reservation, if there still is one, becomes a session; else the capture
\* is stopped and the provider is disconnected.
StartCommits(a) ==
  /\ At(a, "connected")
  /\ starting' = FALSE
  /\ IF ~starting \/ session # NoAttempt \/ processing
     THEN /\ Goto(a, "discarding") /\ MicOff(a)
          /\ stopAfterStart' = FALSE /\ UNCHANGED session
     ELSE /\ Goto(a, "committed") /\ session' = a
          /\ UNCHANGED <<stopAfterStart, mic>>
  /\ UNCHANGED <<processing, attempts, byHotkey, task, deadline, heard, err,
                 stop, press, aborted, shown>>

\* The provider is disconnected, and the start reports success.
StartDiscards(a) ==
  /\ At(a, "discarding")
  /\ Goto(a, "started")
  /\ UNCHANGED <<inner, attempts, byHotkey, parts, stop, press, aborted, shown>>

\* The STT and deadline tasks are spawned.
StartSpawns(a) ==
  /\ At(a, "committed")
  /\ Goto(a, "started")
  /\ task' = [task EXCEPT ![a] = "running"]
  /\ deadline' = [deadline EXCEPT ![a] = "armed"]
  /\ UNCHANGED <<inner, attempts, byHotkey, mic, heard, err, stop, press,
                 aborted, shown>>

\* start_ask_shortcut looks whether the hotkey was pressed meanwhile; the
\* other callers do not.
StartReturns(a) ==
  /\ At(a, "started")
  /\ IF byHotkey[a]
     THEN /\ Goto(a, IF stopAfterStart THEN "stopping" ELSE "over")
          /\ stopAfterStart' = FALSE
     ELSE Goto(a, "over") /\ UNCHANGED stopAfterStart
  /\ UNCHANGED <<starting, processing, session, attempts, byHotkey, parts,
                 stop, press, aborted, shown>>

StartStops(a) ==
  /\ At(a, "stopping")
  /\ Goto(a, "over")
  /\ StopIfRecording
  /\ UNCHANGED <<attempts, byHotkey, parts, press, aborted, shown>>

Start(a) == \/ StartCaptures(a) \/ StartConnects(a) \/ StartFails(a)
            \/ StartCommits(a) \/ StartDiscards(a) \/ StartSpawns(a)
            \/ StartReturns(a) \/ StartStops(a)
-----------------------------------------------------------------------------
(* The STT task of attempt a *)

TaskGoto(a, pc) == task' = [task EXCEPT ![a] = pc]

taskUnchanged == <<start, deadline, stop, press, aborted>>

TaskText(a) ==
  /\ task[a] = "running"
  /\ heard' = [heard EXCEPT ![a] = TRUE]
  /\ UNCHANGED <<taskUnchanged, inner, mic, task, err, shown>>

\* Sending, receiving or the provider fails, and the error is recorded.
TaskFails(a) ==
  /\ task[a] \in {"running", "draining"}
  /\ err' = [err EXCEPT ![a] = TRUE]
  /\ TaskGoto(a, "failing")
  /\ UNCHANGED <<taskUnchanged, inner, mic, heard, shown>>

\* The audio channel is closed and drained: disconnect() is awaited.
TaskDrains(a) ==
  /\ task[a] = "running" /\ ~mic[a]
  /\ TaskGoto(a, "draining")
  /\ UNCHANGED <<taskUnchanged, inner, mic, heard, err, shown>>

\* disconnect() returns, with a last text or none.
TaskDisconnects(a) ==
  /\ task[a] = "draining"
  /\ TaskGoto(a, "over")
  /\ \/ heard' = [heard EXCEPT ![a] = TRUE]
     \/ UNCHANGED heard
  /\ UNCHANGED <<taskUnchanged, inner, mic, err, shown>>

\* surface_async_recording_error: while its session records, the task takes
\* the session, stops its capture and shows the error; otherwise showing it is
\* left to the stop.
SurfacesNothing(a) ==                                                 \* mutant
  /\ task[a] = "failing"
  /\ TaskGoto(a, "over")
  /\ IF session = a
     THEN session' = NoAttempt /\ MicOff(a)
     ELSE UNCHANGED <<session, mic>>
  /\ UNCHANGED <<taskUnchanged, starting, stopAfterStart, processing, heard,
                 err, shown>>

TaskSurfaces(a) ==
  /\ task[a] = "failing"
  /\ TaskGoto(a, "over")
  /\ IF session = a /\ ~processing
     THEN session' = NoAttempt /\ MicOff(a) /\ shown' = shown \cup {a}
     ELSE UNCHANGED <<session, mic, shown>>
  /\ UNCHANGED <<taskUnchanged, starting, stopAfterStart, processing, heard,
                 err>>

Task(a) == \/ TaskText(a) \/ TaskFails(a) \/ TaskDrains(a)
           \/ TaskDisconnects(a) \/ TaskSurfaces(a)
-----------------------------------------------------------------------------
(* The deadline task of attempt a, and abort_ask_dictation() *)

\* drive_recording_deadline: is its session still the one that records?
DeadlineWakes(a) ==
  /\ deadline[a] = "armed"
  /\ deadline' = [deadline EXCEPT ![a] =
                    IF session = a THEN "reached" ELSE "over"]
  /\ UNCHANGED <<inner, start, mic, task, heard, err, stop, press, aborted,
                 shown>>

\* stop_ask_flow stops whatever records by then.
DeadlineStops(a) ==
  /\ deadline[a] = "reached"
  /\ deadline' = [deadline EXCEPT ![a] = "over"]
  /\ StopIfRecording
  /\ UNCHANGED <<start, mic, task, heard, err, press, aborted, shown>>

\* abort_starting_or_recording: the reservation is dropped, and the session
\* with its capture; a stop that is processing is left alone.
Abort ==
  /\ starting' = FALSE /\ stopAfterStart' = FALSE
  /\ session' = NoAttempt
  /\ mic' = [a \in Attempts |-> mic[a] /\ a # session]
  /\ aborted' = aborted \cup InFlight \cup ({session} \ {NoAttempt})
  /\ UNCHANGED <<processing, start, task, deadline, heard, err, stop, press,
                 shown>>
-----------------------------------------------------------------------------
(* A press of the Ask hotkey.  handle_hotkey_role_event locks the state     *)
(* once for each of is_recording, is_starting and is_busy, and acts later.  *)

pressUnchanged == <<parts, aborted, shown>>

PressBegins ==
  /\ Hotkey /\ press = "none"
  /\ press' = IF session # NoAttempt THEN "stop" ELSE "notRecording"
  /\ UNCHANGED <<inner, start, stop, pressUnchanged>>

PressSeesStarting ==
  /\ press = "notRecording"
  /\ press' = IF starting THEN "request" ELSE "notStarting"
  /\ UNCHANGED <<inner, start, stop, pressUnchanged>>

PressSeesBusy ==
  /\ press = "notStarting"
  /\ press' = IF Free THEN "start" ELSE "none"
  /\ UNCHANGED <<inner, start, stop, pressUnchanged>>

PressStarts ==
  /\ press = "start"
  /\ press' = "none"
  /\ IF Free /\ attempts < MaxAttempts
     THEN Reserve(TRUE)
     ELSE UNCHANGED <<inner, start>>
  /\ UNCHANGED <<stop, pressUnchanged>>

\* request_stop_after_start
PressRequests ==
  /\ press = "request"
  /\ press' = "none"
  /\ stopAfterStart' = (stopAfterStart \/ starting)
  /\ UNCHANGED <<starting, processing, session, start, stop, pressUnchanged>>

PressStops ==
  /\ press = "stop"
  /\ press' = "none"
  /\ StopIfRecording
  /\ UNCHANGED <<start, pressUnchanged>>

Press == PressSeesStarting \/ PressSeesBusy \/ PressStarts \/ PressRequests
         \/ PressStops
-----------------------------------------------------------------------------
Next == \/ StartCall \/ StopCall \/ Stop \/ Abort
        \/ PressBegins \/ Press
        \/ \E a \in Attempts : Start(a) \/ Task(a) \/ DeadlineWakes(a)
                                        \/ DeadlineStops(a)

Spec == Init /\ [][Next]_vars

(***************************************************************************)
(* Fairness.  Every await of a start or a stop is bounded (thirty seconds, *)
(* twelve seconds, the HTTP timeouts), timers fire, and a task that has an *)
(* error in hand surfaces it without an await.  Nothing is assumed of the  *)
(* user, nor of the STT provider: it may never answer or disconnect.       *)
(***************************************************************************)
CallersAreFair   == WF_vars(Stop) /\ WF_vars(Press)
AttemptIsFair(a) == /\ WF_vars(Start(a)) /\ WF_vars(TaskSurfaces(a))
                    /\ WF_vars(DeadlineWakes(a)) /\ WF_vars(DeadlineStops(a))

Fairness == CallersAreFair /\ \A a \in Attempts : AttemptIsFair(a)

FairSpec == Spec /\ Fairness
-----------------------------------------------------------------------------
(* Properties *)

\* Type invariant; a stop is in progress exactly while `processing` is set.
TypeOK ==
  /\ starting \in BOOLEAN /\ stopAfterStart \in BOOLEAN
  /\ processing \in BOOLEAN
  /\ session \in Attempts \cup {NoAttempt}
  /\ attempts \in 0..MaxAttempts
  /\ startPc \in [Attempts -> StartPc]
  /\ byHotkey \in [Attempts -> BOOLEAN]
  /\ mic \in [Attempts -> BOOLEAN]
  /\ task \in [Attempts -> TaskPc]
  /\ deadline \in [Attempts -> {"none", "armed", "reached", "over"}]
  /\ heard \in [Attempts -> BOOLEAN] /\ err \in [Attempts -> BOOLEAN]
  /\ stopPc \in StopPc /\ stopOf \in Attempts \cup {NoAttempt}
  /\ press \in PressPc
  /\ aborted \subseteq Attempts /\ shown \subseteq Attempts
  /\ processing <=> stopPc # "none"
  /\ processing <=> stopOf # NoAttempt

\* Ask does one thing at a time: it is starting, recording or processing, and
\* never two of them, in whatever order starts, stops, failures and aborts come.
OneStage == /\ ~(starting /\ session # NoAttempt)
            /\ ~(starting /\ processing)
            /\ ~(session # NoAttempt /\ processing)

\* A start that was aborted does not record afterwards, as long as no other
\* start followed it.
AbortedLatestStaysSilent == attempts \in aborted => session # attempts

\* The same for every start (see the run that violates it).
AbortedStaysSilent == session \notin aborted

\* A start that connects loses its reservation, and is discarded without a
\* word, only if it was aborted or an earlier start was.
LostOnlyAfterAbort ==
  \A a \in Attempts : At(a, "discarding") => \E b \in aborted : b <= a

\* A press during the start that was accepted as "stop after start" is not
\* forgotten: it does not lie there when the start is over and records.
PressIsHonoured ==
  session # NoAttempt /\ At(session, "over") => ~stopAfterStart

\* Nobody is stuck: a stop, a press or a start that is under way has a step to
\* take, whatever the provider and the others do; so has a task with an error in
\* hand, and a deadline that is armed or reached.
NothingStuck ==
  /\ processing => ENABLED <<Stop>>_vars
  /\ press # "none" => ENABLED <<Press>>_vars
  /\ \A a \in Attempts :
       /\ startPc[a] \notin {"none", "over"} => ENABLED <<Start(a)>>_vars
       /\ task[a] = "failing" => ENABLED <<TaskSurfaces(a)>>_vars
       /\ deadline[a] = "armed" => ENABLED <<DeadlineWakes(a)>>_vars
       /\ deadline[a] = "reached" => ENABLED <<DeadlineStops(a)>>_vars

\* Liveness: whatever the user and the provider do, a stop returns,
StopReturnsInTheEnd == processing ~> ~processing

\* Ask becomes free again,
FreeInTheEnd == ~Free ~> Free

\* every capture ends,
MicIsReleased == \A a \in Attempts : mic[a] ~> ~mic[a]
EndsInTheEnd  == StopReturnsInTheEnd /\ FreeInTheEnd /\ MicIsReleased

\* and a failure of the STT task is shown, or was overtaken by a stop that has
\* shown something else, unless the user gave the recording up.
FailureIsNotSilent ==
  \A a \in Attempts : err[a] ~> (a \in shown \/ a \in aborted)
=============================================================================
