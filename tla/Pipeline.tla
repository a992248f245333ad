------------------------------ MODULE Pipeline ------------------------------
(***************************************************************************)
(* The dictation pipeline of the desktop app (src-tauri/src/pipeline.rs).  *)
(*                                                                         *)
(* One PipelineHandle is shared by every caller: hotkeys, the tray, the    *)
(* command line, the windows, and the deadline task of each recording.     *)
(* start() and stop() set up under pipeline_lock; abort() takes no lock    *)
(* and may run between any two of their steps.  A "take" is one start()    *)
(* that won the Idle -> Preparing exchange, together with everything it    *)
(* spawns: its capture thread, its STT task, its deadline task, and the    *)
(* stop() that ended its recording.                                        *)
(***************************************************************************)
EXTENDS Naturals, FiniteSets

CONSTANTS
  MaxTakes,    \* bound on the takes of a behaviour
  MaxAborts,   \* bound on the calls of abort()
  Targets,     \* translation targets; force_translate picks one of them
  NoTarget     \* no target: the take does not translate

ASSUME PipelineAssumption == /\ MaxTakes \in Nat
                             /\ MaxAborts \in Nat
                             /\ NoTarget \notin Targets

NoTake   == 0
Takes    == 1..MaxTakes
NoOp     == [take |-> NoTake]
Phases   == {"Capturing", "Finalizing"}

PipelineState ==
  {"Idle", "Preparing", "Recording", "Transcribing", "Polishing", "Outputting"}
StartPc == {"none", "called", "setup", "connecting", "ready", "storing",
            "stored", "numbering", "arming", "numbered", "recording"}
StopPc  == {"none", "capturing", "waiting", "heard", "routed", "polishing",
            "completing", "executing", "saving", "closing", "ended"}
AbortPc == {"none", "flagged", "retired", "silenced", "notified"}
TaskPc  == {"none", "running", "appending", "latching", "draining", "closing",
            "over"}
Given   == {"nothing", "part", "whole"}

VARIABLES
  \* fields of PipelineHandle
  state,             \* the AtomicU8
  abortFlag,         \* abort_flag
  activeSttId,       \* active_stt_session_id
  activeDeadlineId,  \* active_deadline_session_id
  audioHandle,       \* the take whose capture handle is stored, or NoTake
  accumulated,       \* the takes whose text is in accumulated_text
  sttSession,        \* the take whose SttTaskControl is published
  sttError,          \* the take whose error is latched in stt_error
  preloaded,         \* the take whose configuration is in preloaded_*
  recordingStart,    \* the take whose start instant is stored
  transOp,           \* active_translation_operation
  \* the invocation of start() that holds pipeline_lock, and abort(),
  \* and a call of switch_active_translation_target()
  startPc, takes, abortPc, aborts, switchPc,
  \* per take: what it spawned and the stop() that ended its recording
  sid,       \* its STT session id, 0 before it has one
  mic,       \* its capture thread runs (and its audio channel is open)
  task,      \* its STT task
  doneNote, abortNote,   \* the permits stored in control.done / control.abort
  deadline,  \* its deadline task
  stop,      \* program counter of its stop()
  ctl, cfg,  \* the control and the configuration its stop() took
  used,      \* the translation target its stop() finalised
  heard,     \* the takes whose text its stop() read as raw_text
  worker,    \* its streaming insertion worker
  \* outside the process
  given,     \* what the user's application has got of its text
  history,   \* entries [take, duration of] given to HistoryStore
  \* what happened, for the properties only
  charged, cancelled, timedOut, overtaken, failed, acked, raced

ids     == <<activeSttId, activeDeadlineId, sid>>
text    == <<accumulated, sttError>>
shared  == <<sttSession, preloaded, recordingStart>>
capture == <<audioHandle, mic>>
tasks   == <<task, doneNote, abortNote, deadline>>
stops   == <<stop, ctl, cfg, used, heard, worker>>
calls   == <<takes, abortPc, aborts, switchPc>>
world   == <<given, history>>
ghost   == <<charged, cancelled, timedOut, overtaken, failed, acked, raced>>
vars    == <<state, abortFlag, transOp, startPc, ids, text, shared, capture,
             tasks, stops, calls, world, ghost>>
-----------------------------------------------------------------------------
(* Shared helpers *)

\* should_finalize_stt_task: not aborted, and still the active session
ShouldFinalize(t) == ~abortFlag /\ activeSttId = sid[t]

StopInFlight(t) == stop[t] \notin {"none", "ended"}

\* A task that has looked, and is about to write, may not write any more.
Overtakes == overtaken' = overtaken \cup
               {t \in Takes : task[t] \in {"appending", "closing", "latching"}}

\* pipeline_lock is held from the start of start() to its end, and by stop()
\* until it has taken the shared state
LockIgnoresStart == \A t \in Takes : stop[t] # "capturing"           \* mutant
LockFree == startPc = "none" /\ \A t \in Takes : stop[t] # "capturing"

\* The stored capture handle is stopped or dropped: its thread ends.
DropCapture == /\ audioHandle' = NoTake
               /\ mic' = [t \in Takes |-> mic[t] /\ t # audioHandle]

\* set_state(Idle) also forgets the active translation operation
SetIdle == state' = "Idle" /\ transOp' = NoOp

Init ==
  /\ state = "Idle"
  /\ abortFlag = FALSE
  /\ activeSttId = 0
  /\ activeDeadlineId = 0
  /\ audioHandle = NoTake
  /\ accumulated = {}
  /\ sttSession = NoTake
  /\ sttError = NoTake
  /\ preloaded = NoTake
  /\ recordingStart = NoTake
  /\ transOp = NoOp
  /\ startPc = "none" /\ takes = 0
  /\ abortPc = "none" /\ aborts = 0
  /\ switchPc = "idle"
  /\ sid = [t \in Takes |-> 0]
  /\ mic = [t \in Takes |-> FALSE]
  /\ task = [t \in Takes |-> "none"]
  /\ doneNote = [t \in Takes |-> FALSE]
  /\ abortNote = [t \in Takes |-> FALSE]
  /\ deadline = [t \in Takes |-> "none"]
  /\ stop = [t \in Takes |-> "none"]
  /\ ctl = [t \in Takes |-> NoTake]
  /\ cfg = [t \in Takes |-> NoTake]
  /\ used = [t \in Takes |-> NoTarget]
  /\ heard = [t \in Takes |-> {}]
  /\ worker = [t \in Takes |-> "idle"]
  /\ given = [t \in Takes |-> "nothing"] /\ history = {}
  /\ charged = {} /\ cancelled = {} /\ timedOut = {} /\ overtaken = {}
  /\ failed = {}
  /\ acked = [t \in Takes |-> NoTarget]
  /\ raced = FALSE
-----------------------------------------------------------------------------
(* start_with_options(): every step holds pipeline_lock *)

\* The lock is taken and abort_flag is reset, whatever the state is.
StartCall ==
  /\ LockFree
  /\ takes < MaxTakes
  /\ startPc' = "called"
  /\ abortFlag' = FALSE
  /\ raced' = (raced \/ abortPc # "none"
                     \/ \E t \in cancelled : StopInFlight(t))
  /\ UNCHANGED <<state, transOp, ids, text, shared, capture, tasks, stops,
                 calls, world, charged, cancelled, timedOut, overtaken, failed,
                 acked>>

StartKeepsText == sttError' = NoTake /\ UNCHANGED accumulated          \* mutant
StartClears    == sttError' = NoTake /\ accumulated' = {}

\* The exchange Idle -> Preparing: only its winner is a take, and it clears
\* what the previous take left behind.
StartExchange ==
  /\ startPc = "called"
  /\ IF state = "Idle"
     THEN /\ state' = "Preparing"
          /\ takes' = takes + 1
          /\ StartClears
          /\ startPc' = "setup"
     ELSE /\ startPc' = "none"
          /\ UNCHANGED <<state, text, takes>>
  /\ UNCHANGED <<abortFlag, transOp, ids, shared, capture, tasks, stops,
                 abortPc, aborts, switchPc, world, ghost>>

\* Every failure of the setup forgets the preloaded configuration and goes
\* back to Idle.
StartGivesUp ==
  /\ preloaded' = NoTake
  /\ SetIdle
  /\ startPc' = "none"

\* Configuration, credentials and provider are resolved.  Any of them may
\* fail; otherwise the capture thread is started and the provider connects.
StartConfigure ==
  /\ startPc = "setup"
  /\ \/ StartGivesUp /\ UNCHANGED mic
     \/ /\ preloaded' = takes
        /\ mic' = [mic EXCEPT ![takes] = TRUE]
        /\ startPc' = "connecting"
        /\ UNCHANGED <<state, transOp>>
  /\ UNCHANGED <<abortFlag, ids, text, sttSession, recordingStart,
                 audioHandle, tasks, stops, calls, world, ghost>>

\* await_recording_startup: capture and provider both become ready, or one of
\* them fails, or thirty seconds pass.
StartConnect ==
  /\ startPc = "connecting"
  /\ \/ /\ StartGivesUp
        /\ mic' = [mic EXCEPT ![takes] = FALSE]
     \/ startPc' = "ready" /\ UNCHANGED <<state, transOp, preloaded, mic>>
  /\ UNCHANGED <<abortFlag, ids, text, sttSession, recordingStart,
                 audioHandle, tasks, stops, calls, world, ghost>>

\* First check of abort_flag: an aborted setup drops its local handle.
StartCheckBeforeStore ==
  /\ startPc = "ready"
  /\ IF abortFlag
     THEN StartGivesUp /\ mic' = [mic EXCEPT ![takes] = FALSE]
     ELSE startPc' = "storing" /\ UNCHANGED <<state, transOp, preloaded, mic>>
  /\ UNCHANGED <<abortFlag, ids, text, sttSession, recordingStart,
                 audioHandle, tasks, stops, calls, world, ghost>>

\* The handle is stored; one that was there is dropped, which ends its capture.
StartStore ==
  /\ startPc = "storing"
  /\ audioHandle' = takes
  /\ mic' = [t \in Takes |-> mic[t] /\ t # audioHandle]
  /\ startPc' = "stored"
  /\ UNCHANGED <<state, abortFlag, transOp, ids, text, shared, tasks, stops,
                 calls, world, ghost>>

StartSkipsSecondCheck ==                                              \* mutant
  /\ startPc = "stored"
  /\ startPc' = "numbering"
  /\ UNCHANGED <<state, abortFlag, transOp, ids, text, shared, capture, tasks,
                 stops, calls, world, ghost>>

\* Second check: abort() may have looked for the handle before it was stored.
StartCheckAfterStore ==
  /\ startPc = "stored"
  /\ IF abortFlag
     THEN StartGivesUp /\ DropCapture
     ELSE startPc' = "numbering"
          /\ UNCHANGED <<state, transOp, preloaded, capture>>
  /\ UNCHANGED <<abortFlag, ids, text, sttSession, recordingStart, tasks,
                 stops, calls, world, ghost>>

ArmDeadlineOffByOne == activeDeadlineId' = sid[takes] - 1              \* mutant
ArmDeadline         == activeDeadlineId' = sid[takes]

MarkStartOnce ==                                                      \* mutant
  recordingStart' = (IF recordingStart = NoTake THEN takes ELSE recordingStart)
MarkStart == recordingStart' = takes

\* fetch_add: the take gets its session id.
StartNumber ==
  /\ startPc = "numbering"
  /\ activeSttId' = activeSttId + 1
  /\ sid' = [sid EXCEPT ![takes] = activeSttId + 1]
  /\ startPc' = "arming"
  /\ Overtakes
  /\ UNCHANGED <<state, abortFlag, transOp, activeDeadlineId, text, shared,
                 capture, tasks, stops, calls, world, charged, cancelled,
                 timedOut, failed, acked, raced>>

\* The deadline is armed for this id, the start instant is stored and, with
\* force_translate, the translation operation begins.
StartArm ==
  /\ startPc = "arming"
  /\ ArmDeadline
  /\ MarkStart
  /\ \/ transOp' = NoOp /\ UNCHANGED acked
     \/ \E tg \in Targets :
          /\ transOp' = [take |-> takes, target |-> tg, phase |-> "Capturing"]
          /\ acked' = [acked EXCEPT ![takes] = tg]
  /\ startPc' = "numbered"
  /\ UNCHANGED <<state, abortFlag, activeSttId, sid, text, sttSession,
                 preloaded, capture, tasks, stops, calls, world, charged,
                 cancelled, timedOut, overtaken, failed, raced>>

StartRecording ==
  /\ startPc = "numbered"
  /\ state' = "Recording"
  /\ startPc' = "recording"
  /\ UNCHANGED <<abortFlag, transOp, ids, text, shared, capture, tasks, stops,
                 calls, world, ghost>>

\* The control is published, the STT and deadline tasks are spawned, and the
\* lock is released.
StartSpawn ==
  /\ startPc = "recording"
  /\ sttSession' = takes
  /\ task' = [task EXCEPT ![takes] = "running"]
  /\ deadline' = [deadline EXCEPT ![takes] = "armed"]
  /\ startPc' = "none"
  /\ UNCHANGED <<state, abortFlag, transOp, ids, text, preloaded,
                 recordingStart, capture, doneNote, abortNote, stops, calls,
                 world, ghost>>

Start == \/ StartCall \/ StartExchange \/ StartConfigure \/ StartConnect
         \/ StartCheckBeforeStore \/ StartStore \/ StartCheckAfterStore
         \/ StartNumber \/ StartArm \/ StartRecording \/ StartSpawn
-----------------------------------------------------------------------------
(* The STT task of take t.  It awaits the abort note, an audio chunk or a   *)
(* transcript.  Before it writes text or an error it looks whether it still *)
(* may (ShouldFinalize); abort() and the next start() run on other threads, *)
(* so the look and the write are two steps.                                 *)

TaskGoes(t, pc) == task' = [task EXCEPT ![t] = pc] /\ UNCHANGED doneNote
TaskOver(t) == /\ task' = [task EXCEPT ![t] = "over"]
               /\ doneNote' = [doneNote EXCEPT ![t] = TRUE]

taskUnchanged == <<state, abortFlag, transOp, startPc, ids, shared, capture,
                   deadline, stops, calls, world, charged, cancelled, timedOut,
                   acked, raced>>

\* The head of the loop.
TaskStale(t) ==
  /\ task[t] = "running" /\ ~ShouldFinalize(t)
  /\ TaskOver(t)
  /\ UNCHANGED <<text, abortNote, overtaken, failed, taskUnchanged>>

\* control.abort was notified, in the loop or during disconnect().
TaskCancelled(t) ==
  /\ task[t] \in {"running", "draining"} /\ abortNote[t]
  /\ abortNote' = [abortNote EXCEPT ![t] = FALSE]
  /\ TaskOver(t)
  /\ UNCHANGED <<text, overtaken, failed, taskUnchanged>>

TaskUnasked(t) ==                                                     \* mutant
  /\ task[t] = "running"
  /\ TaskGoes(t, "appending")
  /\ UNCHANGED <<text, abortNote, overtaken, failed, taskUnchanged>>

\* A final transcript arrives while the loop runs; it is dropped when the task
\* may not write it any more.
TaskText(t) ==
  /\ task[t] = "running" /\ ShouldFinalize(t)
  /\ TaskGoes(t, "appending")
  /\ UNCHANGED <<text, abortNote, overtaken, failed, taskUnchanged>>

\* Sending audio or receiving a transcript fails, or the provider reports an
\* error: it is going to be latched, and the loop ends.  The recording itself
\* goes on until it is stopped.
TaskFail(t) ==
  /\ task[t] = "running"
  /\ IF ShouldFinalize(t) THEN TaskGoes(t, "latching") ELSE TaskOver(t)
  /\ UNCHANGED <<text, abortNote, overtaken, failed, taskUnchanged>>

\* The audio channel is closed and drained: disconnect() is awaited.
TaskDrain(t) ==
  /\ task[t] = "running" /\ ~mic[t] /\ ShouldFinalize(t)
  /\ TaskGoes(t, "draining")
  /\ UNCHANGED <<text, abortNote, overtaken, failed, taskUnchanged>>

\* disconnect() returns: with a last text, with none, or with an error.
TaskDisconnect(t) ==
  /\ task[t] = "draining"
  /\ \/ ShouldFinalize(t) /\ (TaskGoes(t, "closing") \/ TaskGoes(t, "latching"))
     \/ TaskOver(t)
  /\ UNCHANGED <<text, abortNote, overtaken, failed, taskUnchanged>>

\* The text is appended; after the last one the task is over.
TaskAppends(t) ==
  /\ task[t] \in {"appending", "closing"}
  /\ accumulated' = accumulated \cup {t}
  /\ IF task[t] = "appending" THEN TaskGoes(t, "running") ELSE TaskOver(t)
  /\ UNCHANGED <<sttError, abortNote, overtaken, failed, taskUnchanged>>

TaskLatchesId(t) ==                                                   \* mutant
  /\ task[t] = "latching"
  /\ sttError' = sid[t] /\ failed' = failed \cup {t}
  /\ TaskOver(t)
  /\ UNCHANGED <<accumulated, abortNote, overtaken, taskUnchanged>>

\* The error is latched with the id of the session.
TaskLatches(t) ==
  /\ task[t] = "latching"
  /\ sttError' = t /\ failed' = failed \cup {t}
  /\ TaskOver(t)
  /\ UNCHANGED <<accumulated, abortNote, overtaken, taskUnchanged>>

Task(t) == \/ TaskStale(t) \/ TaskCancelled(t) \/ TaskText(t)
           \/ TaskFail(t) \/ TaskDrain(t) \/ TaskDisconnect(t)
           \/ TaskAppends(t) \/ TaskLatches(t)
-----------------------------------------------------------------------------
(* stop().  The take whose recording it ends is the latest one: only that  *)
(* take can have set the state to Recording.                               *)

\* The exchange Recording -> Transcribing, the deadline is disarmed, and the
\* translation target is frozen.
StopExchange ==
  /\ LockFree
  /\ state = "Recording"
  /\ state' = "Transcribing"
  /\ activeDeadlineId' = 0
  /\ stop' = [stop EXCEPT ![takes] = "capturing"]
  /\ IF transOp = NoOp
     THEN UNCHANGED <<transOp, used>>
     ELSE /\ transOp' = [transOp EXCEPT !.phase = "Finalizing"]
          /\ used' = [used EXCEPT ![takes] = transOp.target]
  /\ UNCHANGED <<abortFlag, startPc, activeSttId, sid, text, shared, capture,
                 task, doneNote, abortNote, ctl, cfg, heard, worker, calls,
                 world, ghost>>

\* A caller's stop(); one that loses the exchange changes nothing.
StopCall == StopExchange /\ UNCHANGED deadline

\* The selected text is captured (a pause and a simulated copy), then the
\* capture is stopped, the shared state is taken and the lock is released.
StopTakeOver(t) ==
  /\ stop[t] = "capturing"
  /\ DropCapture
  /\ ctl' = [ctl EXCEPT ![t] = sttSession]
  /\ cfg' = [cfg EXCEPT ![t] = preloaded]
  /\ preloaded' = NoTake
  /\ stop' = [stop EXCEPT ![t] = "waiting"]
  /\ UNCHANGED <<state, abortFlag, transOp, startPc, ids, text, sttSession,
                 recordingStart, tasks, used, heard, worker, calls, world,
                 ghost>>

WaitedForever(t) ==                                                   \* mutant
  /\ stop[t] = "waiting" /\ doneNote[ctl[t]]
  /\ doneNote' = [doneNote EXCEPT ![ctl[t]] = FALSE]
  /\ UNCHANGED timedOut

\* wait_for_stt: the task is done, or the finalize timeout expires, or there
\* was no session to wait for.
Waited(t) ==
  /\ stop[t] = "waiting"
  /\ \/ /\ ctl[t] # NoTake /\ doneNote[ctl[t]]
        /\ doneNote' = [doneNote EXCEPT ![ctl[t]] = FALSE]
        /\ UNCHANGED timedOut
     \/ /\ ctl[t] # NoTake /\ ~doneNote[ctl[t]]
        /\ timedOut' = timedOut \cup {ctl[t]}
        /\ UNCHANGED doneNote
     \/ ctl[t] = NoTake /\ UNCHANGED <<doneNote, timedOut>>

AnyError(t)  == sttError # NoTake                                     \* mutant
LateError(t) == sttError = ctl[t] /\ accumulated = {}                  \* mutant
\* take_matching_stt_error: the latched error carries the id of this session.
OwnError(t) == ctl[t] # NoTake /\ sttError = ctl[t]
Valid(t)    == ctl[t] # NoTake => ShouldFinalize(ctl[t])

\* clear_stt_session: only the control of this stop() is withdrawn.
ClearSession(t) ==
  sttSession' = (IF ctl[t] # NoTake /\ sttSession = ctl[t] THEN NoTake
                                                          ELSE sttSession)

\* stop() returns early after the wait.
StopReturns(t) ==
  /\ stop' = [stop EXCEPT ![t] = "ended"]
  /\ ClearSession(t)

waitUnchanged == <<abortFlag, startPc, ids, preloaded, recordingStart, capture,
                   task, abortNote, deadline, ctl, cfg, used, worker, calls,
                   world, cancelled, overtaken, failed, acked, raced>>

\* The session was aborted or replaced: the state is left as it is.
StopStale(t) ==
  /\ Waited(t)
  /\ ~Valid(t) \/ (~OwnError(t) /\ abortFlag)
  /\ StopReturns(t)
  /\ UNCHANGED <<state, transOp, text, heard, charged, waitUnchanged>>

\* Its own session latched an error (take_matching_stt_error).
StopError(t) ==
  /\ Waited(t)
  /\ Valid(t) /\ OwnError(t)
  /\ sttError' = NoTake
  /\ SetIdle
  /\ StopReturns(t)
  /\ charged' = charged \cup {t}
  /\ UNCHANGED <<accumulated, heard, waitUnchanged>>

StopSilent(t) ==
  /\ Waited(t)
  /\ Valid(t) /\ ~OwnError(t) /\ ~abortFlag /\ accumulated = {}
  /\ SetIdle
  /\ StopReturns(t)
  /\ UNCHANGED <<text, heard, charged, waitUnchanged>>

StopHears(t) ==
  /\ Waited(t)
  /\ Valid(t) /\ ~OwnError(t) /\ ~abortFlag /\ accumulated # {}
  /\ heard' = [heard EXCEPT ![t] = accumulated]
  /\ stop' = [stop EXCEPT ![t] = "heard"]
  /\ UNCHANGED <<state, transOp, text, sttSession, charged, waitUnchanged>>
-----------------------------------------------------------------------------
(* stop(), after the transcript is known: polish_text, output, history *)

polishUnchanged == <<abortFlag, startPc, ids, text, preloaded, capture, tasks,
                     ctl, cfg, used, heard, calls, cancelled, timedOut,
                     overtaken, failed, charged, acked, raced>>

Goto(t, pc) == stop' = [stop EXCEPT ![t] = pc]

\* abort_flag is checked once before the language model.
StopRoutes(t) ==
  /\ stop[t] = "heard"
  /\ IF abortFlag
     THEN StopReturns(t)
     ELSE Goto(t, "routed") /\ UNCHANGED sttSession
  /\ UNCHANGED <<state, transOp, recordingStart, worker, world,
                 polishUnchanged>>

\* The LLM credential is read from the vault.  With a usable provider the
\* text is polished; without one the raw text is output, or nothing is when
\* the command needs generated text.
StopPolishes(t) ==
  /\ stop[t] = "routed"
  /\ \/ state' = "Polishing" /\ Goto(t, "polishing")
     \/ UNCHANGED state /\ (Goto(t, "executing") \/ Goto(t, "saving"))
  /\ UNCHANGED <<transOp, sttSession, recordingStart, worker, world,
                 polishUnchanged>>

\* The streaming worker looks at the flag, and then types its chunk, which is
\* awaited.  (One chunk stands for all: a later one adds to the part that is
\* typed, which changes nothing here, or fails, as this one may.)
StreamChunk(t) ==
  /\ stop[t] = "polishing" /\ ~abortFlag
  /\ worker[t] = "idle" /\ given[t] = "nothing"
  /\ worker' = [worker EXCEPT ![t] = "typing"]
  /\ UNCHANGED <<state, transOp, stop, sttSession, recordingStart, world,
                 polishUnchanged>>

\* All of it is typed, a part of it, or nothing; after a failure or a change of
\* the target the worker takes no further chunk.
StreamTyped(t) ==
  /\ stop[t] = "polishing" /\ worker[t] = "typing"
  /\ \/ worker' = [worker EXCEPT ![t] = "idle"]
        /\ given' = [given EXCEPT ![t] = "part"]
     \/ worker' = [worker EXCEPT ![t] = "failed"]
        /\ (given' = [given EXCEPT ![t] = "part"] \/ UNCHANGED given)
  /\ UNCHANGED <<state, transOp, stop, sttSession, recordingStart, history,
                 polishUnchanged>>

StopPolishedUnchecked(t) ==                                           \* mutant
  /\ stop[t] = "polishing" /\ worker[t] # "typing"
  /\ worker' = [worker EXCEPT ![t] = "idle"]
  /\ Goto(t, "executing") \/ Goto(t, "saving")
  /\ UNCHANGED <<state, transOp, sttSession, recordingStart, world,
                 polishUnchanged>>

\* The model answers or fails and the worker is joined.  Of a result that was
\* partly typed the rest is typed or the whole is copied, without a look at
\* the flag; otherwise the flag is checked before anything is output.
StopPolished(t) ==
  /\ stop[t] = "polishing" /\ worker[t] # "typing"
  /\ worker' = [worker EXCEPT ![t] = "idle"]
  /\ \/ Goto(t, "saving")
     \/ given[t] = "part" /\ worker[t] = "idle" /\ Goto(t, "completing")
     \/ given[t] = "nothing" /\ ~abortFlag /\ Goto(t, "executing")
  /\ UNCHANGED <<state, transOp, sttSession, recordingStart, world,
                 polishUnchanged>>

GivesWhole(t) == given' = [given EXCEPT ![t] = "whole"]

\* InsertSuffix: the rest is typed, or the whole is copied when that fails.
StopCompletes(t) ==
  /\ stop[t] = "completing"
  /\ GivesWhole(t) \/ UNCHANGED given
  /\ Goto(t, "saving")
  /\ UNCHANGED <<state, transOp, sttSession, recordingStart, worker, history,
                 polishUnchanged>>

\* output_text, or a placement that leaves the application alone (a pop-up,
\* or a copy because the target changed).
StopDelivers(t) ==
  /\ stop[t] = "executing"
  /\ \/ state' = "Outputting" /\ GivesWhole(t)
     \/ UNCHANGED <<state, given>>
  /\ Goto(t, "saving")
  /\ UNCHANGED <<transOp, sttSession, recordingStart, worker, history,
                 polishUnchanged>>

\* The duration is taken and the entry saved (history is enabled here; when it
\* is not, no entry is written).
StopSaves(t) ==
  /\ stop[t] = "saving"
  /\ recordingStart' = NoTake
  /\ history' = history \cup {[take |-> t, started |-> recordingStart]}
  /\ Goto(t, "closing")
  /\ UNCHANGED <<state, transOp, sttSession, worker, given,
                 polishUnchanged>>

\* The end of stop(): the state becomes Idle, whoever it belongs to by now.
StopCloses(t) ==
  /\ stop[t] = "closing"
  /\ SetIdle
  /\ StopReturns(t)
  /\ UNCHANGED <<recordingStart, worker, world, polishUnchanged>>

Stop(t) == \/ StopTakeOver(t) \/ StopStale(t) \/ StopError(t)
           \/ StopSilent(t) \/ StopHears(t) \/ StopRoutes(t)
           \/ StopPolishes(t) \/ StreamChunk(t) \/ StreamTyped(t)
           \/ StopPolished(t) \/ StopCompletes(t) \/ StopDelivers(t)
           \/ StopSaves(t) \/ StopCloses(t)
-----------------------------------------------------------------------------
(* The deadline task of take t *)

deadlineUnchanged == <<abortFlag, startPc, text, shared, capture, task,
                       doneNote, abortNote, calls, world, ghost>>

\* drive_recording_deadline: it gives up when its session is no longer the
\* active one, and otherwise reports that the limit is reached.
DeadlineWakes(t) ==
  /\ deadline[t] = "armed"
  /\ deadline' = [deadline EXCEPT ![t] =
                    IF activeDeadlineId = sid[t] THEN "reached" ELSE "over"]
  /\ UNCHANGED <<state, transOp, ids, stops, deadlineUnchanged>>

\* It then calls stop() like any other caller.
DeadlineStops(t) ==
  /\ deadline[t] = "reached"
  /\ LockFree
  /\ deadline' = [deadline EXCEPT ![t] = "over"]
  /\ IF state = "Recording"
     THEN StopExchange
     ELSE UNCHANGED <<state, transOp, ids, stops, deadlineUnchanged>>
-----------------------------------------------------------------------------
(* abort(): no lock, so its steps interleave with everything above *)

\* A take is in flight from its exchange until its stop() returns.
InFlight(t) == \/ StopInFlight(t)
               \/ t = takes /\ (startPc \notin {"none", "called"}
                                 \/ state = "Recording")

AbortFlag ==
  /\ abortPc = "none" /\ aborts < MaxAborts
  /\ aborts' = aborts + 1
  /\ abortPc' = "flagged"
  /\ abortFlag' = TRUE
  /\ cancelled' = cancelled \cup {t \in Takes : InFlight(t)}
  /\ raced' = (raced \/ startPc \in {"numbering", "arming", "numbered",
                                         "recording"})
  /\ Overtakes
  /\ UNCHANGED <<state, transOp, startPc, ids, text, shared, capture, tasks,
                 stops, takes, switchPc, world, charged, timedOut, failed,
                 acked>>

\* The active session is retired and its deadline disarmed.
AbortRetire ==
  /\ abortPc = "flagged"
  /\ abortPc' = "retired"
  /\ activeSttId' = activeSttId + 1
  /\ activeDeadlineId' = 0
  /\ Overtakes
  /\ UNCHANGED <<state, abortFlag, transOp, startPc, sid, text, shared,
                 capture, tasks, stops, takes, aborts, switchPc, world,
                 charged, cancelled, timedOut, failed, acked, raced>>

\* The stored capture handle, if there is one, is stopped.
AbortSilence ==
  /\ abortPc = "retired"
  /\ abortPc' = "silenced"
  /\ DropCapture
  /\ UNCHANGED <<state, abortFlag, transOp, startPc, ids, text, shared, tasks,
                 stops, takes, aborts, switchPc, world, ghost>>

\* Both notes of the published control are given; a note for a task that will
\* not wait again is never read and is left out.
AbortNotify ==
  /\ abortPc = "silenced"
  /\ abortPc' = "notified"
  /\ abortNote' = [t \in Takes |-> abortNote[t]
                     \/ (t = sttSession
                           /\ task[t] \in {"running", "appending", "draining"})]
  /\ doneNote' = [t \in Takes |-> doneNote[t] \/ t = sttSession]
  /\ UNCHANGED <<state, abortFlag, transOp, startPc, ids, text, shared,
                 capture, task, deadline, stops, takes, aborts, switchPc,
                 world, ghost>>

AbortIdle ==
  /\ abortPc = "notified"
  /\ abortPc' = "none"
  /\ accumulated' = {}
  /\ sttError' = NoTake
  /\ SetIdle
  /\ UNCHANGED <<abortFlag, startPc, ids, shared, capture, tasks, stops, takes,
                 aborts, switchPc, world, ghost>>

Abort == AbortRetire \/ AbortSilence \/ AbortNotify \/ AbortIdle
-----------------------------------------------------------------------------
(* switch_active_translation_target(): the state is read first, and the     *)
(* operation is locked and changed afterwards.                              *)

SwitchCheck ==
  /\ switchPc = "idle" /\ Targets # {}
  /\ state = "Recording"
  /\ switchPc' = "checked"
  /\ UNCHANGED <<state, abortFlag, transOp, startPc, ids, text, shared,
                 capture, tasks, stops, takes, abortPc, aborts, world, ghost>>

SwitchAlways(tg) ==                                                   \* mutant
  /\ switchPc = "checked"
  /\ switchPc' = "idle"
  /\ IF transOp # NoOp
     THEN /\ transOp' = [transOp EXCEPT !.target = tg]
          /\ acked' = [acked EXCEPT ![transOp.take] = tg]
     ELSE UNCHANGED <<transOp, acked>>
  /\ UNCHANGED <<state, abortFlag, startPc, ids, text, shared, capture, tasks,
                 stops, takes, abortPc, aborts, world, charged, cancelled,
                 timedOut, overtaken, failed, raced>>

\* Without an operation, or once it is finalised, the call is refused.
SwitchTarget(tg) ==
  /\ switchPc = "checked"
  /\ switchPc' = "idle"
  /\ IF transOp # NoOp /\ transOp.phase = "Capturing"
     THEN /\ transOp' = [transOp EXCEPT !.target = tg]
          /\ acked' = [acked EXCEPT ![transOp.take] = tg]
     ELSE UNCHANGED <<transOp, acked>>
  /\ UNCHANGED <<state, abortFlag, startPc, ids, text, shared, capture, tasks,
                 stops, takes, abortPc, aborts, world, charged, cancelled,
                 timedOut, overtaken, failed, raced>>
-----------------------------------------------------------------------------
Next ==
  \/ Start
  \/ StopCall
  \/ \E t \in Takes : Task(t) \/ Stop(t) \/ DeadlineWakes(t)
                                         \/ DeadlineStops(t)
  \/ AbortFlag \/ Abort
  \/ SwitchCheck \/ \E tg \in Targets : SwitchTarget(tg)

Spec == Init /\ [][Next]_vars

(***************************************************************************)
(* Fairness.  The tasks are spawned on a runtime that polls every ready    *)
(* task, and every await inside start() and stop() is bounded: startup by  *)
(* thirty seconds, the wait for the STT task by two minutes, the language  *)
(* model by its HTTP timeout.  abort() runs to its end.  A deadline timer  *)
(* fires, and pipeline_lock is a tokio mutex, which is granted in the      *)
(* order of the requests: a stop() that waits for it gets it.  Nothing is  *)
(* assumed of the user or of the STT provider.                             *)
(***************************************************************************)
StartIsFair   == WF_vars(startPc # "none" /\ Start)
AbortIsFair   == WF_vars(Abort)
TakeIsFair(t) == /\ WF_vars(Stop(t))
                 /\ WF_vars(DeadlineWakes(t))
                 /\ SF_vars(DeadlineStops(t))

Fairness == /\ StartIsFair /\ AbortIsFair
            /\ \A t \in Takes : TakeIsFair(t)

FairSpec == Spec /\ Fairness

(***************************************************************************)
(* Two steps of the callers make a behaviour "raced": abort() begins after *)
(* start() has looked at abort_flag for the last time, or start() resets   *)
(* the flag while a cancelled stop() (or abort() itself) still relies on   *)
(* it.  The code excludes neither.  OrderlySpec describes the behaviours   *)
(* whose callers avoid both; its fairness only speaks of other steps.      *)
(***************************************************************************)
OrderlySpec     == Init /\ [][Next /\ ~raced']_vars
OrderlyFairSpec == OrderlySpec /\ Fairness
-----------------------------------------------------------------------------
(* Properties *)

HandleOK ==
  /\ state \in PipelineState
  /\ abortFlag \in BOOLEAN
  /\ activeSttId \in Nat /\ activeDeadlineId \in Nat
  /\ audioHandle \in Takes \cup {NoTake}
  /\ accumulated \subseteq Takes
  /\ sttSession \in Takes \cup {NoTake}
  /\ sttError \in Takes \cup {NoTake}
  /\ preloaded \in Takes \cup {NoTake}
  /\ recordingStart \in Takes \cup {NoTake}
  /\ transOp \in {NoOp} \cup [take : Takes, target : Targets, phase : Phases]

CallsOK ==
  /\ startPc \in StartPc /\ takes \in 0..MaxTakes
  /\ startPc = "called" => takes < MaxTakes
  /\ startPc \notin {"none", "called"} => takes \in Takes
  /\ state = "Recording" => takes \in Takes
  /\ abortPc \in AbortPc /\ aborts \in 0..MaxAborts
  /\ switchPc \in {"idle", "checked"}

TasksOK ==
  /\ sid \in [Takes -> Nat]
  /\ mic \in [Takes -> BOOLEAN]
  /\ task \in [Takes -> TaskPc]
  /\ doneNote \in [Takes -> BOOLEAN]
  /\ abortNote \in [Takes -> BOOLEAN]
  /\ deadline \in [Takes -> {"none", "armed", "reached", "over"}]

StopsOK ==
  /\ stop \in [Takes -> StopPc]
  /\ ctl \in [Takes -> Takes \cup {NoTake}]
  /\ cfg \in [Takes -> Takes \cup {NoTake}]
  /\ used \in [Takes -> Targets \cup {NoTarget}]
  /\ heard \in [Takes -> SUBSET Takes]
  /\ worker \in [Takes -> {"idle", "typing", "failed"}]

WorldOK ==
  /\ given \in [Takes -> Given]
  /\ history \subseteq [take : Takes, started : Takes \cup {NoTake}]
  /\ charged \subseteq Takes
  /\ cancelled \subseteq Takes
  /\ timedOut \subseteq Takes
  /\ overtaken \subseteq Takes
  /\ failed \subseteq Takes
  /\ acked \in [Takes -> Targets \cup {NoTarget}]
  /\ raced \in BOOLEAN

\* Type invariant; start() and a recording always belong to some take.
TypeOK == HandleOK /\ CallsOK /\ TasksOK /\ StopsOK /\ WorldOK

\* A stop() works with the STT control and the configuration that the start()
\* of the same recording published, also when the recording is stopped as soon
\* as it is reported (the comment on pipeline_lock).
StopOwnsSetup ==
  \A t \in Takes : stop[t] \notin {"none", "capturing"} => ctl[t] = t /\ cfg[t] = t

\* A dictation ends with an STT error only if its own STT task failed: an error
\* that an earlier session latched late is never charged to a later one.
ErrorIsOwn == charged \subseteq failed

\* The raw text of a dictation holds text of another one only if the other
\* one's STT task outlived its finalize timeout, or was between its look at the
\* session and its write when abort() or a start() fell in between.
TranscriptIsOwnUnlessLate ==
  raced \/ \A t \in Takes : heard[t] \subseteq {t} \cup timedOut \cup overtaken

\* The same without the exceptions (see the run that violates it).
TranscriptIsOwn == \A t \in Takes : heard[t] \subseteq {t}

\* The text is translated to the last target a switch was acknowledged for:
\* a switch that races stop() is either used or refused.
AckedTargetIsUsed ==
  \A t \in Takes : used[t] # NoTarget => used[t] = acked[t]

\* A recording can always be ended: its capture handle is stored, its deadline
\* is armed for it and its STT control is published.
RecordingCanEnd ==
  ~raced /\ state = "Recording" /\ startPc = "none" /\ abortPc = "none" =>
    /\ audioHandle = takes /\ mic[takes]
    /\ activeDeadlineId = sid[takes] /\ deadline[takes] \in {"armed", "reached"}
    /\ sttSession = takes

\* The state is never left busy with nobody to bring it back to Idle.
BusyHasOwner ==
  ~raced /\ state # "Idle" =>
    \/ startPc \notin {"none", "called"}
    \/ state = "Recording"
    \/ abortPc # "none"
    \/ \E t \in Takes : StopInFlight(t)

\* The microphone is on only for the latest dictation, and only while it is
\* being set up, recorded or stopped.
MicHasOwner ==
  raced \/ \A t \in Takes : mic[t] =>
    /\ t = takes
    /\ \/ startPc \notin {"none", "called"}
       \/ state = "Recording"
       \/ stop[t] = "capturing"
       \/ abortPc # "none"

\* No interleaving of start(), stop(), abort() and the tasks leaves a recording,
\* the state or the microphone behind with nobody to end it.
NothingOrphaned == RecordingCanEnd /\ BusyHasOwner /\ MicHasOwner

\* The duration saved with a dictation is measured from its own start.
DurationIsOwn ==
  raced \/ \A e \in history : e.started = e.take

\* For every behaviour: once abort() has returned, a dictation it cancelled
\* while it was polished is not output ("skip output if cancelled during
\* polish").
CancelledInPolishIsNotOutput ==
  [][abortPc = "none" =>
       \A t \in cancelled : stop[t] = "polishing" => stop'[t] # "executing"]_vars

\* When abort() returns, the capture of every dictation it cancelled is off
\* ("Stops audio capture, forces state to Idle").
AbortStopsCapture ==
  [][abortPc = "notified" /\ abortPc' = "none" =>
       \A t \in cancelled : ~mic'[t]]_vars

\* A transcript is not used once the session that produced it has failed, unless
\* the error of another session, whose task was overtaken between its look and
\* its write, has meanwhile replaced the one that was latched.
FailedIsNotHeard ==
  [][raced \/ \A t \in Takes : heard'[t] # heard[t] /\ t \in failed =>
       sttError \in overtaken \ {t}]_vars

\* Nobody is stuck: whoever is inside start(), stop() or abort() has a step to
\* take, whatever the others do, and so has a deadline task, which only waits for
\* the lock. (That somebody can move is what weak fairness needs to be worth
\* anything: a wait that nothing ends would satisfy it.)
NothingStuck ==
  /\ startPc # "none" => ENABLED <<startPc # "none" /\ Start>>_vars
  /\ abortPc # "none" => ENABLED <<Abort>>_vars
  /\ \A t \in Takes :
       /\ StopInFlight(t) => ENABLED <<Stop(t)>>_vars
       /\ deadline[t] = "armed" => ENABLED <<DeadlineWakes(t)>>_vars
       /\ deadline[t] = "reached" /\ LockFree => ENABLED <<DeadlineStops(t)>>_vars

\* Liveness: every stop() returns,
StopReturnsInTheEnd ==
  \A t \in Takes : StopInFlight(t) ~> stop[t] = "ended"

\* the pipeline gets back to Idle, also when nobody stops the recording and
\* when the STT task has died in the middle of it,
BackToIdle == (state # "Idle") ~> (state = "Idle")

\* and every capture ends.
MicIsReleased == \A t \in Takes : mic[t] ~> ~mic[t]

\* Whatever begins, ends.
EndsInTheEnd == StopReturnsInTheEnd /\ BackToIdle /\ MicIsReleased
=============================================================================
