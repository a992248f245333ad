------------------------------ MODULE Shortcuts ------------------------------
(***************************************************************************)
(* What a press of a shortcut does (src-tauri/src/hotkey.rs, with the tray *)
(* and the command line of lib.rs): the handler looks at the states of the *)
(* dictation pipeline and of Ask, and spawns a task that starts or stops   *)
(* one of them.  Tasks run in any order, each looks again, and the         *)
(* pipeline's lock lets one of them at a time start or stop it.            *)
(*                                                                         *)
(* The pipeline and Ask appear here with the states the handlers look at;  *)
(* Pipeline and AskDictation say what they do inside.                      *)
(***************************************************************************)
EXTENDS Naturals, Sequences

CONSTANTS
  MaxTasks,  \* bound on the tasks spawned in a behaviour
  MaxAsks    \* bound on the questions asked in it

ASSUME ShortcutAssumption == MaxTasks \in Nat /\ MaxAsks \in Nat

RecordingRoles == {"dictation", "translate"}

VARIABLES
  mode,        \* HotkeyModeCache: "hold" or "toggle"
  keys,        \* the recording shortcuts that are held
  tasks,       \* every task spawned so far, oldest first: what it does, its
               \* pc, and whether Ask was free when it looked
  pipe,        \* the state of the pipeline
  ask, stopAfterStart,    \* AskDictationState
  asks,
  draft,       \* run_ask_draft: "none", "checked", "polishing"
  reasons      \* history: what went a way the properties make exceptions for

shortVars == <<mode, keys, tasks, pipe, ask, stopAfterStart, asks, draft, reasons>>

TaskKinds == {"start", "stop", "flip", "tray"}
Active == {"Preparing", "Recording"}

ShortInit ==
  /\ mode \in {"hold", "toggle"}
  /\ keys = {} /\ tasks = <<>>
  /\ pipe = "Idle"
  /\ ask = "free" /\ stopAfterStart = FALSE /\ asks = 0
  /\ draft = "none" /\ reasons = {}

Busy == ask # "free"

Spawn(kind) ==
  /\ Len(tasks) < MaxTasks
  /\ tasks' = Append(tasks, [kind |-> kind, pc |-> "spawned", free |-> TRUE])

Goto(t, pc) == tasks' = [tasks EXCEPT ![t].pc = pc]

Checked(t, kind) ==
  tasks' = [tasks EXCEPT ![t] = [kind |-> kind, pc |-> "checked", free |-> ~Busy]]

LockIsFree == \A t \in DOMAIN tasks : tasks[t].pc # "starting"
-----------------------------------------------------------------------------
(* handle_hotkey_role_event *)

ReleaseStopsRecording ==                                              \* mutant
  IF mode = "hold" /\ pipe = "Recording" THEN Spawn("stop") ELSE UNCHANGED tasks

\* recording_shortcut_action.
RecordingReleased ==
  IF mode = "hold" THEN Spawn("stop") ELSE UNCHANGED tasks

RecordingPressed ==
  IF pipe = "Idle" THEN Spawn("start")
  ELSE IF mode = "toggle" THEN Spawn("stop") ELSE UNCHANGED tasks

\* ask_shortcut_action: a release is ignored.  A start is reserved at once.
AskPressed ==
  CASE ask = "recording" -> ask' = "processing" /\ UNCHANGED <<stopAfterStart, asks, reasons>>
    [] ask = "starting"  -> stopAfterStart' = TRUE /\ UNCHANGED <<ask, asks, reasons>>
    [] ask = "free" /\ asks < MaxAsks ->
         /\ ask' = "starting" /\ stopAfterStart' = FALSE /\ asks' = asks + 1
         /\ reasons' = reasons \cup IF pipe \in Active THEN {"askBeganSecond"} ELSE {}
    [] OTHER -> UNCHANGED <<ask, stopAfterStart, asks, reasons>>

\* While Ask starts or records, the dictation shortcut is Ask's.
IsAsks(role) == role = "dictation" /\ ask \in {"starting", "recording"}

Press(role) ==
  /\ role \notin keys
  /\ keys' = keys \cup {role}
  /\ IF IsAsks(role) THEN AskPressed /\ UNCHANGED tasks
     ELSE RecordingPressed /\ UNCHANGED <<ask, stopAfterStart, asks, reasons>>
  /\ UNCHANGED <<mode, pipe, draft>>

Release(role) ==
  /\ role \in keys
  /\ keys' = keys \ {role}
  /\ IF IsAsks(role)
     THEN UNCHANGED tasks /\ reasons' = reasons \cup {"askTookRelease"}
     ELSE RecordingReleased /\ UNCHANGED reasons
  /\ UNCHANGED <<mode, pipe, ask, stopAfterStart, asks, draft>>

\* A press of the Ask shortcut, and start_ask_flow.
PressAsk == AskPressed /\ UNCHANGED <<mode, keys, tasks, pipe, draft>>

\* dispatch_cli_action and the tray's "record": a task that decides by itself.
SpawnOther(kind) ==
  /\ Spawn(kind)
  /\ UNCHANGED <<mode, keys, pipe, ask, stopAfterStart, asks, draft, reasons>>
-----------------------------------------------------------------------------
(* The tasks *)

UncheckedTask(t) ==                                                   \* mutant
  /\ tasks[t].pc = "spawned"
  /\ Checked(t, tasks[t].kind)
  /\ UNCHANGED <<mode, keys, pipe, ask, stopAfterStart, asks, draft, reasons>>

\* handle_recording_shortcut: nothing is done while Ask is busy.  The command
\* line and the tray look at the pipeline instead.
TaskChecks(t) ==
  /\ tasks[t].pc = "spawned"
  /\ IF tasks[t].kind \in {"start", "stop"} THEN
            /\ IF Busy THEN Goto(t, "over") ELSE Checked(t, tasks[t].kind)
            /\ reasons' = reasons \cup
                 IF Busy /\ tasks[t].kind = "stop" THEN {"askTookRelease"} ELSE {}
     ELSE IF pipe = "Idle" THEN
            /\ Checked(t, "start")
            /\ reasons' = reasons \cup {"unasked"}
     ELSE IF pipe = "Recording" \/ tasks[t].kind = "flip" THEN
            /\ Checked(t, "stop")
            /\ UNCHANGED reasons
     ELSE Goto(t, "over") /\ UNCHANGED reasons
  /\ UNCHANGED <<mode, keys, pipe, ask, stopAfterStart, asks, draft>>

\* start_with_options: under the lock, and only from Idle.
TaskStarts(t) ==
  /\ tasks[t].kind = "start" /\ tasks[t].pc = "checked" /\ LockIsFree
  /\ IF pipe = "Idle"
     THEN /\ pipe' = "Preparing" /\ Goto(t, "starting")
          /\ reasons' = reasons \cup IF Busy /\ tasks[t].free THEN {"staleCheck"} ELSE {}
     ELSE Goto(t, "over") /\ UNCHANGED <<pipe, reasons>>
  /\ UNCHANGED <<mode, keys, ask, stopAfterStart, asks, draft>>

\* The setup ends, still under the lock: it records, or has failed.
TaskRecords(t) ==
  /\ tasks[t].pc = "starting"
  /\ Goto(t, "over")
  /\ pipe' \in {"Recording", "Idle"}
  /\ UNCHANGED <<mode, keys, ask, stopAfterStart, asks, draft, reasons>>

\* A stop takes the lock before a start that was spawned before it.
Overtakes(t) == \E s \in 1..t-1 : tasks[s].kind = "start" /\ tasks[s].pc # "over"

TaskStops(t) ==
  /\ tasks[t].kind = "stop" /\ tasks[t].pc = "checked" /\ LockIsFree
  /\ Goto(t, "over")
  /\ pipe' = IF pipe = "Recording" THEN "Transcribing" ELSE pipe
  /\ reasons' = reasons \cup IF Overtakes(t) THEN {"overtaken"} ELSE {}
  /\ UNCHANGED <<mode, keys, ask, stopAfterStart, asks, draft>>

\* The rest of stop(): transcript, polish, output.
PipelineEnds ==
  /\ pipe = "Transcribing"
  /\ pipe' = "Idle"
  /\ UNCHANGED <<mode, keys, tasks, ask, stopAfterStart, asks, draft, reasons>>
-----------------------------------------------------------------------------
(* Ask *)

\* start_reserved_ask_dictation ends, and take_stop_after_start follows.
AskRecords ==
  /\ ask = "starting"
  /\ ask' \in {"free", IF stopAfterStart THEN "processing" ELSE "recording"}
  /\ stopAfterStart' = FALSE
  /\ UNCHANGED <<mode, keys, tasks, pipe, asks, draft, reasons>>

\* The question needs a draft: run_ask_draft looks for an idle pipeline,
AskDrafts ==
  /\ ask = "processing" /\ draft = "none" /\ pipe = "Idle"
  /\ draft' = "checked"
  /\ UNCHANGED <<mode, keys, tasks, pipe, ask, stopAfterStart, asks, reasons>>

\* and sets its state, without an exchange, before and after the polishing.
AskPolishes ==
  /\ draft = "checked"
  /\ draft' = "polishing" /\ pipe' = "Polishing"
  /\ reasons' = reasons \cup IF pipe \in Active THEN {"draftTookPipeline"} ELSE {}
  /\ UNCHANGED <<mode, keys, tasks, ask, stopAfterStart, asks>>

\* The question is answered, or has failed.
AskEnds ==
  /\ ask = "processing" /\ draft # "checked"
  /\ ask' = "free" /\ draft' = "none"
  /\ pipe' = IF draft = "polishing" THEN "Idle" ELSE pipe
  /\ UNCHANGED <<mode, keys, tasks, stopAfterStart, asks, reasons>>
-----------------------------------------------------------------------------

ShortNext ==
  \/ \E r \in RecordingRoles : Press(r) \/ Release(r)
  \/ PressAsk \/ SpawnOther("flip") \/ SpawnOther("tray")
  \/ \E t \in DOMAIN tasks :
       TaskChecks(t) \/ TaskStarts(t) \/ TaskRecords(t) \/ TaskStops(t)
  \/ PipelineEnds \/ AskRecords \/ AskDrafts \/ AskPolishes \/ AskEnds

ShortSpec == ShortInit /\ [][ShortNext]_shortVars
-----------------------------------------------------------------------------
(* Properties *)

ShortTypeOK ==
  /\ mode \in {"hold", "toggle"} /\ keys \subseteq RecordingRoles
  /\ \A t \in DOMAIN tasks :
       /\ tasks[t].kind \in TaskKinds
       /\ tasks[t].pc \in {"spawned", "checked", "starting", "over"}
       /\ tasks[t].free \in BOOLEAN
  /\ pipe \in Active \cup {"Idle", "Transcribing", "Polishing"}
  /\ ask \in {"free", "starting", "recording", "processing"}
  /\ stopAfterStart \in BOOLEAN /\ draft \in {"none", "checked", "polishing"}

AllRun == \A t \in DOMAIN tasks : tasks[t].pc = "over"

\* In hold mode, once the keys are up and every task has run, nothing records,
\* however quickly the key was let go.  The code leaves three ways out of this:
\* a stop that overtakes its start, a release that falls to Ask, and a start
\* from the command line or the tray.
KeysUpNothingRecords ==
  mode = "hold" /\ keys = {} /\ AllRun /\ pipe = "Recording"
    => reasons \cap {"overtaken", "askTookRelease", "unasked"} # {}

\* Dictation and Ask do not both use the microphone, and a draft does not take
\* the pipeline from a recording, unless Ask began second (it does not look at
\* the pipeline), a check of Ask was stale when the lock came, or the start
\* came from the command line or the tray, which do not look at Ask.
OneVoiceOperation ==
  (pipe \in Active /\ ask \in {"starting", "recording"}) \/ "draftTookPipeline" \in reasons
    => reasons \cap {"askBeganSecond", "staleCheck", "unasked"} # {}
=============================================================================
