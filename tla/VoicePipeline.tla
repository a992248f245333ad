---------------------------- MODULE VoicePipeline ----------------------------
(***************************************************************************)
(* The voice pipeline of the Android application: one run at a time, which *)
(* its caller starts, stops and cancels, and which a worker thread records,*)
(* transcribes and finishes.                                               *)
(*                                                                         *)
(* The calls come from one thread at a time (the main thread, or whoever   *)
(* holds the lock of the engine), so each is one step; what the worker     *)
(* does between two reads or writes of the shared state is one step, too.  *)
(* A listener that the worker calls is in `worker.say`: the module that    *)
(* uses the pipeline says what the listener does.                          *)
(***************************************************************************)
EXTENDS Integers, Sequences

CONSTANT MaxRuns          \* how often the pipeline is started
ASSUME VoiceAssumption == MaxRuns \in Nat

RunIds == 1..MaxRuns
NoRun  == 0
BaseContext == 0          \* the attribution of the application itself

PipeStates == {"IDLE", "RECORDING", "TRANSCRIBING", "POLISHING"}
EndStates  == {"none", "ACTIVE", "STOPPED", "CANCELLED"}
WorkerPc   == {"idle", "capture", "opened", "created", "capturing", "captured", "checked",
               "transcribing", "transcribed", "polishes", "polishing", "done", "ending"}
Said == {"nothing", "ready", "beginning", "processing", "result", "error"}

VARIABLES
  active,        \* the run the pipeline belongs to
  pipeState,     \* what state() returns
  currentId,        \* the run whose id the generation holds, if any
  runs,          \* the runs: what recording they have and whether they are cancelled
  submitted,     \* the tasks of the executor
  worker,        \* its only thread
  attribution,   \* in whose name the recorder records
  clobbered      \* a run that was cancelled has overwritten pipeState (of the model)

voiceVars == << active, pipeState, currentId, runs, submitted, worker, attribution, clobbered >>

Fresh  == [session |-> "none", cancelled |-> FALSE, fellBack |-> FALSE]
Resting == [run |-> NoRun, pc |-> "idle", say |-> "nothing", as |-> BaseContext,
            heard |-> FALSE, out |-> "nothing"]

VoiceInit ==
  /\ active = NoRun /\ pipeState = "IDLE" /\ currentId = NoRun
  /\ runs = [r \in RunIds |-> Fresh]
  /\ submitted = << >> /\ worker = Resting /\ attribution = BaseContext /\ clobbered = FALSE

RunIsCurrent(r) == active = r /\ ~runs[r].cancelled /\ currentId = r
----------------------------------------------------------------------------
(* The calls.                                                              *)

Submit(r, at) == submitted' = Append(submitted, [run |-> r, at |-> at])

\* start(): a run that is refused has taken the generation all the same.
RunRefused == active # NoRun

StartsRun(r, captured) ==
  /\ currentId' = IF RunRefused THEN NoRun ELSE r
  /\ active' = IF RunRefused THEN active ELSE r
  /\ pipeState' = IF RunRefused THEN pipeState ELSE "RECORDING"
  /\ runs' = IF RunRefused \/ ~captured THEN runs ELSE [runs EXCEPT ![r].session = "ACTIVE"]
  /\ IF RunRefused \/ ~captured THEN UNCHANGED submitted ELSE Submit(r, "capture")

\* RecordingSession.stop(): only an active session is stopped.
Stopped(session) == IF session = "ACTIVE" THEN "STOPPED" ELSE session

CanStop == active # NoRun /\ pipeState = "RECORDING"
StopsCapture == runs' = [runs EXCEPT ![active].session = Stopped(@)]

CancelsRun ==
  /\ active' = NoRun /\ currentId' = NoRun /\ pipeState' = "IDLE"
  /\ runs' = IF active = NoRun THEN runs
             ELSE [runs EXCEPT ![active].cancelled = TRUE,
                               ![active].session = IF @ = "none" THEN @ ELSE "CANCELLED"]
----------------------------------------------------------------------------
(* The worker.                                                             *)

WorkerAt(pc) == worker.pc = pc /\ worker.say \notin {"result", "error"}
Mine   == worker.run
WorkerGoes(pc) == worker' = [worker EXCEPT !.pc = pc, !.say = "nothing"]

WorkerCalls(pc, what) ==
  worker' = [worker EXCEPT !.pc = pc, !.say = IF RunIsCurrent(Mine) THEN what ELSE "nothing"]

\* The run leaves the pipeline, if it is still its own; the rest is RunEnds.
RunLeaves(out) ==
  IF active = Mine
  THEN active' = NoRun /\ worker' = [worker EXCEPT !.pc = "ending", !.say = "nothing", !.out = out]
  ELSE worker' = Resting /\ UNCHANGED active
RunFails == RunLeaves("error")

KeepsCalls  == UNCHANGED << currentId, runs, submitted, attribution >>
KeepsShared == UNCHANGED << active, pipeState >> /\ KeepsCalls

TaskBegins ==
  /\ WorkerAt("idle") /\ submitted # << >>
  /\ LET task == Head(submitted)
     IN  worker' = IF runs[task.run].cancelled THEN Resting
                   ELSE [Resting EXCEPT !.run = task.run, !.pc = task.at]
  /\ submitted' = Tail(submitted)
  /\ UNCHANGED << active, pipeState, currentId, runs, attribution >>

\* record() looks at the session when it begins and again before the microphone
\* is started; the recorder is created in between.
RecorderSession == runs[Mine].session

RecorderOpens ==
  /\ WorkerAt("capture")
  /\ \/ RecorderSession = "ACTIVE" /\ WorkerGoes("opened") /\ UNCHANGED active
     \/ RunFails
  /\ UNCHANGED pipeState /\ KeepsCalls

RecorderCreates ==
  /\ WorkerAt("opened")
  /\ \/ worker' = [worker EXCEPT !.pc = "created", !.say = "nothing", !.as = attribution] /\ UNCHANGED active
     \/ RunFails
  /\ UNCHANGED pipeState /\ KeepsCalls

MayRecordAnyway == TRUE \* mutant
MayRecord == RecorderSession = "ACTIVE"

RecorderStarts ==
  /\ WorkerAt("created")
  /\ \/ MayRecord /\ WorkerCalls("capturing", "ready") /\ UNCHANGED active
     \/ RunFails
  /\ UNCHANGED pipeState /\ KeepsCalls

RecorderHears ==
  /\ WorkerAt("capturing") /\ RecorderSession = "ACTIVE" /\ ~worker.heard
  /\ worker' = [worker EXCEPT !.heard = TRUE,
                              !.say = IF RunIsCurrent(Mine) THEN "beginning" ELSE "nothing"]
  /\ KeepsShared

\* The end of the speech, or none in time.
VadStops ==
  /\ WorkerAt("capturing") /\ RecorderSession = "ACTIVE"
  /\ runs' = [runs EXCEPT ![Mine].session = Stopped(@)]
  /\ UNCHANGED << active, pipeState, currentId, submitted, worker, attribution, clobbered >>

\* The capture ends when its session does, at the limit, or with an error.
RecorderEnds ==
  /\ WorkerAt("capturing")
  /\ \/ RecorderSession # "CANCELLED" /\ worker.heard /\ WorkerGoes("captured") /\ UNCHANGED active
     \/ RunFails
  /\ UNCHANGED pipeState /\ KeepsCalls

RecorderChecked ==
  /\ WorkerAt("captured")
  /\ worker' = IF RunIsCurrent(Mine) THEN [worker EXCEPT !.pc = "checked", !.say = "nothing"] ELSE Resting
  /\ KeepsShared

\* The state is set whoever the pipeline belongs to by now.
RunTranscribes ==
  /\ WorkerAt("checked") /\ pipeState' = "TRANSCRIBING"
  /\ worker' = [worker EXCEPT !.pc = "transcribing", !.say = "processing"]
  /\ UNCHANGED active /\ KeepsCalls

RunAnswered ==
  /\ WorkerAt("transcribing")
  /\ \/ WorkerGoes("transcribed") /\ UNCHANGED active
     \/ RunFails
  /\ UNCHANGED pipeState /\ KeepsCalls

\* finishTranscription: the words of the user, and the model if the mode asks.
RunPersonalizes ==
  /\ WorkerAt("transcribed")
  /\ \/ ~RunIsCurrent(Mine) /\ worker' = Resting /\ UNCHANGED active
     \/ RunIsCurrent(Mine) /\ (WorkerGoes("done") \/ WorkerGoes("polishes")) /\ UNCHANGED active
     \/ RunIsCurrent(Mine) /\ RunFails
  /\ UNCHANGED pipeState /\ KeepsCalls

RunPolishes ==
  /\ WorkerAt("polishes") /\ pipeState' = "POLISHING"
  /\ worker' = [worker EXCEPT !.pc = "polishing", !.say = "processing"]
  /\ UNCHANGED active /\ KeepsCalls

RunPolished ==
  /\ WorkerAt("polishing")
  /\ \/ WorkerGoes("done") /\ UNCHANGED active
     \/ RunFails
  /\ UNCHANGED pipeState /\ KeepsCalls

RunDone ==
  /\ WorkerAt("done")
  /\ IF RunIsCurrent(Mine) THEN RunLeaves("result") ELSE worker' = Resting /\ UNCHANGED active
  /\ UNCHANGED pipeState /\ KeepsCalls

RunEnds ==
  /\ WorkerAt("ending") /\ pipeState' = "IDLE"
  /\ worker' = [Resting EXCEPT !.run = Mine, !.say = worker.out]
  /\ UNCHANGED active /\ KeepsCalls

\* The listener returns.
ListenerReturns == worker' = IF worker.pc = "idle" THEN Resting ELSE [worker EXCEPT !.say = "nothing"]

ExecutorStep ==
  \/ TaskBegins \/ RecorderOpens \/ RecorderCreates \/ RecorderStarts \/ RecorderHears
  \/ RecorderEnds \/ RecorderChecked \/ RunTranscribes \/ RunAnswered
  \/ RunPersonalizes \/ RunPolishes \/ RunPolished \/ RunDone \/ RunEnds

\* A run that has left the pipeline writes the state all the same: what it
\* checked is no longer so, or a new run has begun before it sets IDLE.
Overwrites ==
  pipeState' # pipeState /\ active # Mine /\ (worker.pc = "ending" => active # NoRun)

WorkerRuns == ExecutorStep /\ clobbered' = (clobbered \/ Overwrites)

\* The microphone is on.
Listens(r) == worker.run = r /\ worker.pc = "capturing"

VoiceTypeOK ==
  /\ active \in RunIds \cup {NoRun} /\ currentId \in RunIds \cup {NoRun}
  /\ pipeState \in PipeStates /\ clobbered \in BOOLEAN
  /\ runs \in [RunIds -> [session : EndStates, cancelled : BOOLEAN, fellBack : BOOLEAN]]
  /\ \A i \in DOMAIN submitted :
       submitted[i] \in [run : RunIds, at : {"capture", "transcribed"}]
  /\ worker \in [run : RunIds \cup {NoRun}, pc : WorkerPc, say : Said, as : Int,
                 heard : BOOLEAN, out : Said]
=============================================================================
