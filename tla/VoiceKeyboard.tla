---------------------------- MODULE VoiceKeyboard ----------------------------
(***************************************************************************)
(* The keyboard of the Android application (OpenTypelessImeService): a tap *)
(* or the hold of a key begins a dictation for the place of the cursor,    *)
(* and what is heard goes there or nowhere.                                *)
(*                                                                         *)
(* Its methods and the lambdas it posts run on the main thread, a thread   *)
(* of its own loads the settings, and the pipeline's worker and the speech *)
(* service call its listener at any time. The editor is another process:   *)
(* its cursor moves before the keyboard is told.                           *)
(***************************************************************************)
EXTENDS SystemRecognizer

CONSTANT MaxEdits      \* how often the cursor moves or the editor changes
ASSUME KeyboardAssumption == MaxEdits \in Nat

Targets  == RunIds     \* the run of a target has its number
NoTarget == 0

VARIABLES
  activeTarget,  \* the dictation that may change the editor
  targets,       \* what captureTarget() took down
  localIo,       \* the targets whose settings are still to be loaded
  editor,        \* the field that has the focus, and where its cursor is
  noticed,       \* where onUpdateSelection last said it was
  composing,     \* the target whose partial text is shown in the field
  finger,        \* on the key that is held to talk
  committed,     \* the texts that were inserted, and where
  calledOff,     \* the targets that were cancelled
  edits

keyboardVars == << activeTarget, targets, localIo, editor, noticed, composing, finger,
                   committed, calledOff, edits >>
voiceKeyboardVars == << voiceVars, systemVars, keyboardVars >>

NotTaken == [epoch |-> -1, place |-> 0, selection |-> 0, plain |-> FALSE, byHold |-> FALSE]

KeyboardInit ==
  /\ VoiceInit /\ SystemInit
  /\ activeTarget = NoTarget /\ targets = [t \in Targets |-> NotTaken] /\ localIo = << >>
  /\ editor = [open |-> TRUE, sensitive |-> FALSE, epoch |-> 0, place |-> 0]
  /\ noticed = 0 /\ composing = NoTarget /\ finger = "up"
  /\ committed = {} /\ calledOff = {} /\ edits = 0

KeepsEditor  == UNCHANGED << editor, noticed, edits >>
KeepsGhosts  == UNCHANGED << committed, calledOff >>
KeepsTargets == UNCHANGED << targets, localIo >>
----------------------------------------------------------------------------
(* pipeline.stopRecording() and pipeline.cancel() as the keyboard calls    *)
(* them.                                                                   *)

StopsRecording ==
  /\ UNCHANGED << active, pipeState, currentId, submitted, worker, attribution, clobbered >>
  /\ IF ~CanStop THEN UNCHANGED << runs, systemVars >>
     ELSE IF runs[active].session # "none" THEN StopsCapture /\ UNCHANGED systemVars
     ELSE SystemStops /\ KeepsSession /\ UNCHANGED << runs, sessionToken >>

CancelsPipeline ==
  /\ CancelsRun /\ KeepsSession /\ UNCHANGED << submitted, worker, attribution, clobbered >>
  /\ IF active = NoRun THEN UNCHANGED << looper, sessionToken >> ELSE SystemCancels

\* clearLiveComposition: only the composition of this target.
CompositionKept(t) == UNCHANGED composing \* mutant
CompositionCleared(t) == composing' = IF composing = t THEN NoTarget ELSE composing

\* cancelPipeline, with the queue of the main thread as it is.
CancelsDictation ==
  /\ CancelsPipeline /\ CompositionCleared(activeTarget)
  /\ activeTarget' = NoTarget
  /\ calledOff' = IF activeTarget = NoTarget THEN calledOff ELSE calledOff \cup {activeTarget}
  /\ UNCHANGED << committed, targets, localIo >>
----------------------------------------------------------------------------
(* The user.                                                               *)

NextTarget == CHOOSE t \in Targets : targets[t] = NotTaken /\ \A s \in Targets : s < t => targets[s] # NotTaken
CanTake    == \E t \in Targets : targets[t] = NotTaken

\* toggleRecording: the state of the pipeline decides, then the active target.
ToggleStops ==
  /\ ~editor.sensitive /\ pipeState = "RECORDING"
  /\ StopsRecording /\ UNCHANGED << activeTarget, targets, localIo >>

CanBegin ==
  editor.open /\ ~editor.sensitive /\ pipeState = "IDLE" /\ activeTarget = NoTarget /\ CanTake

ToggleBegins(hold) ==
  /\ CanBegin
  /\ \E plain \in BOOLEAN :
       targets' = [targets EXCEPT ![NextTarget] =
         [epoch |-> editor.epoch, place |-> editor.place, selection |-> noticed,
          plain |-> plain, byHold |-> hold]]
  /\ activeTarget' = NextTarget /\ localIo' = Append(localIo, NextTarget)
  /\ UNCHANGED << voiceVars, systemVars >>

TogglesNothing ==
  /\ editor.sensitive \/ (pipeState # "RECORDING" /\ ~CanBegin)
  /\ UNCHANGED << activeTarget, targets, localIo, voiceVars, systemVars >>

TapsMicrophone ==
  /\ ToggleStops \/ ToggleBegins(FALSE)
  /\ KeepsEditor /\ KeepsGhosts /\ UNCHANGED << composing, finger >>

\* beginHold: the key was held long enough.
HoldsKey ==
  /\ finger = "up" /\ finger' = "held"
  /\ ToggleStops \/ ToggleBegins(TRUE) \/ TogglesNothing
  /\ KeepsEditor /\ KeepsGhosts /\ UNCHANGED composing

\* finishHoldToTalk: too short is a hold that ends before the recording begins.
TooShortToTell == FALSE \* mutant
TooShort == pipeState = "IDLE" /\ activeTarget # NoTarget

LetsGo ==
  /\ finger = "held" /\ finger' = "up" /\ KeepsEditor
  /\ \/ TooShort /\ CancelsDictation
     \/ /\ ~TooShort /\ KeepsGhosts /\ KeepsTargets /\ UNCHANGED << activeTarget, composing >>
        /\ IF pipeState = "RECORDING" THEN StopsRecording ELSE UNCHANGED << voiceVars, systemVars >>

\* The key for it, and a window or a view that goes away.
PressesCancel ==
  CancelsDictation /\ KeepsEditor /\ UNCHANGED finger
----------------------------------------------------------------------------
(* The editor.                                                             *)

\* onFinishInput and onStartInput
FieldChanges ==
  /\ edits < MaxEdits /\ edits' = edits + 1
  /\ CancelsDictation
  /\ \E open, sensitive \in BOOLEAN :
       /\ sensitive => open
       /\ editor' = [open |-> open, sensitive |-> sensitive, epoch |-> editor.epoch + 1, place |-> 0]
  /\ noticed' = 0 /\ UNCHANGED finger

\* The cursor or the text around it, on the side of the application.
CursorMoves ==
  /\ edits < MaxEdits /\ editor.open
  /\ edits' = edits + 1 /\ editor' = [editor EXCEPT !.place = 1 - @]
  /\ KeepsGhosts /\ KeepsTargets
  /\ UNCHANGED << noticed, activeTarget, composing, finger, voiceVars, systemVars >>

\* onUpdateSelection
SelectionUpdated ==
  /\ noticed # editor.place /\ noticed' = editor.place
  /\ IF activeTarget # NoTarget /\ targets[activeTarget].selection # noticed'
     THEN CancelsDictation
     ELSE KeepsGhosts /\ KeepsTargets /\ UNCHANGED << activeTarget, composing, voiceVars, systemVars >>
  /\ UNCHANGED << editor, finger, edits >>

\* targetStillValid, liveCompositionStillValid
StillValid(t) ==
  /\ editor.open /\ ~editor.sensitive
  /\ targets[t].epoch = editor.epoch /\ targets[t].place = editor.place
----------------------------------------------------------------------------
(* The thread that loads the settings, and what it posts.                  *)

Lambda(what, t) == [what |-> what, token |-> 0, run |-> t]

LoadsSettings ==
  /\ localIo # << >> /\ localIo' = Tail(localIo)
  /\ \E what \in {"unprepared", "preparedCaptured", "preparedSystem"} : Post(Lambda(what, Head(localIo)))
  /\ KeepsEditor /\ KeepsGhosts
  /\ UNCHANGED << voiceVars, sessionToken, session, awaiting, watchdog, activeTarget, targets,
                  composing, finger >>
----------------------------------------------------------------------------
(* The main thread, one post at a time.                                    *)

FirstPost == Head(looper)
PostDone  == looper' = Tail(looper)

OnMain(whats) == looper # << >> /\ FirstPost.what \in whats
IsForActive == activeTarget = FirstPost.run

\* The posts of a target that is no longer the active one do nothing.
PostIsStale ==
  /\ OnMain({"unprepared", "preparedCaptured", "preparedSystem", "partial", "result", "error"})
  /\ ~IsForActive /\ PostDone
  /\ KeepsEditor /\ KeepsGhosts /\ KeepsTargets
  /\ UNCHANGED << voiceVars, sessionToken, session, awaiting, watchdog, activeTarget, composing, finger >>

\* Not prepared, or not where it was.
PrepareEnds ==
  /\ OnMain({"unprepared", "preparedCaptured", "preparedSystem"}) /\ IsForActive
  /\ FirstPost.what # "unprepared" => ~StillValid(activeTarget)
  /\ PostDone /\ activeTarget' = NoTarget
  /\ KeepsEditor /\ KeepsGhosts /\ KeepsTargets
  /\ UNCHANGED << voiceVars, sessionToken, session, awaiting, watchdog, composing, finger >>

PipelineStarts ==
  /\ OnMain({"preparedCaptured", "preparedSystem"}) /\ IsForActive /\ StillValid(activeTarget)
  /\ LET captured == FirstPost.what = "preparedCaptured"
     IN  /\ StartsRun(activeTarget, captured)
         /\ IF captured \/ RunRefused THEN PostDone /\ UNCHANGED sessionToken
            ELSE /\ sessionToken' = sessionToken + 1
                 /\ looper' = Append(Tail(looper), OnSystem("start", sessionToken + 1, activeTarget))
  /\ activeTarget' = IF RunRefused THEN NoTarget ELSE activeTarget
  /\ KeepsSession /\ KeepsEditor /\ KeepsGhosts /\ KeepsTargets
  /\ UNCHANGED << worker, attribution, clobbered, composing, finger >>

\* updateLiveComposition: a selection is not replaced before the result; the
\* editor may refuse the text.
ShowsPartial ==
  /\ OnMain({"partial"}) /\ IsForActive /\ (targets[activeTarget].plain => StillValid(activeTarget))
  /\ PostDone
  /\ \/ targets[activeTarget].plain /\ composing' = activeTarget
     \/ UNCHANGED composing
  /\ KeepsEditor /\ KeepsGhosts /\ KeepsTargets
  /\ UNCHANGED << voiceVars, sessionToken, session, awaiting, watchdog, activeTarget, finger >>

PartialFindsOther ==
  /\ OnMain({"partial"}) /\ IsForActive
  /\ targets[activeTarget].plain /\ ~StillValid(activeTarget)
  /\ CancelsRun /\ CompositionCleared(activeTarget) /\ activeTarget' = NoTarget
  /\ calledOff' = calledOff \cup {activeTarget}
  /\ IF active = NoRun THEN PostDone /\ UNCHANGED sessionToken
     ELSE /\ sessionToken' = sessionToken + 1
          /\ looper' = Append(Tail(looper), OnSystem("cancel", sessionToken + 1, NoRun))
  /\ KeepsSession /\ KeepsEditor /\ KeepsTargets
  /\ UNCHANGED << submitted, worker, attribution, committed, clobbered, finger >>

\* commitResult: what is inserted, where. Or nothing: another place, no text, or
\* an editor that refuses it.
ResultArrives ==
  /\ OnMain({"result"}) /\ IsForActive /\ PostDone
  /\ activeTarget' = NoTarget
  /\ \/ /\ StillValid(activeTarget)
        /\ committed' = committed \cup {[target |-> activeTarget, epoch |-> editor.epoch, place |-> editor.place]}
     \/ UNCHANGED committed
  /\ CompositionCleared(activeTarget)
  /\ KeepsEditor /\ KeepsTargets
  /\ UNCHANGED << voiceVars, sessionToken, session, awaiting, watchdog, calledOff, finger >>

ErrorArrives ==
  /\ OnMain({"error"}) /\ IsForActive /\ PostDone
  /\ activeTarget' = NoTarget /\ CompositionCleared(activeTarget)
  /\ KeepsEditor /\ KeepsGhosts /\ KeepsTargets
  /\ UNCHANGED << voiceVars, sessionToken, session, awaiting, watchdog, finger >>
----------------------------------------------------------------------------
(* The posts of the recognizer, and its events.                            *)

KeepsKeyboard == UNCHANGED keyboardVars

SystemPost ==
  /\ OnMain({"start", "stop", "cancel"}) /\ PostDone
  /\ \/ FirstPost.what = "start" /\ SessionBegins(FirstPost)
     \/ FirstPost.what = "stop" /\ StopsOnMain
     \/ FirstPost.what = "cancel" /\ CancelsOnMain(FirstPost)
  /\ KeepsKeyboard /\ UNCHANGED voiceVars

\* The end of a session without a text, as the pipeline takes it.
SessionFails(r, queue) ==
  /\ KeepsWorker
  /\ \/ FallsBack(r) /\ looper' = queue
     \/ /\ PipelineFails(r)
        /\ looper' = IF RunIsCurrent(r) THEN Append(queue, Lambda("error", r)) ELSE queue

SystemStartFails ==
  /\ OnMain({"start"}) /\ SessionBeginFails(FirstPost)
  /\ PipelineFails(FirstPost.run) /\ KeepsWorker
  /\ looper' = IF RunIsCurrent(FirstPost.run) THEN Append(Tail(looper), Lambda("error", FirstPost.run)) ELSE Tail(looper)
  /\ KeepsKeyboard

\* onError, a result without text, a timeout, a stop that fails.
ServiceFails == SessionEnds /\ SessionFails(session.run, looper) /\ KeepsKeyboard

ServiceHears     == Recognized /\ KeepsKeyboard
ServiceEnds      == EndOfSpeech /\ KeepsKeyboard
RecordingTimeout == LimitReached /\ KeepsKeyboard

\* A partial text of the service, or of the preview of the local model.
PartialHeard ==
  /\ active # NoRun /\ RunIsCurrent(active)
  /\ (IsLive /\ session.run = active) \/ Listens(active)
  /\ \A i \in DOMAIN looper : looper[i].what # "partial"
  /\ Post(Lambda("partial", active))
  /\ KeepsKeyboard /\ UNCHANGED << voiceVars, sessionToken, session, awaiting, watchdog >>
----------------------------------------------------------------------------
(* The worker: its result and its error are posted.                        *)

WorkerMoves == WorkerRuns /\ UNCHANGED << systemVars, keyboardVars >>

WorkerStopsItself == VadStops /\ UNCHANGED << systemVars, keyboardVars >>

WorkerSays ==
  /\ worker.say \in {"result", "error"} /\ ListenerReturns
  /\ Post(Lambda(worker.say, worker.run))
  /\ UNCHANGED << active, pipeState, currentId, runs, submitted, attribution, clobbered,
                  sessionToken, session, awaiting, watchdog, keyboardVars >>
----------------------------------------------------------------------------
MainStep ==
  \/ PostIsStale \/ PrepareEnds \/ PipelineStarts \/ ShowsPartial \/ PartialFindsOther
  \/ ResultArrives \/ ErrorArrives \/ SystemPost \/ SystemStartFails

KeyboardNext ==
  \/ TapsMicrophone \/ HoldsKey \/ LetsGo \/ PressesCancel
  \/ FieldChanges \/ CursorMoves \/ SelectionUpdated
  \/ LoadsSettings \/ MainStep
  \/ ServiceFails \/ ServiceHears \/ ServiceEnds \/ RecordingTimeout \/ PartialHeard
  \/ WorkerMoves \/ WorkerStopsItself \/ WorkerSays

KeyboardSpec == KeyboardInit /\ [][KeyboardNext]_voiceKeyboardVars

KeyboardTypeOK ==
  /\ VoiceTypeOK /\ SystemTypeOK
  /\ activeTarget \in Targets \cup {NoTarget} /\ composing \in Targets \cup {NoTarget}
  /\ finger \in {"up", "held"} /\ noticed \in 0..1 /\ edits \in 0..MaxEdits
  /\ editor \in [open : BOOLEAN, sensitive : BOOLEAN, epoch : 0..MaxEdits, place : 0..1]

\* What was spoken for one place of one field is inserted there or nowhere: not
\* after the cursor or the focus has gone elsewhere, and not after a cancel,
\* whatever was still posted. Of a partial text nothing stays behind.
SpokenTextStaysInItsField ==
  /\ \A c \in committed :
       /\ c.epoch = targets[c.target].epoch /\ c.place = targets[c.target].place
       /\ c.target \notin calledOff
  /\ composing # NoTarget => composing = activeTarget

\* What the hold of the key began does not listen once the key is up.
\* Not so in two cases: the service had no microphone and the recorder of the
\* application took over, and a run that was cancelled overwrote the state.
AskedToStop(r) ==
  \/ runs[r].session = "STOPPED"
  \/ worker.run = r /\ worker.pc \notin {"capture", "opened", "created", "capturing"}
  \/ /\ runs[r].session = "none"
     /\ \/ pipeState # "RECORDING" \/ awaiting
        \/ \E i \in DOMAIN looper : looper[i].what = "stop"

FingerUpNothingListens ==
  active # NoRun /\ targets[active].byHold /\ finger = "up"
    => AskedToStop(active) \/ runs[active].fellBack \/ clobbered

\* A recognizer of the system that nobody waits for is about to be destroyed.
NoRecognizerIsLeft ==
  session # NoSession /\ ~IsLive =>
    \E i \in DOMAIN looper : looper[i].what \in {"start", "cancel"} /\ looper[i].token = sessionToken

\* start() is called only when the pipeline has no run: a start that is refused
\* would leave the run it meets without a generation.
NeverRefused == active # NoRun => currentId = active /\ activeTarget = active

\* Nothing listens that the user does not expect to.
NothingListensUnasked == FingerUpNothingListens /\ NoRecognizerIsLeft /\ NeverRefused
=============================================================================
