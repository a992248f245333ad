-------------------------- MODULE RecognitionService --------------------------
(***************************************************************************)
(* The recognition service that the Android application offers to others   *)
(* (OpenTypelessRecognitionService), with its controller, its engine and a *)
(* voice pipeline of its own.                                              *)
(*                                                                         *)
(* The calls of the clients come on the main thread. The engine prepares a *)
(* session on a thread of its own and then starts the pipeline, whose      *)
(* worker calls back through the engine and the controller; what these     *)
(* tell the client is posted to the main thread. Each section under the    *)
(* lock of the engine or of the controller is one step; the callbacks of   *)
(* the engine hold both.                                                   *)
(***************************************************************************)
EXTENDS VoicePipeline

Clients == RunIds      \* every start of a client is a session with its number,
Nobody  == 0           \* and so is the run of the pipeline

VARIABLES
  came,            \* how many clients have come
  activeCallback,  \* the client that is served
  controller,      \* the session of the controller
  phase,           \* RecognitionPreparationState: the phase
  token,           \* and the session it is about
  preparations,    \* the tasks of the preparation thread
  preparing,       \* the session that it prepares
  endTold,         \* the sessions whose pipeline has said that the speech is over
  mainThread,      \* where a stop() or a cancel() of the controller is
  posts,           \* what is posted to the main thread
  answers          \* what each client was told

serviceVars == << came, activeCallback, controller, phase, token, preparations, preparing,
                  endTold, mainThread, posts, answers >>
recognitionVars == << voiceVars, serviceVars >>

NoClient == [who |-> Nobody, state |-> "IDLE", ready |-> FALSE, beginning |-> FALSE, ended |-> FALSE]

RecognitionInit ==
  /\ VoiceInit
  /\ came = 0 /\ activeCallback = Nobody /\ controller = NoClient
  /\ phase = "IDLE" /\ token = Nobody
  /\ preparations = << >> /\ preparing = Nobody /\ endTold = {}
  /\ mainThread = "free" /\ posts = << >>
  /\ answers = [c \in Clients |-> << >>]

IsFree == mainThread = "free" /\ phase # "SHUTDOWN"
----------------------------------------------------------------------------
(* The controller: what an event of the engine does to session c.          *)

TellingOf(c, whats) == [i \in DOMAIN whats |-> [to |-> c, what |-> whats[i]]]

\* The events that are told, and the session after them.
EventsOf(c, what) ==
  LET s == controller
      listening == s.who = c /\ s.state # "PROCESSING"
  IN  IF s.who # c THEN << >>
      ELSE IF what = "ready" /\ listening /\ ~s.ready THEN << "ready" >>
      ELSE IF what = "beginning" /\ listening /\ ~s.beginning THEN
             IF s.ready THEN << "beginning" >> ELSE << "ready", "beginning" >>
      ELSE IF what = "processing" /\ ~s.ended THEN << "end" >>
      ELSE IF what = "result" THEN IF s.ended THEN << "results" >> ELSE << "end", "results" >>
      ELSE IF what = "error" THEN << "error" >>
      ELSE << >>

After(what) ==
  CASE what = "ready"      -> [controller EXCEPT !.ready = TRUE, !.state = "LISTENING"]
    [] what = "beginning"  -> [controller EXCEPT !.ready = TRUE, !.beginning = TRUE, !.state = "LISTENING"]
    [] what = "processing" -> [controller EXCEPT !.ended = TRUE, !.state = "PROCESSING"]
    [] OTHER               -> NoClient

Controls(c, what) ==
  /\ posts' = posts \o TellingOf(c, EventsOf(c, what))
  /\ controller' = IF EventsOf(c, what) = << >> THEN controller ELSE After(what)
ControlsNothing == UNCHANGED << posts, controller >>
----------------------------------------------------------------------------
(* The clients, on the main thread.                                        *)

Tell(c, what) == answers' = [answers EXCEPT ![c] = Append(@, what)]

\* onStartListening: the first one is served, in its own name.
StartsListening ==
  /\ IsFree /\ came < MaxRuns /\ activeCallback = Nobody
  /\ came' = came + 1
  /\ IF active # NoRun
     THEN /\ Tell(came', "error") /\ ControlsNothing
          /\ UNCHANGED << activeCallback, attribution, phase, token, preparations >>
     ELSE /\ activeCallback' = came' /\ attribution' = came' /\ UNCHANGED answers
          /\ IF controller.who # Nobody \/ phase # "IDLE"
             THEN /\ posts' = posts \o TellingOf(came', << "error" >>)
                  /\ UNCHANGED << controller, phase, token, preparations >>
             ELSE /\ controller' = [NoClient EXCEPT !.who = came', !.state = "STARTING"]
                  /\ phase' = "PREPARING" /\ token' = came'
                  /\ preparations' = Append(preparations, came')
                  /\ UNCHANGED posts
  /\ UNCHANGED << active, pipeState, currentId, runs, submitted, worker, preparing, endTold,
                  mainThread, clobbered >>

ClientRefused ==
  /\ IsFree /\ came < MaxRuns /\ activeCallback # Nobody
  /\ came' = came + 1 /\ Tell(came', "error")
  /\ UNCHANGED << voiceVars, activeCallback, controller, phase, token, preparations, preparing,
                  endTold, mainThread, posts >>

\* onStopListening: the controller, and then the engine.
StopsListening ==
  /\ IsFree /\ activeCallback # Nobody
  /\ controller.who # Nobody /\ controller.state # "PROCESSING"
  /\ controller' = [controller EXCEPT !.state = "PROCESSING"]
  /\ mainThread' = "stopping"
  /\ UNCHANGED << voiceVars, came, activeCallback, phase, token, preparations, preparing,
                  endTold, posts, answers >>

EngineStops ==
  /\ mainThread = "stopping"
  /\ IF phase = "PREPARING"
     THEN /\ phase' = "IDLE" /\ token' = Nobody /\ attribution' = BaseContext
          /\ mainThread' = "failing" /\ UNCHANGED runs
     ELSE /\ IF phase = "RUNNING" /\ CanStop THEN StopsCapture ELSE UNCHANGED runs
          /\ mainThread' = "free" /\ UNCHANGED << phase, token, attribution >>
  /\ UNCHANGED << active, pipeState, currentId, submitted, worker, came, activeCallback, controller,
                  preparations, preparing, endTold, posts, answers, clobbered >>

\* The engine was stopped before it recorded.
StoppedUntold == \* mutant
  /\ mainThread = "failing" /\ mainThread' = "free" /\ ControlsNothing
  /\ UNCHANGED << voiceVars, came, activeCallback, phase, token, preparations, preparing,
                  endTold, answers >>

StoppedTooEarly ==
  /\ mainThread = "failing" /\ mainThread' = "free"
  /\ Controls(activeCallback, "error")
  /\ UNCHANGED << voiceVars, came, activeCallback, phase, token, preparations, preparing,
                  endTold, answers >>

\* onCancel, or an event that could not be delivered: first the controller
\* forgets the session.
Forgets(then) == controller' = NoClient /\ mainThread' = then

CancelsListening ==
  /\ IsFree /\ activeCallback # Nobody
  /\ IF controller.who # Nobody THEN Forgets("cancelling") /\ UNCHANGED activeCallback
     ELSE activeCallback' = Nobody /\ UNCHANGED << controller, mainThread >>
  /\ UNCHANGED << voiceVars, came, phase, token, preparations, preparing, endTold, posts, answers >>

EngineCancels ==
  /\ mainThread = "cancelling" /\ mainThread' = "free"
  /\ phase' = "IDLE" /\ token' = Nobody
  /\ CancelsRun /\ attribution' = BaseContext
  /\ activeCallback' = Nobody
  /\ UNCHANGED << submitted, worker, came, controller, preparations, preparing, endTold, posts, answers, clobbered >>

\* onDestroy
ServiceDestroyed ==
  /\ IsFree /\ phase' = "SHUTDOWN" /\ token' = Nobody
  /\ controller' = NoClient /\ activeCallback' = Nobody
  /\ CancelsRun /\ attribution' = BaseContext
  /\ UNCHANGED << submitted, worker, came, preparations, preparing, endTold, mainThread, posts, answers, clobbered >>
----------------------------------------------------------------------------
(* The posts: postActive and postTerminal.                                 *)

Posted    == Head(posts)
IsEnd   == Posted.what \in {"results", "error"}
ForOwn  == activeCallback = Posted.to

ClientIsGone ==
  /\ mainThread = "free" /\ posts # << >> /\ ~ForOwn /\ posts' = Tail(posts)
  /\ UNCHANGED << voiceVars, came, activeCallback, controller, phase, token, preparations,
                  preparing, endTold, mainThread, answers >>

ClientHears ==
  /\ mainThread = "free" /\ posts # << >> /\ ForOwn /\ posts' = Tail(posts)
  /\ Tell(Posted.to, Posted.what)
  /\ activeCallback' = IF IsEnd THEN Nobody ELSE activeCallback
  /\ UNCHANGED << voiceVars, came, controller, phase, token, preparations, preparing, endTold,
                  mainThread >>

\* The client is gone.
DeliveryFails ==
  /\ mainThread = "free" /\ posts # << >> /\ ForOwn /\ posts' = Tail(posts)
  /\ activeCallback' = IF IsEnd THEN Nobody ELSE activeCallback
  /\ IF ~IsEnd /\ controller.who # Nobody THEN Forgets("cancelling")
     ELSE UNCHANGED << controller, mainThread >>
  /\ UNCHANGED << voiceVars, came, phase, token, preparations, preparing, endTold, answers >>
----------------------------------------------------------------------------
(* The preparation thread.                                                 *)

PreparationTaken ==
  /\ preparing = Nobody /\ preparations # << >>
  /\ preparing' = Head(preparations) /\ preparations' = Tail(preparations)
  /\ UNCHANGED << voiceVars, came, activeCallback, controller, phase, token, endTold,
                  mainThread, posts, answers >>

IsPrepared(c) == token = c /\ phase = "PREPARING"

\* beginPipeline and pipeline.start
SessionStarts ==
  /\ preparing # Nobody /\ preparing' = Nobody
  /\ IF IsPrepared(preparing)
     THEN /\ StartsRun(preparing, TRUE)
          /\ IF RunRefused
             THEN /\ phase' = "IDLE" /\ token' = Nobody
                  /\ Controls(preparing, "error")
             ELSE phase' = "RUNNING" /\ UNCHANGED token /\ ControlsNothing
     ELSE /\ ControlsNothing
          /\ UNCHANGED << active, pipeState, currentId, runs, submitted, phase, token >>
  /\ UNCHANGED << worker, attribution, came, activeCallback, preparations, endTold, mainThread,
                  answers, clobbered >>

PreparationFails ==
  /\ preparing # Nobody /\ preparing' = Nobody
  /\ IF token = preparing
     THEN /\ phase' = "IDLE" /\ token' = Nobody /\ attribution' = BaseContext
          /\ Controls(preparing, "error")
     ELSE UNCHANGED << phase, token, attribution >> /\ ControlsNothing
  /\ UNCHANGED << active, pipeState, currentId, runs, submitted, worker, came, activeCallback,
                  preparations, endTold, mainThread, answers, clobbered >>
----------------------------------------------------------------------------
(* The worker of the pipeline, and what the engine makes of its events.    *)

SessionMoves == worker.say = "nothing" /\ WorkerRuns /\ UNCHANGED serviceVars

SessionStopsItself == VadStops /\ UNCHANGED serviceVars

\* deliverActive
WorkerTells ==
  /\ worker.say \in {"ready", "beginning", "processing"} /\ ListenerReturns
  /\ endTold' = IF worker.say = "processing" THEN endTold \cup {Mine} ELSE endTold
  /\ IF token = Mine /\ (worker.say = "processing" => Mine \notin endTold)
     THEN Controls(Mine, worker.say) ELSE ControlsNothing
  /\ UNCHANGED << active, pipeState, currentId, runs, submitted, attribution, came, activeCallback,
                  phase, token, preparations, preparing, mainThread, answers, clobbered >>

\* onResult, onError: the first end of the session that is current is told.
WorkerFinishes ==
  /\ worker.say \in {"result", "error"} /\ ListenerReturns
  /\ IF token = Mine
     THEN /\ phase' = "IDLE" /\ token' = Nobody /\ attribution' = BaseContext
          /\ Controls(Mine, worker.say)
          /\ IF worker.say = "error" THEN CancelsRun ELSE UNCHANGED << active, currentId, pipeState, runs >>
     ELSE ControlsNothing /\ UNCHANGED << phase, token, attribution, active, currentId, pipeState, runs >>
  /\ UNCHANGED << submitted, came, activeCallback, preparations, preparing, endTold, mainThread,
                  answers, clobbered >>
----------------------------------------------------------------------------
ServiceStep == EngineStops \/ StoppedTooEarly \/ EngineCancels \/ ClientIsGone \/ ClientHears
PreparationStep == PreparationTaken \/ SessionStarts
WorkerOwnStep == SessionMoves \/ WorkerTells \/ WorkerFinishes \/ SessionStopsItself

RecognitionNext ==
  \/ StartsListening \/ ClientRefused \/ StopsListening \/ CancelsListening \/ ServiceDestroyed
  \/ ServiceStep \/ DeliveryFails
  \/ PreparationStep \/ PreparationFails
  \/ WorkerOwnStep

\* The threads run, the capture ends (the voice detector or the limit sees to
\* that) and a request of the network returns.
RecognitionFairness ==
  WF_recognitionVars(ServiceStep) /\ WF_recognitionVars(PreparationStep) /\ WF_recognitionVars(WorkerOwnStep)

RecognitionSpec == RecognitionInit /\ [][RecognitionNext]_recognitionVars /\ RecognitionFairness

RecognitionTypeOK ==
  /\ VoiceTypeOK /\ came \in 0..MaxRuns /\ activeCallback \in 0..MaxRuns
  /\ controller \in [who : 0..MaxRuns, state : {"IDLE", "STARTING", "LISTENING", "PROCESSING"},
                     ready : BOOLEAN, beginning : BOOLEAN, ended : BOOLEAN]
  /\ phase \in {"IDLE", "PREPARING", "RUNNING", "SHUTDOWN"} /\ token \in 0..MaxRuns
  /\ preparing \in 0..MaxRuns /\ endTold \subseteq Clients
  /\ mainThread \in {"free", "stopping", "failing", "cancelling"}

\* The microphone is used for a client in its own name.
RecordedInOwnName == worker.pc = "capturing" => worker.as = Mine

\* A client is told of its session in order, nothing twice, and nothing after
\* the end.
Rank(what) == CASE what = "ready" -> 1 [] what = "beginning" -> 2 [] what = "end" -> 3 [] OTHER -> 4
ToldInOrder ==
  \A c \in Clients : \A i, j \in DOMAIN answers[c] : i < j => Rank(answers[c][i]) < Rank(answers[c][j])

\* When no client is served, nothing of a session is left that would refuse the
\* next one.
FreeIsFree ==
  IsFree /\ activeCallback = Nobody =>
    /\ controller.who = Nobody /\ phase = "IDLE" /\ active = NoRun /\ attribution = BaseContext

\* A recording that was asked to stop is not active, unless a run that was
\* cancelled has overwritten the state that stop() looks at.
StoppedStops ==
  mainThread = "free" /\ controller.who # Nobody /\ controller.state = "PROCESSING" /\ ~clobbered
    => runs[controller.who].session # "ACTIVE" \/ ~Listens(controller.who)

\* One session of the service does not touch another.
SessionsDoNotMix == RecordedInOwnName /\ ToldInOrder /\ FreeIsFree /\ StoppedStops

\* Every client that is served is told an end or has gone: the service gets free.
ServiceGetsFree == activeCallback # Nobody ~> activeCallback = Nobody
=============================================================================
