--------------------------- MODULE SystemRecognizer ---------------------------
(***************************************************************************)
(* The speech recognizer of the Android system, as the voice pipeline uses *)
(* it. All of it runs on the main thread: calls post to its queue (the     *)
(* looper), and the events of the service come between the posts, in any   *)
(* order, late or never. A token tells the current session; timeouts         *)
(* end a session that the service leaves open.                             *)
(***************************************************************************)
EXTENDS VoicePipeline

NoSession  == [token |-> 0, run |-> NoRun]
Watchdogs  == {"off", "limit", "afterStop", "afterEnd"}

VARIABLES
  looper,      \* the queue of the main thread
  sessionToken,  \* SessionGenerationToken
  session,     \* activeRun: the session that has the recognizer
  awaiting,    \* awaitingTerminalRun = activeRun
  watchdog     \* the timeout that is armed

systemVars == << looper, sessionToken, session, awaiting, watchdog >>

SystemInit ==
  looper = << >> /\ sessionToken = 0 /\ session = NoSession /\ awaiting = FALSE /\ watchdog = "off"

Post(what) == looper' = Append(looper, what)
OnSystem(what, token, run) == [what |-> what, token |-> token, run |-> run]

Destroyed == session' = NoSession /\ awaiting' = FALSE /\ watchdog' = "off"
KeepsSession == UNCHANGED << session, awaiting, watchdog >>
----------------------------------------------------------------------------
(* The calls of the pipeline.                                              *)

SystemStarts(r) ==
  /\ sessionToken' = sessionToken + 1
  /\ Post(OnSystem("start", sessionToken + 1, r))

SystemStops == Post(OnSystem("stop", 0, NoRun))

SystemCancels ==
  /\ sessionToken' = sessionToken + 1
  /\ Post(OnSystem("cancel", sessionToken + 1, NoRun))
----------------------------------------------------------------------------
(* What the callback of the pipeline does with the end of a session.       *)

\* onFinal
PipelineHears(r) ==
  IF RunIsCurrent(r)
  THEN pipeState' = "TRANSCRIBING" /\ Submit(r, "transcribed") /\ UNCHANGED << active, runs >>
  ELSE UNCHANGED << pipeState, submitted, active, runs >>

\* onError: the recorder of the application takes over, once, if the service
\* may not use the microphone; or the run ends.
FallsBack(r) ==
  /\ RunIsCurrent(r) /\ ~runs[r].fellBack
  /\ runs' = [runs EXCEPT ![r].fellBack = TRUE, ![r].session = "ACTIVE"]
  /\ pipeState' = "RECORDING" /\ Submit(r, "capture")
  /\ UNCHANGED active

PipelineFails(r) ==
  /\ IF RunIsCurrent(r) THEN active' = NoRun /\ pipeState' = "IDLE" ELSE UNCHANGED << active, pipeState >>
  /\ UNCHANGED << submitted, runs >>

KeepsWorker == UNCHANGED << currentId, worker, attribution, clobbered >>
----------------------------------------------------------------------------
(* The posts: the recognizer of the last session is destroyed first.       *)

SessionBegins(post) ==
  /\ UNCHANGED sessionToken
  /\ IF post.token = sessionToken
     THEN session' = [token |-> post.token, run |-> post.run] /\ awaiting' = FALSE /\ watchdog' = "limit"
     ELSE KeepsSession

\* No recognizer, or it cannot be made: failStart.
SessionBeginFails(post) ==
  /\ post.token = sessionToken
  /\ sessionToken' = sessionToken + 1 /\ Destroyed

IsLive == session # NoSession /\ session.token = sessionToken

\* stopOnMain; stopListening() itself may fail: see SessionEnds.
StopsOnMain ==
  /\ UNCHANGED << sessionToken, session >>
  /\ IF IsLive THEN awaiting' = TRUE /\ watchdog' = "afterStop"
               ELSE watchdog' = "off" /\ UNCHANGED awaiting

CancelsOnMain(post) ==
  /\ UNCHANGED sessionToken
  /\ IF post.token = sessionToken THEN Destroyed ELSE KeepsSession
----------------------------------------------------------------------------
(* The events of the service and the timeouts.                             *)

\* finishCurrent: exactly one of them ends the session.
SessionEnds == IsLive /\ sessionToken' = sessionToken + 1 /\ Destroyed

EndOfSpeech ==
  /\ IsLive /\ ~awaiting
  /\ awaiting' = TRUE /\ watchdog' = "afterEnd"
  /\ UNCHANGED << looper, sessionToken, session, voiceVars >>

\* onResults with a text
Recognized ==
  /\ SessionEnds /\ PipelineHears(session.run)
  /\ KeepsWorker /\ UNCHANGED looper

\* The timeout of the recording asks the service to stop.
LimitReached ==
  /\ watchdog = "limit" /\ IsLive
  /\ awaiting' = TRUE /\ watchdog' = "afterStop"
  /\ UNCHANGED << looper, sessionToken, session, voiceVars >>

SystemTypeOK ==
  /\ sessionToken \in Nat
  /\ session \in [token : Nat, run : RunIds \cup {NoRun}]
  /\ awaiting \in BOOLEAN /\ watchdog \in Watchdogs
=============================================================================
