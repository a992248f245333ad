---------------------------- MODULE NativeMonitor ----------------------------
(***************************************************************************)
(* The thread behind the native hotkeys (src-tauri/src/native_hotkey.rs):  *)
(* its owner starts it and waits three seconds for a word from it, drops   *)
(* it, or gives up on it; the thread installs an event tap (macOS) or a    *)
(* keyboard hook (Windows) and runs a loop until it is told to end.        *)
(* Telling it, and its looking whether it was told, are separate steps.      *)
(***************************************************************************)
EXTENDS Naturals

VARIABLES
  platform,     \* "mac" or "windows"
  owner,        \* pc of PlatformNativeMonitor::start() and drop()
  thread,       \* pc of run_event_tap_loop() or run_keyboard_hook_loop()
  channel,      \* the startup message
  cancelled,    \* the flag both look at
  reachable,    \* the thread id, or the tap and run loop, are stored
  posted,       \* WM_QUIT is in the queue, or the run loop is stopped
  listening,    \* the hook is installed, or the tap enabled
  notice,       \* macOS: the system has disabled the tap and says so
  missed        \* history: macOS: the run loop was stopped just before it ran

monVars == <<platform, owner, thread, channel, cancelled, reachable, posted,
             listening, notice, missed>>

OwnerPc  == {"idle", "waiting", "cancelling", "telling", "stopping",
             "joining", "running", "done"}
ThreadPc == {"none", "begin", "first", "install", "second", "enable", "send",
             "third", "last", "run", "loop", "cleanup", "over"}

MonInit ==
  /\ platform \in {"mac", "windows"}
  /\ owner = "idle" /\ thread = "none" /\ channel = "empty"
  /\ cancelled = FALSE /\ reachable = FALSE /\ posted = FALSE
  /\ listening = FALSE /\ notice = FALSE /\ missed = FALSE

Mac     == platform = "mac"
Windows == platform = "windows"

-----------------------------------------------------------------------------
(* The owner *)

OwnerStarts ==
  /\ owner = "idle"
  /\ owner' = "waiting" /\ thread' = "begin"
  /\ UNCHANGED <<platform, channel, cancelled, reachable, posted, listening, notice, missed>>

\* recv_timeout: a message, or three seconds without one.
OwnerHears ==
  /\ owner = "waiting"
  /\ \/ channel = "ok" /\ owner' = "running"
     \/ channel # "ok" /\ owner' = "cancelling"
  /\ UNCHANGED <<platform, thread, channel, cancelled, reachable, posted, listening, notice, missed>>

\* drop(): on Windows WM_QUIT is posted at once, the flag is not used.
OwnerDrops ==
  /\ owner = "running"
  /\ IF Mac THEN owner' = "cancelling" /\ UNCHANGED posted
            ELSE owner' = "joining" /\ posted' = TRUE
  /\ UNCHANGED <<platform, thread, channel, cancelled, reachable, listening, notice, missed>>

CancelForgets ==                                                      \* mutant
  /\ owner = "cancelling"
  /\ owner' = "telling"
  /\ UNCHANGED <<platform, thread, channel, cancelled, reachable, posted, listening, notice, missed>>

\* shutdown() and cancel() first set the flag,
Cancels ==
  /\ owner = "cancelling"
  /\ cancelled' = TRUE
  /\ owner' = "telling"
  /\ UNCHANGED <<platform, thread, channel, reachable, posted, listening, notice, missed>>

\* and then tell the thread, if it can be reached yet: Windows posts WM_QUIT,
\* macOS disables the tap
Tells ==
  /\ owner = "telling"
  /\ owner' = IF Mac THEN "stopping" ELSE "joining"
  /\ posted' = (posted \/ (Windows /\ reachable))
  /\ listening' = (listening /\ ~(Mac /\ reachable))
  /\ UNCHANGED <<platform, thread, channel, cancelled, reachable, notice, missed>>

\* and then stops the run loop, which a loop that does not run yet ignores.
Stops ==
  /\ owner = "stopping"
  /\ owner' = "done"
  /\ posted' = (posted \/ (reachable /\ thread = "loop"))
  /\ missed' = (reachable /\ thread = "run")
  /\ UNCHANGED <<platform, thread, channel, cancelled, reachable, listening, notice>>

\* Only Windows joins the thread.
Joins ==
  /\ owner = "joining" /\ thread = "over"
  /\ owner' = "done"
  /\ UNCHANGED <<platform, thread, channel, cancelled, reachable, posted, listening, notice, missed>>

OwnerStep == OwnerHears \/ Cancels \/ Tells \/ Stops \/ Joins
-----------------------------------------------------------------------------
(* The thread *)

ThreadGoes(from, to) == thread = from /\ thread' = to

ownerSide == <<platform, owner, cancelled, posted, missed>>

\* Windows: the message queue exists and the thread id is stored before
\* anything else; macOS stores the tap it created, or could not create.
ThreadIsReachable ==
  /\ \/ Windows /\ ThreadGoes("begin", "first") /\ UNCHANGED channel
     \/ Mac /\ ThreadGoes("begin", "second") /\ UNCHANGED channel
     \/ Mac /\ ThreadGoes("begin", "over") /\ channel' = "err"
  /\ reachable' = (thread' # "over")
  /\ UNCHANGED <<ownerSide, listening, notice>>

\* is_cancelled() before and after the hook is installed, before the tap is
\* enabled, and after the word to the owner.
Looks(from, to) ==
  /\ IF cancelled
     THEN /\ ThreadGoes(from, IF from = "first" THEN "over" ELSE "cleanup")
          /\ channel' = IF from = "first" THEN "err" ELSE channel
     ELSE ThreadGoes(from, to) /\ UNCHANGED channel
  /\ UNCHANGED <<ownerSide, reachable, listening, notice>>

ThreadLooks ==
  \/ Looks("first", "install")
  \/ Windows /\ Looks("second", "send")
  \/ Mac /\ Looks("second", "enable")
  \/ Windows /\ Looks("third", "loop")

ThreadInstalls ==
  /\ \/ ThreadGoes("install", "second") /\ listening' = TRUE /\ UNCHANGED channel
     \/ ThreadGoes("install", "over") /\ channel' = "err" /\ UNCHANGED listening
  /\ UNCHANGED <<ownerSide, reachable, notice>>

ThreadEnables ==
  /\ ThreadGoes("enable", "send")
  /\ listening' = TRUE
  /\ UNCHANGED <<ownerSide, channel, reachable, notice>>

\* On macOS the receiver is gone once the owner has given up.
ThreadSends ==
  /\ ThreadGoes("send", "third")
  /\ channel' = IF Mac /\ owner = "done" THEN "lost" ELSE "ok"
  /\ UNCHANGED <<ownerSide, reachable, listening, notice>>

\* macOS: shutdown() of its own, if nobody listens or it is cancelled; then it
\* looks once more, and enters the run loop.
MacShutsItself ==
  /\ Mac /\ ThreadGoes("third", "last")
  /\ IF channel = "lost" \/ cancelled
     THEN cancelled' = TRUE /\ listening' = FALSE
     ELSE UNCHANGED <<cancelled, listening>>
  /\ UNCHANGED <<platform, owner, channel, reachable, posted, notice, missed>>

MacLooks ==
  /\ Mac /\ ThreadGoes("last", IF cancelled THEN "cleanup" ELSE "run")
  /\ UNCHANGED <<ownerSide, channel, reachable, listening, notice>>

MacRuns ==
  /\ ThreadGoes("run", "loop")
  /\ UNCHANGED <<ownerSide, channel, reachable, listening, notice>>

ThreadQuits ==
  /\ posted /\ ThreadGoes("loop", "cleanup")
  /\ UNCHANGED <<ownerSide, channel, reachable, listening, notice>>

\* cleanup_context(), or what follows CFRunLoopRun(); a startup that was
\* cancelled says so afterwards.
ThreadCleansUp ==
  /\ ThreadGoes("cleanup", "over")
  /\ channel' = IF channel = "empty" THEN "err" ELSE channel
  /\ listening' = FALSE /\ notice' = FALSE
  /\ reachable' = (reachable /\ Windows)
  /\ UNCHANGED ownerSide

\* The system may disable a tap; the callback, which only the run loop calls,
\* enables it again.
SystemDisables ==
  /\ Mac /\ listening
  /\ listening' = FALSE /\ notice' = TRUE
  /\ UNCHANGED <<ownerSide, thread, channel, reachable>>

CallbackEnables ==
  /\ thread = "loop" /\ notice
  /\ listening' = TRUE /\ notice' = FALSE
  /\ UNCHANGED <<ownerSide, thread, channel, reachable>>

ThreadStep == \/ ThreadIsReachable \/ ThreadLooks \/ ThreadInstalls
              \/ ThreadEnables \/ ThreadSends \/ MacShutsItself \/ MacLooks
              \/ MacRuns \/ ThreadQuits \/ ThreadCleansUp

MonNext == OwnerStarts \/ OwnerDrops \/ OwnerStep \/ ThreadStep
           \/ SystemDisables \/ CallbackEnables

MonSpec == MonInit /\ [][MonNext]_monVars
           /\ WF_monVars(OwnerStep) /\ WF_monVars(ThreadStep)
-----------------------------------------------------------------------------
(* Properties *)

MonTypeOK ==
  /\ platform \in {"mac", "windows"}
  /\ owner \in OwnerPc /\ thread \in ThreadPc
  /\ channel \in {"empty", "ok", "err", "lost"}
  /\ {cancelled, reachable, posted, listening, notice, missed} \subseteq BOOLEAN

\* A monitor that is dropped or given up goes, whatever step its thread is at:
\* the owner's call returns, and from some time on the thread is over and no key
\* is listened to -- unless, on macOS, the run loop was stopped after the thread
\* had looked at the flag for the last time and before the loop ran.
DroppedIsGone ==
  owner \in OwnerPc \ {"idle", "waiting", "running"}
     ~> [](owner = "done" /\ (missed \/ (thread = "over" /\ ~listening)))
=============================================================================
