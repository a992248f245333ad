# OpenTypeless in TLA+

TLA+ specifications of OpenTypeless (a voice-dictation app: a Tauri/Rust desktop
program and a native Android app), the TLC configurations that check them, and
machine-checked proofs. All paths are relative to `src/`; `pipeline.rs` means
`src-tauri/src/pipeline.rs`, and so on.

`PROJECT.json` is the machine-readable index: components, runs, the source lines
behind every definition (`map`), the mutant that breaks each property, the hazards
found in the code, the findings and the proved theorems.

To run something:

    tlc -workers 2 -config MCPipeline.cfg MCPipeline
    tlapm PipelineProofs.tla

## 1. The system

### Components and what they keep

| Component | Source | State it keeps | Operations |
|---|---|---|---|
| Dictation pipeline | `pipeline.rs` | one `PipelineHandle`: atomic `state`, `abort_flag`, two session ids, stored capture handle, accumulated text, STT control and error, preloaded configuration, start instant, active translation operation | `start`, `stop`, `abort`, `switch_active_translation_target`, `run_ask_draft`; per recording an STT task, a deadline task, a streaming-insert worker |
| Recording deadline | `recording_deadline.rs` | none of its own; asks whether its session is still the active one | warn, reach the limit |
| Audio capture | `audio/` | a thread and a bounded channel per capture | start, become ready, stop, drop |
| STT and LLM providers | `stt/`, `llm/` | a connection | connect, send, receive, disconnect; complete, stream |
| Output and clipboard | `output/` | the pending clipboard restore (one, with the id of its latest paste) | paste, type, copy, restore after a delay |
| Ask dictation | `commands/ask.rs` | `starting`, `stop_after_start`, `session`, `processing`, `pending_message` under one mutex | reserve, start, stop, abort, STT task, deadline task |
| Voice intent and placement | `voice_intent/` | none | route a command, decide where its result goes |
| Hotkeys | `hotkey.rs`, `native_hotkey.rs` | supervisor generations and registration status, mode cache | register with retries, dispatch press and release |
| Context detector | `app_detector/` | a cached window description with an age | refresh, snapshot |
| Storage | `storage/`, `credentials.rs` | SQLite tables, configuration file, key vault | save, prune, export, import, migrate |
| Backup, dictionary import | `commands/backup.rs`, `dictionary_io.rs` | none | preview, merge or replace |
| Translation settings | `commands/translation.rs` | configuration | switch and persist, with roll-back |
| Tray, windows, commands | `lib.rs`, `tray.rs`, `commands/` | window handles | call the above |
| Desktop frontend | `src/` | React stores | show events, invoke commands |
| Android recognition service | `recognition/` | controller: `generation`, `active`, `state`, `cancelling`; engine: preparation tokens, pipeline | start, stop, cancel, shutdown, engine callbacks |
| Android voice pipeline, IME | `ime/` | `generation`, `active`, `state`, the run | capture, transcribe, polish, commit, cancel |
| Android audio, offline models, settings, data, security | `audio/`, `offline/`, `settings/`, `data/`, `security/` | files, preferences, encrypted keys | record, download and verify, save transactions |
| Build scripts, benchmarks, website assets | `src-tauri/build.rs`, `.github/`, docs | - | - |

### How they interact

* The callers of the desktop pipeline are the hotkey dispatcher (`hotkey.rs:844-880`),
  the tray and the command line (`lib.rs:443-456, 706-725, 926-941`), the commands of the
  windows and the deadline task of each recording. They share one handle. `start()` and
  `stop()` set up under `pipeline_lock`; `abort()` deliberately takes no lock.
* The STT task of a recording is told to stop by closing its audio channel, by
  `control.abort`, or by noticing that it is no longer the active session; it tells
  `stop()` that it is over with `control.done`. Both are `Notify` objects with one permit.
* Ask has its own session state and its own capture. Its draft intents run in the
  pipeline (`run_ask_draft`), and the hotkeys consult `is_busy()` of Ask before they call
  the pipeline.
* A text that the model has written goes through the router and the executor of voice
  intents to one of the outputs, or is streamed to the application while it is written. An
  output may leave a thread behind that gives the clipboard back later.
* The settings are one cached value. Every command loads it, changes it and saves it; each
  load and save also moves keys that are still plain text to the vault of the system.
* The registration of shortcuts is driven by settings commands and by a loop that retries
  every three seconds; a generation tells an attempt that it was overtaken.
* The context detector looks at the front application on a thread of its own; a recording
  takes a snapshot of what it saw last.
* On Android the recognition service drives the engine, and the engine the voice
  pipeline, through callbacks that carry the id of their session.

### What is hard

Every component above is a handful of shared cells with several threads of control
around them, and the code protects them with *generations*: an id is taken, handed to
tasks, and compared when they come back. What goes wrong is nearly always one of: a check
separated by an `await` from the write it guards; one flag shared by several
generations; a late answer of an earlier session; an exit path that forgets to go back to
idle; a wait for a note that was never sent or already sent. `PROJECT.json` lists each
such place as a hazard at its line. There is no crash recovery in the dictation path
(nothing is persisted before the end) and no message network; the settings, their keys and
the data base are the parts that a stop of the program may cut in two.

### What makes each component correct

* Pipeline: sessions do not mix (text, errors, configuration, duration, translation
  target); a recording can always be ended; the state never stays busy with nobody to bring
  it back; the microphone is never left on; a cancelled dictation is not output; every
  `stop()` returns.
* Ask: one session at a time; a reservation is released exactly once by its own start; a
  stop never answers with another session's transcript; the microphone is never left on;
  and a press during the start is a stop after it.
* Pipeline and Ask together: at most one of them records and they do not overwrite each
  other's state.
* Output: the clipboard ends with what the user had, or with text that was copied on
  purpose; what is reported is what happened.
* Hotkeys: the installed binding is the latest one asked for; in hold mode a release ends
  the recording its press began.
* Settings: what was saved is in force, now and after the next start, and no key is lost on
  its way to the vault.
* Storage: a restore is all or nothing, no text is there twice, retention deletes only what it
  should, and an export can be read back.
* STT session: what is heard is what was said, once and in order.
* Context detector: neither a saved mapping nor the context of a recording is that of another
  application.
* Android recognition: at most one terminal callback per session, none after it, none for
  a session that is over; a new session can always begin once the last is over.
* Android pipeline and keyboard: what was spoken is inserted where it was spoken for or
  nowhere, a run that was cancelled is not committed, and nothing listens once it should not.

## 2. Modules

| Module | Models | State and actions |
|---|---|---|
| `Dictation` | nothing of the code: what the app promises of its dictations | the stage of each, which one listens, which are called off, due, delivered |
| `Pipeline` | `pipeline.rs`: `start_with_options`, `stop`, `abort`, `switch_active_translation_target`, the STT task and the deadline task of every recording; `recording_deadline.rs`; capture and providers as seen from there | the fields of `PipelineHandle`; program counters of `start`, of every `stop`, of `abort` and of the switch; one action per stretch between two awaits, or between two accesses to a shared cell that another thread may interleave |
| `PipelineRefinement` | - | the mapping under which `Pipeline` implements `Dictation` |
| `AskDictation` | `commands/ask.rs`: reserve, start, stop, abort, STT and deadline task; the Ask part of `hotkey.rs` | `AskDictationStateInner`, per attempt what its session holds; one action per critical section of the mutex |
| `Shortcuts` | `hotkey.rs`: the handler of a press and a release, the tasks it spawns; tray and command line; `run_ask_draft` of `pipeline.rs` | keys, the list of spawned tasks, the states of pipeline and Ask that the handlers look at, the lock; one action per look and per step of a task |
| `HotkeyRegistration` | `hotkey.rs`, `commands/misc.rs`, `commands/config.rs`, `lib.rs`: plan, registration, supervisor, retry loop, settings commands with their roll-back, the status the settings show | saved and cached configuration, what the system and the monitor hold, generation and attempts, the command and the retry in progress; one action per call that can fail or be overtaken |
| `NativeKeys` | `native_hotkey.rs`: recognising the base key and its combinations in raw key events | the flags of the recogniser, the keys that are down, what was told |
| `NativeMonitor` | `native_hotkey.rs`: the thread with the event tap or the hook, and its owner | program counters of both, the stop flag and the run loop |
| `Clipboard`, `TextOutput` | `output/`, `selection.rs`, `output_text` of `pipeline.rs`: type, SendInput, paste, copy, the fallbacks between them, the restore threads, the capture of the selection | clipboard, pending restore and its batch, the call in progress, what the application has got; one action per access to the clipboard |
| `VoiceRoute` | `voice_intent/`: guards, normalisation and grammars | none: operators over sequences of classes of words |
| `Placement` | `route_ask_intent`, `polish_text` with the streaming worker and its recovery, `execute_voice_intent` and its backends | one operation: its intent, the streamed part, focus and selection, the effects |
| `AppConfig` | `AppConfig` of `storage/mod.rs`, `commands/config.rs`, `appStore.ts`: mirrors, loading, normalising, editing | none: operators over a configuration |
| `Settings` | `ConfigManager`, `credentials.rs`, the commands | disk, cache, vault and plain keys, two commands; one action per write that can fail or be cut off |
| `SttSession` | `stt/`: the loop of the STT task over each kind of provider | audio sent, messages on their way, what was heard; connection, retries, drain |
| `ContextDetector` | `app_detector/`, `commands/app_mappings.rs` | the front application, cache, snapshots and candidates with their generation, mappings and their file |
| `Library` | `storage/mod.rs` (history, dictionary, rules), `commands/backup.rs`, `dictionary_io.rs` | three tables, two connections, the operations in progress |
| `VoicePipeline` | `ime/VoicePipeline.java`, `audio/AudioRecorder.java` | generation, active flag, state, the run's worker, recorder session |
| `SystemRecognizer` | `ime/SystemRecognizer.java` and its watchdogs | current token, recognisers that exist, the looper of the main thread |
| `VoiceKeyboard` | `ime/OpenTypelessImeService.java` with `VoicePipeline` and `SystemRecognizer` | targets, composing text, hold of the key, the editor, which is another process |
| `RecognitionService` | `recognition/` with `VoicePipeline` | controller, engine with its preparation, posts to the main thread |
| `Input`, `Parts` | - | the compositions of the runs `input` and `parts` |
| `MCPipeline`, `MCAskDictation`, `MCInput`, `MCParts`, `MCSettings` | - | instances for TLC |
| `PipelineProofs`, `AskProofs`, `HotkeyProofs`, `StorageProofs`, `RecognitionProofs`, `KeyboardProofs`, `PartsProofs` | - | theorems |
| `FoldLemmas` | - | lemmas: induction over numbers, and what a fold over a sequence does |

`map` in `PROJECT.json` gives the source lines of every definition. A definition marked
`\* mutant` is a plausible bug of the definition next to it. It belongs to no
specification; replacing the real definition by it must break the property it is listed
with.

**Composition.** Components that share state are composed: `TextOutput` extends `Clipboard`,
`Placement` extends `VoiceRoute`, `Settings` extends `AppConfig`, `VoiceKeyboard` drives a
`VoicePipeline` and a `SystemRecognizer`, `RecognitionService` a `VoicePipeline`; `Shortcuts`
puts the pipeline, Ask and the draft of Ask together, each with the states the others look at.
`Input` and `Parts` hold several parts that share nothing: the variable `part` chooses one
at the start and the others stay as they began (in `MCParts` a VIEW shows TLC the part that
runs, whose variables are all that its actions and properties read). Section 5 has the theorems
that what is proved of a part holds in the composition.

### Pipeline

A *take* is one `start()` that won the Idle -> Preparing exchange, with everything it
spawns: capture thread, STT task, deadline task and the `stop()` that ended its
recording. Cells of the handle hold the number of the take whose thing is in them, so
that properties can tell whose text, error, configuration, control or start instant is
used. What is in the cell beyond that (the text itself, the samples, the configuration)
does not matter to the control and is left out.

* `Start*` are the steps of `start()` under `pipeline_lock`: the reset of `abort_flag`
  comes before the exchange, as in the code, so that a `start()` that loses the exchange
  resets it too.
* `Task*` is the STT task. The look of `should_finalize_stt_task` (two loads) is one step and the
  write it guards another (`TaskAppends`, `TaskLatches`), since `abort()` and the next `start()` run on
  other threads and take no lock that the task holds.
* `Stop*` is `stop()`: the exchange, the capture of the selected text, the
  take-over of the shared state (end of the lock), `wait_for_stt`, the language model with
  the streaming worker, the output, the history and the final `set_state(Idle)`. The worker looks at
  the flag (`StreamChunk`) and then types (`StreamTyped`), which is awaited; what is missing of a
  text that was typed in part is output without another look (`StopCompletes`).
* `Abort*` are the five effects of `abort()` in their order. It takes no lock, so anything
  happens between them.
* `SwitchCheck` and `SwitchTarget` are the two halves of the translation switch: the state
  is read first, the operation is locked later.
* `Deadline*` is the deadline task, which wakes, looks whether its session is still active,
  and then calls `stop()` like any other caller.

Ghost variables (`charged`, `cancelled`, `timedOut`, `overtaken`, `failed`, `acked`, `raced`) record what
happened, for the properties only; no guard reads them.

**Raced behaviours.** The code has two windows in which `abort()` and `start()` defeat each
other: `abort()` begins after `start()` has looked at the flag for the last time (a few
instructions before the recording is published), and `start()` resets the flag while a
cancelled `stop()`, or `abort()` itself, still relies on it. In both, most of what the
pipeline promises is lost; the runs `abort_forgotten` and the hazards say how. `raced`
becomes true at such a step. `OrderlySpec` describes the behaviours in which it does not,
and the run `pipeline_orderly` shows that within them everything else holds. The theorems
`StopsOwnSetups`, `ErrorsAreOwn` and `AckedTargetsAreUsed` need no such restriction.

**The promise.** `Dictation` says what a user may rely on, without fields, locks and sessions:
dictations come one at a time, each is begun, stopped and over in that order, one of them
listens, and a text is delivered between the stop and the end of its own dictation and not
once it was called off before the last check. `PipelineRefinement` maps a take to a dictation
and the run `pipeline_orderly` shows the refinement. A stop that is called off between its last
look at `abort_flag` and the output does deliver, in the code too: `Decides` is that look. So does a text of
which the streaming worker has begun to type something: after its look at the flag for the first chunk, a
call-off stops neither that chunk nor the rest.

Abstractions, each of which loses something:

* one `abort()` and one translation switch at a time;
* a `stop()` that loses the exchange has no effect (it has none in the code either);
* the two loads of `should_finalize_stt_task`, `set_state` and
  the forgetting of the translation operation, and the checks at the end of
  `wait_for_stt` are one step each;
* the notes of `control.abort` for a task that is over are dropped;
* history is enabled; the operation id, the volume task and the selected text are left out;
  of streaming there is one chunk, which stands for all, and the rest (`Placement` has its recovery);
* `run_ask_draft` is in `Shortcuts`, where the pipeline is reduced to its state.

### AskDictation and Shortcuts

An *attempt* is one start that won `try_begin_starting()`. One mutex guards the state, so
one critical section is one action, and the awaits lie between them. The start of a window
or the command line and the start of the hotkey differ in one thing: only the latter looks
at `stop_after_start` when it is done. A press of the hotkey locks the state once for each
of the three questions it asks and then acts, so it has up to four steps. An operation that
stops a capture right after it has left the mutex does so in the same step, except a stop,
which other threads can watch between the two. A stop waits for the task or for twelve
seconds; as the second is possible in every state the wait is one action. The text of the
question, its route and the pop-up message are left out: the answer is a step that may take
any time. `Placement` has the route.

In `Shortcuts` the handler of a key reads the state of the pipeline and `is_busy()` of Ask,
and spawns a task. Tasks are a sequence and run in any order; a start looks at Ask again
before it waits for the lock, and the lock admits one at a time. The variable `reasons` is a
history: it says which of the ways was taken for which the properties make an exception.

### HotkeyRegistration, NativeKeys, NativeMonitor

A configuration gives the bindings of six roles. Registration is one attempt of several calls
to the system of which each may fail, under a generation; a settings command installs the
new plan, saves, and goes back if one of them fails, and the retry loop interleaves with every
step of it. One settings command runs at a time (they come from one window). Disk and cache are two
variables: `ConfigManager.save` fills the cache before it writes the file, so after a failed write
`cached` has what was refused, every later load answers with it, and `strayed` remembers this for the
properties. The monitor of the native keys is told to end by a flag and by stopping its run loop, and
its thread looks at the flag before and after it installs its tap, and, on macOS, once more before it enters the
loop (`MacLooks`, `MacRuns`): all are separate steps, and a stop of a loop that does not run yet is lost. Keys are abstracted to
the bits that the recogniser reads; the two shift keys have a bit in common, a held key
repeats, and a monitor may be replaced while keys are down.

### Output, routing and placement

A text is a few *units* that are put out one by one; the application takes them when it
likes. A unit is several key events: keystrokes may fail between two units or within one, when its
start has arrived and is not counted (`torn`). The restore thread of a paste looks whether it is still the latest, reads the
clipboard, and writes it: three steps, with a copy of the user possible between them.
An utterance is a sequence of words of which the model keeps what the grammars and guards tell
apart: the class of the word and its script. `Placement` follows one operation from the routing
to the history entry while the user moves focus and selection and may abort.

### Settings and Library

A setting is kept with its legacy mirrors; `AppConfig` has what loading, normalising, and each
command make of them, and leaves out settings that are copied as they are. In `Settings` a
command is load, migrate, change, save, with the vault and the disk failing at each write
and the program stopping between any two. In `Library` a text stands for its class
(another one that differs in case, one that begins with `=`, one that is not valid), and an
operation on a connection is one transaction, which may be cut off. An entry of the history is inserted
in one transaction and pruned in others, by age and by number, each of which may fail or be cut off.

### SttSession and ContextDetector

Chunk *n* of the audio holds segment *n* of what is said. The kinds of providers differ in what
a message holds (one segment, all so far, a segment with an id that may come again, everything
in the answer to one request) and in how their session ends. The detector is its thread, which
takes time between the look and the store, and the commands that read the cache.

### Android

Calls that the code makes on the main thread, or under one lock, are one step. The worker of
`VoicePipeline` has one step per stretch between two accesses to what is shared; the listener
it calls is completed by the module that uses it (`worker.say`). Posts to the main thread are
a sequence, and events of the speech service come between them in any order, late or
never. The editor moves its cursor before the keyboard is told. Undo, restoring the raw
text, teaching words and the preview of the offline recogniser are left out.

## 3. What the runs show

| Run | Specification | Bounds | Result |
|---|---|---|---|
| `pipeline_orderly` | `FollowedSpec` | 2 takes, 1 abort | passes, about 2.1 million states |
| `pipeline_liveness` | `OrderlyFairSpec` | 1 take, 2 aborts, 2 targets | passes, about 145 000 states |
| `abort_leaves_capture` | `Spec` | 1 take, 1 abort | violated, as the finding says |
| `abort_forgotten` | `Spec` | 2 takes, 1 abort | violated, as the finding says |
| `late_transcript` | `Spec` | 2 takes, no abort | violated, as the finding says |
| `ask_safety` | `Spec` | 2 attempts, hotkey used | passes, about 1.4 million states |
| `ask_liveness` | `FairSpec` | 2 attempts, no hotkey | passes, about 40 000 states |
| `ask_abort_undone` | `Spec` | 2 attempts | violated, as the finding says |
| `ask_press_lost` | `Spec` | 1 attempt, hotkey used | violated, as the finding says |
| `input` | `InputSpec` | 3 commands, 3 tasks and 1 question, 1 upset of the keys, 2 runs | passes, about 1.2 million states |
| `parts` | `PartsSpec` | see below | passes, about 2.9 million states |
| `settings_leftover` | `SettingsSpec` | 1 set of stored settings | violated, as the finding says |

**Bounds of the pipeline and Ask.** Everything in the pipeline that survives a take is one cell,
and `start()` of the next take overwrites it, so mixing needs two takes: the one that left something
and the one that finds it. One `abort()` may fall anywhere in either of them. A second one matters when the
first is in the middle of its steps when a take ends, and is followed with one take; with more takes
the theorems cover it. `FollowedSpec` is `OrderlySpec` with two more bounds (`TakesFollowed`): the first text of an STT task
stands for the later ones of the same dictation, and a text is streamed in the first take only. Translation is left out of the large run (`Targets = {}`) since
it touches no other cell; the small one has two targets, so that a switch changes
something. In Ask an attempt only meets the flag, the session or the `processing` of
another one; the theorems lift the bound for the properties of `ask_safety`.

**Bounds of `input`.** Three settings commands: one that fails, one that pauses, one that
resumes, with retries (limit 3, as in the code) between them; four configurations, two of
which the plan refuses. Three tasks of shortcuts are the press and the release of a hold and one
more press; the theorems of `HotkeyProofs` lift this bound. One upset
(a missed event or a replaced monitor) is what the recogniser is written for. Two runs of the
recognition service, of two clients, with at most three posts waiting (`PostsFollowed`): a
session meets only the one before it.

**Bounds of `parts`.** Two outputs of two units, one copy of the user and one capture of the
selection (an output can be in part, and its restore can meet the next one; captures, and a unit that
arrives in part, come with one output, `TextFollowed`); every pair of words of one language, some mixed pairs, and longer
utterances where a guard or a grammar needs them; two moves of focus or selection; stored
settings of older and newer versions, two commands, one stop and one key (keys are followed with
commands that overlap, edits with commands that follow each other, and of the two commands, which are alike, the first is the one that
begins alone, `SettingsFollowed`); three
chunks of audio in blocks of two, with two in the buffer and two messages on their way; two
snapshots, two mappings and one change of focus (`DetectorFollowed`); three operations on two
days, with backups and files that have twins, invalid texts and missing tables, one restart; two
dictations of the keyboard, of which the first may be held and meet a change of the editor, with two
posts waiting (`KeyboardFollowed`). A clipboard that has met one of the things the code does not
promise to survive (`excused`) and a keyboard whose state was overwritten by a cancelled run
(`clobbered`) are not followed further.

`CHECK_DEADLOCK FALSE`, where it is set: when the takes, calls or operations are used up the
system stops.

**Properties of the pipeline.** `StopOwnsSetup`, `ErrorIsOwn`, `TranscriptIsOwnUnlessLate`,
`DurationIsOwn` and `FailedIsNotHeard` say that sessions do not mix.
`TranscriptIsOwnUnlessLate` and `FailedIsNotHeard` name their exceptions: a task that outlives the finalize
timeout (`late_transcript` exhibits it), and one that `abort()` or a `start()` overtakes between
its look and its write (`overtaken`).
`NothingOrphaned` says that no interleaving leaves a recording, the state or the microphone to
nobody. `KeepsThePromise` is the refinement; in it a cancelled dictation may still reach the
application only if its `stop()` had looked at the flag for the last time, or its streaming worker had begun.
`AckedTargetIsUsed` is about the switch that races `stop()`. `EndsInTheEnd` (every `stop()` returns,
the state comes back to Idle, captures end) is the liveness. `NothingStuck` is what it rests on:
whoever is inside `start()`, `stop()`, `abort()` or a deadline task has a step to take, whatever the
others do. A wait that nothing ends would break it, and without it weak fairness says nothing.

**Properties of Ask.** `OneStage`: starting, recording and processing exclude each other.
`AbortedLatestStaysSilent` and `LostOnlyAfterAbort` are what remains true although the
reservation has no owner: without an abort no start is robbed of it, and an aborted start
comes back only through the reservation of a later one. `AbortedStaysSilent` is what the
code does not guarantee (`ask_abort_undone`). `FailureIsNotSilent` is the rule of the
reliability document that a failure is never silent. `EndsInTheEnd` and `NothingStuck` are as in
the pipeline: stops return, Ask becomes free, captures end.

**Properties of the input.** `InstalledIsSaved`: when the supervisor reports the shortcuts
installed, system and monitor hold exactly what is saved, whatever failed before; a retry that
overlaps `resume_hotkey` is the exception, since that takes no new generation. After a save that failed once
the cache was filled (`strayed`), some configuration is in force as a whole, but it may be neither the saved
one nor the one shown.
`PausedRegistersNothing` and `RegistrationSettles` are about the retry loop. `HoldsAreKept`: a
native key that was told pressed is told released, and is one binding. `DroppedIsGone`: a
monitor that is dropped stops listening, whatever step its thread is at, but for the stop that macOS
loses. `KeysUpNothingRecords`
and `OneVoiceOperation` are about the tasks that presses spawn, each with the exceptions that the
code has (they name them). `SessionsDoNotMix` and `ServiceGetsFree` are about the recognition
service: nothing is recorded in another client's name or after a stop, a client is told in order
and at most one end, and the service becomes free.

**Properties of the parts.** `ClipboardComesBack` and `NeverTwice` (output); `PlacedWhereAllowed`
and `NothingLost` (what an utterance may do, and where a result ends); `SecretsKept` and
`EditSurvives` (settings); `HeardOnceInFull` (speech); `NothingOfAnotherApp` (context);
`LibraryIsWhole` (no twins, a restore in full or not at all, retention, export and its way back);
`SpokenTextStaysInItsField` and `NothingListensUnasked` (keyboard). The comment of each says what
it leaves out.

**Fairness.** Weak fairness on the steps of `start()`, `stop()` and `abort()`: each is a
future on a runtime that polls what is ready, and each of their awaits has a time limit
(startup thirty seconds, finalizing two minutes or twelve seconds, the HTTP timeouts of the
language model). Weak fairness on the deadline timers. Strong
fairness where the deadline task waits for `pipeline_lock`: a tokio mutex is granted
in the order of the requests. In Ask, weak fairness also on a task that has an error in hand. Nothing
is assumed of the user or of the STT provider: a recording may never be stopped by the user,
and `disconnect()` may never return. `OrderlySpec` constrains only the two steps that can
race (the call of `start()`, the first step of `abort()`), about which no fairness is
assumed, so it takes nothing away from the fair steps.

In `input`, weak fairness on the retry loop and on a command in progress (a timer and a future);
on the owner of a native monitor and its thread (both are running code with bounded waits); on
the main thread, the preparation and the worker of the recognition service. Nothing is assumed of
the user, of other applications or of the speech service.

## 4. Findings

The six violated runs are disagreements between what a comment, a test or a document says and
what the code does. `PROJECT.json` quotes each.

* `abort()` while `start()` connects does not stop the capture; it stays on until the
  connection is made or fails.
* `abort()` during the polish is forgotten when the user dictates again before the model
  has answered.
* A transcript that arrives after the finalize timeout can land in the next dictation.
* An Ask start that is aborted while it connects takes over the reservation of the next one.
* A press of the Ask hotkey during a start that a window began is accepted and lost.
* A key of the former provider that still waits as plain text replaces the key of
  `custom-whisper` when the settings are loaded twice.

Met while modelling, and named as an exception by a property rather than given a run:

* the offline recording that follows when the speech service refuses the microphone begins also
  after the key was let go (`VoicePipeline.java:241`, against the comment at
  `OpenTypelessImeService.java:359`);
* a cancelled run may overwrite the state of the next one (`VoicePipeline.java:162`);
* `deepgram.rs` and `assemblyai.rs` close the socket without waiting for the last segments;
* two settings commands that overlap lose one of their edits;
* `resume_hotkey` registers under the generation that already runs (`commands/misc.rs:1137`);
* Ask does not look at the pipeline when it starts, and the tray and the command line do not look
  at Ask, so both can record;
* a release in hold mode whose task runs before that of its press leaves the recording running;
* a restore that commits between the check and the insertion of a command makes twins;
* an STT task that is between its look at the session and its write when `abort()` and the next
  `start()` fall in puts its text, or its error, into the next dictation (`pipeline.rs:1584-1590, 1540-1546`);
* the chunk that the streaming worker is typing, and the rest of a text of which a part was typed, reach the
  application after the dictation was called off (`pipeline.rs:554-572, 2166-2180`; the comment at
  `pipeline.rs:2315` speaks of the whole output);
* after a save that failed at the file the cache keeps the refused configuration (`storage/mod.rs:1190`): a
  later retry, resume or roll-back installs it, and a later edit of other settings saves it, with
  the old shortcuts still registered;
* on macOS the stop of a run loop that falls between the last look at the flag and the loop
  (`native_hotkey.rs:534-535`) is lost: the thread stays, and enables its tap again when the
  system has disabled it;
* a paste that has found the text of the one before it, whose restore then ends the batch, gives
  that text back instead of the user's (`clipboard.rs:284-313`);
* SendInput that fails within the very first character has sent the start of it and counts nothing
  (`windows_sendinput.rs:200-234`), so the whole is pasted behind it;
* a pruning that fails or is cut off after its entry was inserted (`storage/mod.rs:1404-1436`) leaves one
  entry more than the policy allows, until a later one succeeds.

## 5. Proofs

The theorems are checked by `tlapm` (SMT, Zenon, and LS4 for the temporal steps), with no
assumption but those on the constants, which TLC evaluates as well. They are of three kinds:

* bounds are numbers, and sets of names do not hold the names the code reserves:
  `PipelineAssumption`, `AskAssumption`, `ShortcutAssumption`, `RegAssumption`, `KeysAssumption`,
  `ClipboardAssumption`, `UnitsAssumption`, `PlacementAssumption`, `SttAssumption`,
  `VoiceAssumption`, `KeyboardAssumption`, `SettingsAssumption`, `DetectorAssumption`,
  `LibraryAssumption`;
* what comes from a file or from the user has the shape that the code's types give it:
  stored mappings (`DetectorAssumption`), the policies of retention
  (`LibraryAssumption`, which allow at least one entry), the rows of a backup and of a file to import (`InputAssumption`), the
  settings on disk, and the edits, which are what the page and the commands let through
  (`InputsAssumption`), the bindings of a configuration, of which
  dictation always has one (`ConfigAssumption`: `HotkeyConfig::normalize`);
* the names of the native triggers are not names of keys or modifiers (`NativeAssumption`: the
  tables of `parse_hotkey`).

Two kinds of theorems have a hypothesis of their own. `SecretsStayKept`, and with it
`PartsStayRight`, assumes `NoLeftover`, that no settings file of the provider `custom` still has the
plain-text key of another. It is needed: without it the run `settings_leftover` loses a key. The theorems about
what must happen in the end assume `[]NothingStuck`, a property that TLC checks.

They hold for every number of takes, aborts, attempts, tasks, commands, outputs, chunks, messages,
clients, targets, saves, restarts and days, and for every set of configurations, mappings, backups
and files.

`PipelineProofs`, first part, about all behaviours of `Pipeline`, the raced ones included:

* `TypeCorrect`: `Spec => []TypeOK`. `TypeOK` is inductive because it includes that `start()` and
  a recording always belong to a take.
* `Ownership`: `Spec => []SetupInv`. `StopOwnsSetup` is not inductive: one has to know that
  while `start()` sets up, the preloaded configuration is its own (`StartOwns`), that this and the
  published control are still there when the recording is stopped (`RecordingOwned`) and when the
  `stop()` takes them over (`CapturingOwned`), and that later takes have not begun (`Untouched`).
  The lock is what keeps them; `abort()` touches none of them. `StopsOwnSetups` is the corollary.
* `Errors`: `Spec => []ErrorInv`, with `LatchedFailed`: what is latched is a failed session. `ErrorsAreOwn` is the
  corollary.
* `TranslationTargets`: `Spec => []TargetInv`. `OperationOwned` says that the operation, while there is one, is
  the latest take's, carries the last acknowledged target, and that `stop()` has not frozen
  a target while it can still be switched. `AckedTargetsAreUsed` is the corollary.

`PipelineProofs`, second part, about the orderly behaviours (`OrderlySpec`, section 2):

* `OrderlyOwnership`: `OrderlySpec => [](OrderInv /\ SetUpInv)`. The code has one `abort_flag` for
  all dictations, and fields of one handle that several calls use. What makes this work is
  `FlagSpeaks`: as long as no `start()` clears the flag while a cancelled dictation is still in
  flight, the flag is up exactly if every dictation in flight is cancelled. From it follow that
  there is one `stop()` in flight (`OneInFlight`), that `abort()` finds the handle of the
  microphone that is on (`MicOwned`), and that handle, start instant, deadline and session of a
  dictation nobody aborts are still those its `start()` stored (`RecordingIsSetUp`,
  `SessionStands`, `InstantOwned`). `BusyOwned` says who will set `Idle`.
* `NothingIsOrphaned` and `DurationsAreOwn` are corollaries for `NothingOrphaned` and `DurationIsOwn`.
* `PromiseIsKept`: `OrderlySpec => KeepsThePromise`, the refinement. `PromiseStep` maps every action to
  a step of `Dictation` or to a stutter; a lemma for each of those steps says what the shared fields
  must do for it (`ItBegins`, `ItCallsOff`, ...).

* `TextOwnership`: session ids are not used twice and `abort()` retires the last one (`IdsApart`); a
  task begins after its id is there (`TasksInOrder`); a task that may still write belongs to the
  dictation in progress, has timed out or was overtaken between its look and its write (`WritersKnown`,
  `WritersMay`); so text and error are those of the
  dictation in progress, but for those (`TextOwned`).
* `TranscriptsAreOwn` and `FailuresAreNotHeard` are the corollaries for
  `TranscriptIsOwnUnlessLate` and `FailedIsNotHeard`.

`PipelineProofs`, third part, about what must happen in the end. The provers cannot tell when an action is
enabled, so the theorems have `[]NothingStuck` as a hypothesis, which says of the actions with
fairness when they are, and which TLC shows in `pipeline_orderly`. What is left to prove is that
enabled steps lead somewhere, through whatever the other threads do in between. `StopsReturn` is stated of
`FairSpec`, the raced behaviours included; of those, the hypothesis itself is not checked
by a run, which follows the orderly ones:

* `StopsReturn`: `FairSpec /\ []NothingStuck => StopReturnsInTheEnd`, also with raced flags. Each program counter of
  a `stop()` is left for a later one, and nobody else moves it (`OnlyStopMoves`); the polishing one
  may take one chunk first.
* `EverythingEnds`: `OrderlyFairSpec /\ []NothingStuck => EndsInTheEnd`, from `StopsReturn`, `StatesReturn` and
  `MicsAreReleased`. Nothing is assumed of the user: a recording ends by its deadline, whose task
  needs `pipeline_lock`, which is why its fairness is strong and why one shows that no `start()` keeps the
  lock (`StartsReturn`) and that the lock is free while a dictation records (`RecordedIsFree`). The invariants
  of the orderly behaviours say that the deadline is armed for as long as nobody has stopped
  the recording. A microphone is followed from the `start()` that switched it on to the `stop()` or `abort()`
  that has its handle.

`AskProofs`:

* `AskTypeCorrect`: `Spec => []TypeOK`, and with it that `processing` is a stop in progress.
* `OneStageAtATime`: `Spec => []StageInv`; `StagesExclude` is the corollary.
* `AbortsOwnReservations`: the reservation is never the one of an aborted attempt
  (`ReservedByLatest`); `AbortIsFinal` is the corollary.
* `LossesHaveCause`: a start in flight holds the reservation, was aborted, or lost it to an
  earlier aborted one (`FlightOwned`); `LossNeedsAbort` is the corollary.
* `AskStopsReturn`, `AskGetsFree`, `AskMicsAreReleased`, and with them `AskEverythingEnds`:
  `FairSpec /\ []NothingStuck => EndsInTheEnd`. `FailuresAreShown`: `FailureIsNotSilent`. As in the pipeline, TLC shows
  `NothingStuck` (`ask_safety`). The flag `starting` has no owner, so what is followed is the attempt:
  the latest one that reserved it commits or fails, which clears it, or an abort has cleared it before.

`HotkeyProofs`:

* `GenerationsProtect`: `RegSpec => []RegInv`. An attempt of the retry loop whose generation is the
  current one has the supervisor to itself but for `resume_hotkey`, and registers what the cache holds
  (`RetryKnown`); a command goes back to the cached configuration that it found, and saves what is registered
  (`CommandKnown`). The cache holds what is saved until a save fails after it filled the cache
  (`strayed`), and again once a change of the shortcuts is saved. The two exclude each other because a command wakes the supervisor, with a new
  generation, before it registers.
* `InstalledIsPlanned`: what is reported installed is the plan of one configuration, and unless `strayed` of the
  saved one. The plan is a
  fold over the bindings of the roles, and `PlanIsWhole` says what a plan without an error is: it has the
  shortcuts and native triggers of all roles and no others, and each shortcut for one role only.
  `InstalledShown` follows from both: what is installed is what that configuration says, and, unless `strayed`, a
  binding that the settings show as installed is in force (`InstalledIsSaved`).
* `PauseIsKept`: `PausedRegistersNothing`.
* `HoldsEnd`: `KeysSpec => []HoldsAreKept`. While no monitor is replaced and no event missed, the
  recogniser's flags follow the keys (`Followed`), and what one hold has told is the base or
  combinations, never both (`OneThing`). `KeysTypes` holds whatever is replaced or missed.
* `OneVoice`: `ShortSpec => []OneVoiceOperation`. The strengthening `MicInv` says that at most one task sets
  up and that the pipeline is then `Preparing` (`OneStarts`), that a start past its check found Ask
  free (`ChecksHold`), and that a draft is Ask's and has the pipeline to itself (`DraftIsAlone`).
* `KeysEndRecordings`: `ShortSpec => []KeysUpNothingRecords`. By itself the property says nothing of tasks that
  have yet to run; `HoldInv` says that once the keys are up, a recording has a stop to come, and
  every start that has not run has one behind it in the list (`StopsAreBehind`).
* `RegistrationTypes`: `RegSpec => []RegTypeOK`. Generations and attempts are bounded, but not by a guard: each command takes two
  generations at most and records one failure, and a retry only begins below the limit
  (`RegBounded`), which is the strengthening.
* `InputTypes`: `InputSpec => []InputTypeOK`, and `InputStaysRight`: the safety properties of the run `input`
  hold in `Input` as they do of each part, because a step of one part is a stutter of the others
  (`EachInputStep`).

`PartsProofs`, first part, about `TextOutput`:

* `NothingTwice`: `TextSpec => []NeverTwice`. The strengthening relates what the typing thread has done
  (`TypistKnown`), which may go on after its call has timed out, to how the output began and where
  its call is (`WayKept`), and says that an output that has not begun has left nothing
  (`OthersUntouched`). A unit that failed half way is counted by `torn`, which the
  strengthening allows a paste to follow only when it was the first.
* `ComesBack`: `TextSpec => []ClipboardComesBack`. `ClipInv` says whose text the clipboard holds while a
  paste or a capture is on its way, that the pending restore has kept what the user put there or the text that a paste
  has mistaken for it, and that a restore thread of an older batch can no longer write.
* `TextTypes`: the variables of clipboard and output keep their types.

`PartsProofs`, second part, about `Placement`:

* `PlacedRight`: `PlaceSpec => []PlacedWhereAllowed`. First, `RouteAllowed`: for every utterance (a sequence
  of any length), language, mode and set of features, the router makes an intent only of what may mean
  it and what is on. This needs no induction, since grammars and guards look at the words of an
  utterance by quantifiers. Then `PlaceInv` follows the operation: the worker has put out what it says it
  has (`StreamInv`), the intent is still the one that was granted (`OpGranted`), a search is only opened for a
  search (`SearchInv`), and what was seen at the last look still holds, or the user has moved since
  (`LookInv`).
* `TextArrives`: `PlaceSpec => []NothingLost`, from `EndInv`: what the end of an operation reports is what
  became of its text.
* `PlaceTypes`: the variables keep their types.

`PartsProofs`, third part, about `SttSession`:

* `HeardRight`: `SttSpec => []HeardOnceInFull`. `HeardInv` says that what was heard, with what `disconnect()`
  has heard behind it (`rest`), is the first segments in their order; `InboxInv` that messages on their way are in
  the order in which they were sent, that those that come again are old, and that `finished` is the last
  one; `Counters` that each chunk is with one of microphone, task, provider and server. What was heard is
  always a prefix of the recording, so sequences need no induction.
* `SttTypes`: the variables keep their types; what is held is at most a block, or the buffer of a file.

`PartsProofs`, fourth part, about `Parts`:

* `EachPartRuns`: a behaviour of `PartsSpec` is one of `TextSpec`, `PlaceSpec`, `SettingsSpec`, `SttSpec`,
  `DetectorSpec`, `LibrarySpec` and `KeyboardSpec`, so the theorems about the parts apply to what TLC checks.
* `PartsTypes`: `PartsSpec => []PartsTypeOK`, and `PartsStayRight`: the eleven safety properties of the run `parts`
  hold together, for any value of the constants with `NoLeftover`.

`RecognitionProofs`:

* `OneSession`: `RecognitionSpec => []SessionsDoNotMix`. Controller, engine and recorder each have their
  own idea of the client. `Served` says that they agree but for what the main thread is in the middle of
  (`MainKnown`); `OnceEach` that a session is prepared and run at most once, so a task that comes late
  finds another token; `RecordingOwned` that a recorder that may go on is in the name of the client that is
  served, and has an attribution of its own only then; `EngineKnown` and `StopReached` that a stop finds
  the recording unless it is over; `Telling` that what is posted for a client is in order, new to it, and
  not past the point its controller has reached.
* `RecognitionTypes`: the variables keep their types.

The lemmas at its beginning are about `VoicePipeline`, and `KeyboardProofs` uses them too: `WorkerIs`
says what any step of the worker does to what others read, and a few say how a queue grows and
shrinks.

`KeyboardProofs`, all from one invariant, `KbInv`, by a lemma for each kind of step (`KbStep`):

* `SpokenStays`: `KeyboardSpec => []SpokenTextStaysInItsField`. A post of the main thread is taken long after
  it was made, and all that protects the field is that the run of the post is compared with the active
  target. So a target must not be given twice, nor come back: `TakenOnce` says that targets are taken in
  their order and that each waits for its settings, or for its start, at most once. `AfterStart` says that
  what speaks of a run comes after its start, and that a result or an error is only posted when the run
  has left the pipeline. `InsertedOver` then says that what was inserted belongs to a target that is over, so
  a later cancel cannot mean it.
* `NothingListens`: `KeyboardSpec => []NothingListensUnasked`. `ActiveIs` ties the run of the pipeline to the
  active target, which is why no start is refused. `TokensKnown` says that at most one post of the
  recogniser, or its session, has the current token, that this is of the run of the pipeline, and that
  nobody else records for it; `ServiceHas` that a run the service records has its session or the
  post that begins it. `StateKnown` says what `state()` is worth while no cancelled run has overwritten it: the end of
  a hold decides by it between a stop and a cancel. `HoldOver` is the property made inductive: once the
  key is up, a run that has no session yet has a stop behind its start in the queue.
* `KeyboardTypes`: `KeyboardSpec => []KeyboardTypeOK`.

`StorageProofs`, first part, about `ContextDetector`:

* `NothingOfAnother`: `DetectorSpec => []NothingOfAnotherApp`. `Consistent` is the reason for the
  generations: of all the candidates that somebody still holds, two of one generation are the same, so a
  window that finds its generation unchanged saves what it shows. `WatcherSees` says that the mapping
  in what the thread has resolved, and in the cache, is one of the application that its guard names,
  however often the user has moved since; this needs what a list of mappings resolves to
  (`ResolvedOwn`). `MapsKept` says that the collection has one mapping
  for each matcher, which loading, a fold, has to establish (`StoredOnes`), and that loading it
  again changes nothing (`StoredAgain`).
* `DetectorTypes`: `DetectorSpec => []DetectorTypeOK`; what resolves to a profile is a profile, and what is on disk
  is of the shape that is read.

`StorageProofs`, second part, about `Library`:

* `LibraryStaysWhole`: `LibrarySpec => []LibraryIsWhole`. `RestoreKnown` follows the transaction of a
  restore: the tables it has replaced so far are those the backup has among the sections it has passed, and
  each is as whole as those of the data base. `CommandStands` says what the check of a text is worth when its row is inserted: unless
  a restore came between, no other row has taken the text. `HistoryKept` bounds the history by the policy but for
  the entries whose pruning is still to come (`Pruning`) or has failed or been cut off since one succeeded
  (`unpruned`), and `NewestLast` says that pruning never takes
  the entry just added. What a file of rows makes of a list is a fold (`NewsIs`, `AmongIs`), and
  that an export reads back as the list is `ReadsBack`.
* `LibraryTypes`: `LibrarySpec => []LibraryTypeOK`. Not each entry of the history is of a day that has passed: a
  backup says itself of which day its entries are, and `restore_backup_data` takes that as it is
  (`BackupDays`). Only the entries that a recording adds are of the current day.

`StorageProofs`, third part, about `Settings`:

* `SecretsStayKept`: `NoLeftover => (SettingsSpec => []SecretsKept)`. `ConfigsHeld` says that of every
  configuration anybody holds, on disk, in the cache or in a command, each key is either in the vault or still
  in that configuration as plain text: a migration that fails halfway, or a program that stops there, leaves
  the latter. Loading, normalising and editing change dozens of fields with their mirrors, and
  the lemmas `...Same` say that none of them touches a key or the provider it belongs to. `WrittenIs`
  says what a migration writes, which is a fold over what waits, and `Migrated` that the keys are held
  afterwards too. Overlapping commands (`mixed`) are the exception the property makes as well.
* `EditsSurvive`: `SettingsSpec => []EditSurvives`. An edit passes through some twenty steps that
  rewrite the whole configuration, so the proof is about what they leave alone. `IsNormal` is what a
  running program relies on: known targets, each once, the active one among them; bindings that can
  be registered, each once, and every mirror of them the same; a limit its provider takes. `FromStoredIs`
  says that whatever is stored loads as such a configuration, and `NormalIs` that normalising one
  changes nothing, so that the next start reads what was saved (`ReadAgain`). The two lists that
  normalising builds are folds: `CollectedIs` and `CollectedAgain` say that what comes out has each
  member once, and comes out the same the second time. `EditIs` says of each kind of edit that what
  the save makes of it shows the edit, and that the other groups say what they said. `EditInv` then
  follows the commands: what each of them holds is normal and has its edit in force up to the
  end, and while no other overlaps it, cache and disk have it as soon as it says so (`AloneSays`).
  The steps that go back are only those of a switch of the target, and bring back the old one.
* `SettingsTypes`: `SettingsSpec => []SettingsTypeOK`. The keys that may be in the vault or in a file are those of the stored
  settings and those the user gives (`KnownKeys`); each of the steps that rewrite a configuration
  makes one of the same shape.

`FoldLemmas`: `Climbs` is induction over numbers, stated for a set; it rests on the
well-foundedness of `<`. `FoldExists` and `FoldSteps` show with it that the function by which the community modules
define a fold exists, and that its value is the last of a *run*, which takes one member of the
sequence at a time. The lemmas about folds in the other modules prove a fact about each value of
a run, by `Climbs`.

Only model-checked:

* `NothingStuck` of the pipeline and of Ask, on which their liveness theorems rest: the provers cannot
  expand ENABLED;
* `InputRegistrationSettles`, `DroppedIsGone` and `ServiceGetsFree`: the liveness of the registration, of the
  native monitor and of the recognition service. Proofs would take the form of those above, with a
  `NothingStuck` of their own as a hypothesis, and have not been written.

## 6. Not modelled, and what is left

Not modelled, because it keeps no protocol of its own: signal processing, wire formats and HTTP
bodies, prompts, SQL text, window management, the tray, the React and Android user interfaces.

Not modelled, though it could be:

* pipeline: the operation id, the volume task, details of a history entry; Ask: the pending message;
* settings: the removed provider `cloud`, a settings file that cannot be parsed (the code takes
  the defaults), the automatic save of the store plugin (external);
* the process of the offline recogniser on the desktop;
* two hotkey commands at once; the advanced shortcut roles beyond the event they emit;
* Android: `onDestroy`, undo and raw text, teaching words, the live preview of the offline
  recogniser, downloads of offline models, encrypted preferences.

Every safety property of a passing run has its theorem, but for `NothingStuck`, which speaks of
ENABLED; of the liveness properties, those of the pipeline and of Ask have theirs. The end of section 5
names the others.
