----------------------------- MODULE SttSession -----------------------------
(***************************************************************************)
(* A recording with its speech-to-text provider (src-tauri/src/stt): the   *)
(* loop of the STT task, which forwards the audio and takes the            *)
(* transcripts, over what each kind of provider makes of that.             *)
(*                                                                         *)
(*   stream      deepgram.rs, assemblyai.rs: segments as they come         *)
(*   cumulative  volcengine.rs: each message holds all so far, and only    *)
(*               the answer to the last frame is final                     *)
(*   items       aliyun_qwen3_asr.rs: segments with an id, which may come  *)
(*               again, and audio in blocks                                *)
(*   file        whisper_compat.rs, apple_speech.rs: all audio in one      *)
(*               request when the recording ends                           *)
(*                                                                         *)
(* Chunk n of the audio holds segment n of what is said.                   *)
(***************************************************************************)
EXTENDS Naturals, Sequences, FiniteSets, SequencesExt

CONSTANTS
  MaxChunks,  \* bound on the chunks of a recording
  Block,      \* chunks in AUDIO_CHUNK_BYTES
  MaxBuffer,  \* chunks in MAX_AUDIO_BYTES
  MaxInbox    \* bound on the messages on their way

ASSUME SttAssumption == {MaxChunks, Block, MaxBuffer, MaxInbox} \subseteq Nat \ {0}

Kinds == {"stream", "cumulative", "items", "file"}
MaxAttempts == 3

VARIABLES
  kind,
  sttPc,     \* the task: "connect", "loop", "drain", "over"
  attempt,   \* of the connection, or of the request with the file
  recorded,  \* chunks the microphone has given; recording: it is on
  recording,
  taken,     \* chunks the task has taken
  held,      \* those of them that wait in pending_audio or audio_buffer
  got,       \* chunks the server has
  told,      \* segments the server has sent as final
  asked,     \* the last frame, or session.finish, is sent
  line,      \* the connection: "open", "closing" (the close is in the inbox), "closed"
  inbox,     \* messages on their way to the program
  seen,      \* completed_item_ids
  rest,      \* what disconnect() has heard, and returns when all goes well
  heard,     \* the transcript
  outcome,    \* how the task ended
  late       \* the wait for the last answers ended before they were there

sttVars == <<kind, sttPc, attempt, recorded, recording, taken, held, got, told, asked,
             line, inbox, seen, rest, heard, outcome, late>>
audio  == <<recorded, recording, taken, held>>
server == <<got, told, asked, line, inbox>>

Partial(n)  == [type |-> "partial", upTo |-> n]
Final(n)    == [type |-> "final", upTo |-> n]
Finished    == [type |-> "finished", upTo |-> 0]
ErrorSent   == [type |-> "error", upTo |-> 0]
Closing     == [type |-> "close", upTo |-> 0]
Broken      == [type |-> "broken", upTo |-> 0]

SttInit ==
  /\ kind \in Kinds
  /\ sttPc = "connect" /\ attempt = 1
  /\ recorded = 0 /\ recording = TRUE /\ taken = 0 /\ held = 0
  /\ got = 0 /\ told = 0 /\ asked = FALSE /\ line = "closed" /\ inbox = <<>>
  /\ seen = {} /\ rest = <<>> /\ heard = <<>> /\ outcome = "none" /\ late = FALSE

Ends(how) == sttPc' = "over" /\ outcome' = how
-----------------------------------------------------------------------------
(* connect()                                                                 *)

\* The session is set up: the first answer of volcengine, session.created and
\* session.updated of aliyun, have come. A file needs no connection.
Connects ==
  /\ sttPc = "connect"
  /\ sttPc' = "loop"
  /\ attempt' = 1
  /\ line' = IF kind = "file" THEN "closed" ELSE "open"
  /\ UNCHANGED <<kind, audio, got, told, asked, inbox, seen, rest, heard, outcome, late>>

\* deepgram and assemblyai try again whatever happened; volcengine only what
\* may pass; aliyun not at all.
Retries == kind \in {"stream", "cumulative"} /\ attempt < MaxAttempts

\* `permanent`: no key, a refused one, a refused or late session.
ConnectFails(permanent) ==
  /\ sttPc = "connect"
  /\ kind = "file" => permanent
  /\ IF Retries /\ ~(permanent /\ kind = "cumulative")
     THEN attempt' = attempt + 1 /\ UNCHANGED <<sttPc, outcome>>
     ELSE Ends("error") /\ UNCHANGED attempt
  /\ UNCHANGED <<kind, audio, server, seen, rest, heard, late>>
-----------------------------------------------------------------------------
(* The microphone and the server                                             *)

Records ==
  /\ sttPc = "loop" /\ recording /\ recorded < MaxChunks
  /\ recorded' = recorded + 1
  /\ UNCHANGED <<kind, sttPc, attempt, recording, taken, held, server, seen, rest, heard, outcome, late>>

RecordingStops ==
  /\ sttPc = "loop" /\ recording
  /\ recording' = FALSE
  /\ UNCHANGED <<kind, sttPc, attempt, recorded, taken, held, server, seen, rest, heard, outcome, late>>

Serves(message) ==
  /\ line = "open" /\ Len(inbox) < MaxInbox
  /\ inbox' = Append(inbox, message)
  /\ UNCHANGED <<kind, sttPc, attempt, audio, got, asked, seen, rest, heard, outcome, late>>

ServerAnswers ==
  \/ told < got /\ kind # "cumulative" /\ Serves(Final(told + 1)) /\ told' = told + 1 /\ UNCHANGED line
  \/ kind = "items" /\ told > 0 /\ Serves(Final(told)) /\ UNCHANGED <<told, line>>
  \/ kind = "cumulative" /\ got > 0 /\ told = 0 /\ Serves(Partial(got)) /\ UNCHANGED <<told, line>>
  \/ kind = "cumulative" /\ asked /\ told < got /\ Serves(Final(got)) /\ told' = got /\ UNCHANGED line
  \/ kind = "items" /\ asked /\ told = got /\ Serves(Finished) /\ UNCHANGED told /\ line' = "closing"

ServerFails ==
  \E message \in {ErrorSent, Closing, Broken} :
    Serves(message) /\ UNCHANGED told /\ line' = (IF message = ErrorSent THEN line ELSE "closing")
-----------------------------------------------------------------------------
(* send_audio()                                                              *)

AudioWaits == taken < recorded

\* `going` chunks go to the server; the provider holds the rest.
Sends(going, stays) ==
  /\ held' = stays
  /\ got' = got + going

\* aliyun appends whole blocks; a closed connection refuses what is sent.
TaskSends ==
  /\ sttPc = "loop" /\ AudioWaits
  /\ taken' = taken + 1
  /\ CASE kind = "file"                          -> held < MaxBuffer /\ Sends(0, held + 1)
       [] kind = "items" /\ held + 1 < Block     -> Sends(0, held + 1)
       [] OTHER                                  -> line # "closed" /\ Sends(held + 1, 0)
  /\ UNCHANGED <<kind, sttPc, attempt, recorded, recording, told, asked, line, inbox,
                 seen, rest, heard, outcome, late>>

\* The audio is too long for a file, or the connection fails.
TaskCannotSend ==
  /\ sttPc = "loop" /\ AudioWaits
  /\ CASE kind = "file"                      -> held = MaxBuffer
       [] kind = "items" /\ held + 1 < Block -> FALSE
       [] OTHER                              -> line # "open"
  /\ taken' = taken + 1
  /\ Ends("error")
  /\ UNCHANGED <<kind, attempt, recorded, recording, held, server, seen, rest, heard, late>>
-----------------------------------------------------------------------------
(* recv_transcript()                                                         *)

HearsAgain(m) == m.type = "final"                                     \* mutant

\* A completed item that was there before is dropped.
IsNews(m) == m.type = "final" /\ (kind = "items" => m.upTo \notin seen)

\* All so far, or one segment.
Segments(m) == IF kind = "cumulative" THEN [n \in 1..m.upTo |-> n] ELSE <<m.upTo>>

Hears(m) ==
  /\ heard' = IF IsNews(m) THEN heard \o Segments(m) ELSE heard
  /\ seen' = IF m.type = "final" /\ kind = "items" THEN seen \cup {m.upTo} ELSE seen

Receives(m) == inbox # <<>> /\ m = Head(inbox) /\ inbox' = Tail(inbox)

\* A partial text is shown only; a close is taken for no event.
TaskHears ==
  \E m \in ToSet(inbox) :
    /\ sttPc = "loop" /\ Receives(m)
    /\ IF m.type \in {"error", "broken"}
       THEN Ends("error") /\ UNCHANGED <<seen, rest, heard>>
       ELSE Hears(m) /\ UNCHANGED <<sttPc, outcome>>
    /\ line' = IF m.type \in {"close", "broken"} THEN "closed" ELSE line
    /\ UNCHANGED <<kind, attempt, audio, got, told, asked, rest, late>>

\* abort(): the loop and a disconnect() are left as they are.
TaskAborts ==
  /\ sttPc \in {"loop", "drain"}
  /\ Ends("aborted")
  /\ UNCHANGED <<kind, attempt, audio, server, seen, rest, heard, late>>
-----------------------------------------------------------------------------
(* disconnect(), when the audio has come to its end                          *)

AudioEnds == sttPc = "loop" /\ ~recording /\ ~AudioWaits

\* deepgram and assemblyai close the connection and ask for nothing more;
\* no audio, no text.
ClosesAtOnce ==
  /\ AudioEnds
  /\ CASE kind = "stream"     -> TRUE
       [] kind = "items"      -> FALSE
       [] kind = "cumulative" -> got = 0
       [] kind = "file"       -> held = 0
  /\ Ends("ok")
  /\ line' = "closed"
  /\ UNCHANGED <<kind, attempt, audio, got, told, asked, inbox, seen, rest, heard, late>>

\* What is held is sent, and the last frame.
AsksForRest ==
  /\ AudioEnds /\ kind \in {"cumulative", "items"}
  /\ kind = "cumulative" => got > 0
  /\ \/ /\ line # "closed"
        /\ sttPc' = "drain" /\ asked' = TRUE /\ Sends(held, 0)
        /\ UNCHANGED outcome
     \/ /\ line # "open"
        /\ Ends("error") /\ UNCHANGED <<asked, held, got>>
  /\ UNCHANGED <<kind, attempt, recorded, recording, taken, told, line, inbox, seen, rest, heard, late>>

\* The finals of aliyun are collected; of volcengine the last message stands,
\* final or not. A close, like the end of the session, ends the wait.
DrainHears ==
  \E m \in ToSet(inbox) :
    /\ sttPc = "drain" /\ kind # "file" /\ Receives(m)
    /\ rest' = IF m.type \notin {"partial", "final"} THEN rest
               ELSE IF kind = "cumulative" THEN Segments(m)
               ELSE IF IsNews(m) THEN rest \o Segments(m) ELSE rest
    /\ seen' = IF m.type = "final" THEN seen \cup {m.upTo} ELSE seen
    /\ CASE m.type \in {"error", "broken"} -> Ends("error") /\ UNCHANGED heard
         [] m.type \in {"close", "finished"} \/ (m.type = "final" /\ kind = "cumulative")
              -> Ends("ok") /\ heard' = heard \o rest'
         [] OTHER -> UNCHANGED <<sttPc, outcome, heard>>
    /\ late' = (late \/ m.type = "close")
    /\ UNCHANGED <<kind, attempt, audio, got, told, asked, line>>

\* After eight seconds.
DrainTimesOut ==
  /\ sttPc = "drain" /\ kind # "file"
  /\ Ends("ok") /\ heard' = heard \o rest /\ late' = TRUE
  /\ UNCHANGED <<kind, attempt, audio, server, seen, rest>>

\* The request with the file: a server that fails, or is late, is asked again.
Uploads ==
  /\ AudioEnds /\ kind = "file" /\ held > 0
  /\ sttPc' = "drain" /\ got' = held /\ held' = 0
  /\ UNCHANGED <<kind, attempt, recorded, recording, taken, told, asked, line, inbox,
                 seen, rest, heard, outcome, late>>

UploadAnswers ==
  /\ sttPc = "drain" /\ kind = "file"
  /\ \/ heard' = [n \in 1..got |-> n] /\ Ends("ok") /\ UNCHANGED attempt
     \/ attempt < MaxAttempts /\ attempt' = attempt + 1 /\ UNCHANGED <<heard, sttPc, outcome>>
     \/ Ends("error") /\ UNCHANGED <<heard, attempt>>
  /\ UNCHANGED <<kind, audio, server, seen, rest, late>>

Disconnect == ClosesAtOnce \/ AsksForRest \/ DrainHears \/ DrainTimesOut \/ Uploads \/ UploadAnswers
-----------------------------------------------------------------------------
SttNext ==
  \/ Connects \/ (\E permanent \in BOOLEAN : ConnectFails(permanent))
  \/ Records \/ RecordingStops \/ ServerAnswers \/ ServerFails
  \/ TaskSends \/ TaskCannotSend \/ TaskHears \/ TaskAborts
  \/ Disconnect

SttSpec == SttInit /\ [][SttNext]_sttVars

SttTypeOK ==
  /\ kind \in Kinds /\ sttPc \in {"connect", "loop", "drain", "over"}
  /\ attempt \in 1..MaxAttempts
  /\ held \in 0..(IF kind = "file" THEN MaxBuffer ELSE Block)
  /\ taken \in 0..recorded /\ recorded \in 0..MaxChunks
  /\ told \in 0..got /\ got + held <= taken
  /\ line \in {"open", "closing", "closed"}
  /\ heard \in BoundedSeq(1..MaxChunks, MaxChunks)
  /\ outcome \in {"none", "ok", "error", "aborted"}

\* The transcript is what was said: no segment twice or out of its order,
\* whatever comes again or crosses the end of the recording; and all of it when
\* the task ends well and the server was in time.  deepgram and assemblyai are
\* closed without a wait for their last segments, so theirs may lack the end.
HeardOnceInFull ==
  /\ \A i, j \in DOMAIN heard : i < j => heard[i] < heard[j]
  /\ kind # "items" => heard = [n \in 1..Len(heard) |-> n]
  /\ outcome = "ok" /\ ~late /\ kind # "stream" => Len(heard) = recorded
=============================================================================
