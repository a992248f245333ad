------------------------------ MODULE Placement ------------------------------
(***************************************************************************)
(* From a dictated text to where its result is put: route_ask_intent and   *)
(* polish_text with its streaming insertion (commands/ask.rs, pipeline.rs),*)
(* execute_voice_intent and its backends (voice_intent/executor.rs).       *)
(*                                                                         *)
(* One operation. Meanwhile the user moves the focus and the selection,    *)
(* and may abort. output_text is what TextOutput specifies: here it types  *)
(* or pastes, copies, or fails.                                            *)
(***************************************************************************)
EXTENDS VoiceRoute

CONSTANTS
  Utterances,  \* what is said
  Chunks,      \* pieces the model's text comes in
  MaxMoves     \* bound on the moves of the focus and of the selection

ASSUME PlacementAssumption ==
  /\ Utterances \subseteq Seq(Acts \X Scripts)
  /\ Chunks \in Nat \ {0} /\ MaxMoves \in Nat

VARIABLES
  op,       \* the operation: what was said, what it means, and how far it is
  text,     \* the model's text: "none", "streamed" (the chunks), "other", "empty"
  stream,   \* the streaming worker and its report
  focus,    \* the application the user is in: "target" or "other"
  chosen,   \* what is selected there: "same" as when it was captured, or "else"
  moves, aborted,
  effect,   \* what became of the text
  stale     \* what the user moved since it was looked at

placeVars == <<op, text, stream, focus, chosen, moves, aborted, effect, stale>>

NoStream == [pc |-> "off", sent |-> 0, taken |-> 0, placed |-> 0,
             part |-> FALSE, failed |-> FALSE, lost |-> FALSE]
NoEffect == [target |-> "none", astray |-> FALSE, overwrote |-> "none",
             clipboard |-> "none", popup |-> "none", history |-> "none",
             copyFailed |-> FALSE, guarded |-> TRUE]
NoOp == [pc |-> "idle", mode |-> "none", selected |-> FALSE, flags |-> {},
         intent |-> Intent("OpenQuestion", "none"), may |-> {}, available |-> FALSE]

PlaceInit ==
  /\ op = NoOp /\ text = "none" /\ stream = NoStream
  /\ focus = "target" /\ chosen = "same" /\ moves = 0 /\ aborted = FALSE
  /\ effect = NoEffect /\ stale = {}

To(pc) == op' = [op EXCEPT !.pc = pc]
At(pc) == op.pc = pc
Effects(e) == effect' = e
Done(e) == To("done") /\ Effects(e)

user == <<focus, chosen, moves, aborted>>
-----------------------------------------------------------------------------
(* What is said, and the model                                               *)

\* What a hearer grants: nothing quoted and no identifier, and the command
\* comes first.
MeantBy(u) ==
  IF u = <<>> \/ \E w \in ToSet(u) : w[1] \in {"quoted", "identifier"} THEN {}
  ELSE {u[1][1]}

\* route_pipeline_voice_intent, route_ask_intent: what can come of an utterance.
\* stop_ask_dictation answers a question, opens a search, and lets
\* run_ask_draft write a draft.
Meanings ==
  { LET intent == Route([mode |-> mode, utterance |-> u, selected |-> selected,
                         language |-> language, flags |-> flags])
    IN  [pc |-> IF mode # "Ask" THEN "begin"
                ELSE IF intent.kind = "DraftInsert" THEN "draft"
                ELSE IF CallsModel(intent) THEN "ask"
                ELSE "search",
         mode |-> mode, selected |-> selected, flags |-> flags,
         intent |-> [intent EXCEPT !.reason = "none"], may |-> MeantBy(u), available |-> FALSE] :
      mode \in {"Dictate", "Ask", "Translate"}, selected \in BOOLEAN,
      flags \in {Features, {"search", "translate"}, {}}, language \in Languages,
      u \in Utterances }

Speaks ==
  /\ At("idle")
  /\ op' \in Meanings
  /\ \E guarded \in BOOLEAN : Effects([effect EXCEPT !.guarded = guarded])
  /\ UNCHANGED <<text, stream, user, stale>>

\* AskSearchExecutionBackend
Searches ==
  /\ At("search")
  /\ \/ Done([effect EXCEPT !.popup = "searched"])
     \/ Done([effect EXCEPT !.popup = "error"])
  /\ UNCHANGED <<text, stream, user, stale>>

\* answer_question: the answer, or what went wrong, is shown.
Answers ==
  /\ At("ask")
  /\ \/ text' = "other" /\ Done([effect EXCEPT !.popup = "answer"])
     \/ UNCHANGED text /\ Done([effect EXCEPT !.popup = "error"])
  /\ UNCHANGED <<stream, user, stale>>

\* run_ask_draft: not while the pipeline is busy; abort_flag is reset.
DraftBegins ==
  /\ At("draft")
  /\ \/ To("begin") /\ aborted' = FALSE /\ UNCHANGED effect
     \/ Done([effect EXCEPT !.popup = "error"]) /\ UNCHANGED aborted
  /\ UNCHANGED <<text, stream, focus, chosen, moves, stale>>

\* voice_intent_requires_generated_output, selected_text_command_requires_llm
NeedsModel == op.selected \/ op.intent.kind # "DictateInsert"

\* Without a model the words themselves are put out, unless they are a command.
WithoutModel ==
  /\ At("begin")
  /\ IF NeedsModel THEN Done([effect EXCEPT !.history = "fallback", !.popup = "error"])
                   ELSE To("raw") /\ UNCHANGED effect
  /\ UNCHANGED <<text, stream, user, stale>>

\* streaming_insert_strategy_for_config
AsksModel ==
  /\ At("begin") /\ To("model")
  /\ \E streams \in BOOLEAN :
       /\ streams => AllowsStreaming(op.mode, op.intent)
       /\ stream' = [stream EXCEPT !.pc = IF streams THEN "runs" ELSE "off"]
  /\ UNCHANGED <<text, user, effect, stale>>

ModelSends ==
  /\ At("model") /\ stream.pc # "off" /\ stream.sent < Chunks
  /\ stream' = [stream EXCEPT !.sent = @ + 1]
  /\ UNCHANGED <<op, text, user, effect, stale>>

\* What is streamed is what is returned, but for what the provider strips.
ModelEnds ==
  /\ At("model") /\ To("join")
  /\ text' \in {"none", "other", "empty"} \cup
               (IF stream.pc # "off" /\ stream.sent = Chunks THEN {"streamed"} ELSE {})
  /\ UNCHANGED <<stream, user, effect, stale>>
-----------------------------------------------------------------------------
(* run_streaming_insert_worker. It looks at the context that the detector    *)
(* has cached, which may lag behind the focus in both directions.            *)

Worker == stream.pc \notin {"off", "over"} /\ op.pc \in {"model", "join"}

WorkerTakes ==
  /\ Worker /\ stream.pc = "runs" /\ stream.taken < stream.sent
  /\ stream' = IF aborted THEN [stream EXCEPT !.pc = "over"]
               ELSE [stream EXCEPT !.pc = "checks", !.taken = @ + 1]
  /\ UNCHANGED <<op, text, user, effect, stale>>

WorkerChecks ==
  /\ Worker /\ stream.pc = "checks"
  /\ \/ stream' = [stream EXCEPT !.pc = "types"]
     \/ /\ effect.guarded
        /\ stream' = [stream EXCEPT !.pc = "over", !.failed = TRUE, !.lost = TRUE]
  /\ UNCHANGED <<op, text, user, effect, stale>>

\* output_stream_chunk: in full; in part; not at all
WorkerTypes ==
  /\ Worker /\ stream.pc = "types"
  /\ \/ stream' = [stream EXCEPT !.pc = "runs", !.placed = @ + 1]
     \/ stream' = [stream EXCEPT !.pc = "over", !.part = TRUE, !.failed = TRUE]
     \/ stream' = [stream EXCEPT !.pc = "over", !.failed = TRUE]
  /\ UNCHANGED <<op, text, user, effect, stale>>

WorkerEnds ==
  /\ Worker /\ stream.pc = "runs" /\ At("join") /\ stream.taken = stream.sent
  /\ stream' = [stream EXCEPT !.pc = "over"]
  /\ UNCHANGED <<op, text, user, effect, stale>>

HasInserted == stream.placed > 0 \/ stream.part

RecoversBlindly == "suffix"                                           \* mutant

\* streaming_recovery_action, of a report with text
Recovery ==
  IF text = "none" THEN "copyPart"
  ELSE IF text = "streamed" /\ stream.placed = Chunks THEN "complete"
  ELSE IF text = "streamed" /\ ~stream.failed /\ ~stream.lost THEN "suffix"
  ELSE "copyFull"

\* polish_text, once the model has returned and the worker is joined
Joins ==
  /\ At("join") /\ stream.pc \in {"off", "over"} /\ HasInserted
  /\ CASE Recovery = "complete" ->
            Done([effect EXCEPT !.target = IF stream.placed = Chunks THEN "whole" ELSE "part"])
       [] Recovery = "suffix" -> To("suffix") /\ UNCHANGED effect
       [] Recovery = "copyFull" ->
            To("copyOnly") /\ Effects([effect EXCEPT !.target = "part", !.history = "copied"])
       [] Recovery = "copyPart" ->
            To("copyOnly") /\ Effects([effect EXCEPT !.target = "part", !.history = "partial"])
  /\ UNCHANGED <<text, stream, user, stale>>

\* Ask shows an error for a draft that was not executed or is empty.
EndsEarly(e) == Done([e EXCEPT !.popup = IF op.mode = "Ask" THEN "error" ELSE @])

JoinsEmpty ==
  /\ At("join") /\ stream.pc \in {"off", "over"} /\ ~HasInserted
  /\ IF stream.lost /\ text # "none" THEN
            To("copyOnly") /\ Effects([effect EXCEPT !.history = "copied"])
     ELSE IF aborted THEN EndsEarly(effect)
     ELSE IF text = "none" /\ NeedsModel THEN EndsEarly([effect EXCEPT !.history = "fallback"])
     ELSE IF text = "none" THEN To("raw") /\ Effects([effect EXCEPT !.history = "fallback"])
     ELSE IF text = "empty" THEN EndsEarly([effect EXCEPT !.history = "fallback"])
     ELSE IF op.intent.placement = "ReplaceSelection" THEN To("recapture") /\ UNCHANGED effect
     ELSE IF op.intent.placement = "PopupAnswer" THEN To("popup") /\ UNCHANGED effect
     ELSE IF RestoresTarget(op.mode, op.intent) THEN To("restore") /\ UNCHANGED effect
     ELSE To("check") /\ UNCHANGED effect
  /\ UNCHANGED <<text, stream, user, stale>>

\* The rest of a text whose beginning is there, or else a copy of the whole
Suffix ==
  /\ At("suffix")
  /\ \/ Done([effect EXCEPT !.target = IF text = "streamed" THEN "whole" ELSE "part"])
     \/ To("copyOnly") /\ Effects([effect EXCEPT !.target = "part", !.history = "copied"])
  /\ UNCHANGED <<text, stream, user, stale>>

\* copy_streaming_recovery_to_clipboard: its failure is only reported.
CopiesOnly ==
  /\ At("copyOnly")
  /\ \/ Done([effect EXCEPT !.clipboard = IF effect.history = "partial" THEN "part" ELSE "whole"])
     \/ Done([effect EXCEPT !.copyFailed = TRUE])
  /\ UNCHANGED <<text, stream, user, stale>>
-----------------------------------------------------------------------------
(* execute_voice_intent. The flags are those of the route: no feature can    *)
(* have been switched off since.                                             *)

Sees == focus = "target" \/ ~effect.guarded    \* target_still_matches_now

PopupEnabled == op.mode # "Ask"

\* capture_selected_text again, before a selection is replaced
Recaptures ==
  /\ At("recapture")
  /\ \E available \in {FALSE, focus = "target" /\ chosen = "same"} :
       op' = [op EXCEPT !.pc = "check", !.available = available]
  /\ stale' = stale \ {"selection"}
  /\ UNCHANGED <<text, stream, user, effect>>

\* restore_target: the Ask window is hidden and the target is brought back;
\* otherwise the text is copied, which nobody checks, and left to Ask to show.
RestoresFocus ==
  /\ At("restore")
  /\ \/ effect.guarded /\ focus' = "target" /\ To("check")
     \/ To("copyBlind") /\ UNCHANGED focus
  /\ UNCHANGED <<text, stream, chosen, moves, aborted, effect, stale>>

Replaces == op.intent.placement = "ReplaceSelection"

\* execute_insert, execute_replacement
ChecksTarget ==
  /\ At("check")
  /\ CASE ~Sees /\ ~Replaces              -> To("copyBlind")
       [] Replaces /\ (~Sees \/ ~op.available) -> To("popupInstead")
       [] OTHER                           -> To("insert")
  /\ UNCHANGED <<text, stream, user, effect, stale>>

CopiesBlindly ==
  /\ At("copyBlind") /\ To("finish")
  /\ \/ Effects([effect EXCEPT !.clipboard = "whole", !.history = "copied"])
     \/ Effects([effect EXCEPT !.copyFailed = TRUE, !.history = "copied"])
  /\ UNCHANGED <<text, stream, user, stale>>

\* output_text looks once more, and copies if the target is gone.
Inserts ==
  /\ At("insert")
  /\ IF Sees
     THEN To("type") /\ stale' = stale \ {"focus"} /\ UNCHANGED effect
     ELSE /\ To("inserted") /\ UNCHANGED stale
          /\ \/ Effects([effect EXCEPT !.clipboard = "whole"])
             \/ UNCHANGED effect
  /\ UNCHANGED <<text, stream, user>>

\* It is typed or pasted where the user is now; copied; or it fails.
PutsIt ==
  /\ At("type") /\ To("inserted")
  /\ \/ Effects([effect EXCEPT !.target = "whole", !.astray = (focus # "target"),
                   !.overwrote = IF Replaces THEN chosen ELSE "none"])
     \/ Effects([effect EXCEPT !.clipboard = "whole"])
     \/ UNCHANGED effect
  /\ UNCHANGED <<text, stream, user, stale>>

Inserted ==
  /\ At("inserted")
  /\ IF effect.target = "whole" THEN To("finish")
     ELSE IF Replaces THEN To("popupInstead")
     ELSE IF effect.clipboard = "whole" THEN To("copied")
     ELSE To("copy")
  /\ UNCHANGED <<text, stream, user, effect, stale>>

\* popup_or_copy
PopsUp ==
  /\ op.pc \in {"popup", "popupInstead"}
  /\ \/ /\ PopupEnabled /\ To("finish")
        /\ Effects([effect EXCEPT !.popup = "answer",
                      !.history = IF At("popup") THEN "none" ELSE "fallback"])
     \/ To(IF effect.clipboard = "whole" THEN "copied" ELSE "copy") /\ UNCHANGED effect
  /\ UNCHANGED <<text, stream, user, stale>>

Copies ==
  /\ At("copy")
  /\ \/ To("copied") /\ Effects([effect EXCEPT !.clipboard = "whole"])
     \/ To("finish") /\ Effects([effect EXCEPT !.history = "fallback", !.copyFailed = TRUE])
  /\ UNCHANGED <<text, stream, user, stale>>

Copied ==
  /\ At("copied") /\ To("finish") /\ Effects([effect EXCEPT !.history = "copied"])
  /\ UNCHANGED <<text, stream, user, stale>>

\* The words themselves: output_text, whose failure is only reported.
OutputsRaw ==
  /\ At("raw")
  /\ \E where \in {"target", "clipboard", "nowhere"} :
       Done([effect EXCEPT !.target = IF where = "target" THEN "raw" ELSE @,
                           !.clipboard = IF where = "clipboard" THEN "raw" ELSE @])
  /\ UNCHANGED <<text, stream, user, stale>>

\* save_history; Ask shows a result that was not inserted (from_draft_execution).
Finishes ==
  /\ At("finish")
  /\ Done([effect EXCEPT !.popup =
             IF op.mode = "Ask" /\ effect.target # "whole" THEN "answer" ELSE @])
  /\ UNCHANGED <<text, stream, user, stale>>

ExecutionStep ==
  \/ Recaptures \/ RestoresFocus \/ ChecksTarget \/ CopiesBlindly \/ Inserts \/ PutsIt
  \/ Inserted \/ PopsUp \/ Copies \/ Copied \/ OutputsRaw \/ Finishes
ModelStep ==
  \/ Speaks \/ Searches \/ Answers \/ DraftBegins \/ WithoutModel \/ AsksModel
  \/ ModelSends \/ ModelEnds \/ Joins \/ JoinsEmpty \/ Suffix \/ CopiesOnly
WorkerStep == WorkerTakes \/ WorkerChecks \/ WorkerTypes \/ WorkerEnds
-----------------------------------------------------------------------------
(* The user *)

Moves ==
  /\ op.pc \notin {"idle", "done"} /\ moves < MaxMoves /\ moves' = moves + 1
  /\ \/ focus' = (IF focus = "target" THEN "other" ELSE "target")
        /\ stale' = stale \cup {"focus"} /\ UNCHANGED chosen
     \/ chosen' = "else" /\ stale' = stale \cup {"selection"} /\ UNCHANGED focus
  /\ UNCHANGED <<op, text, stream, aborted, effect>>

Aborts ==
  /\ op.pc \notin {"idle", "done"} /\ ~aborted /\ aborted' = TRUE
  /\ UNCHANGED <<op, text, stream, focus, chosen, moves, effect, stale>>

PlaceNext == ModelStep \/ WorkerStep \/ ExecutionStep \/ Moves \/ Aborts

PlaceSpec == PlaceInit /\ [][PlaceNext]_placeVars
-----------------------------------------------------------------------------
(* Properties *)

PlaceTypeOK ==
  /\ op.mode \in {"none", "Dictate", "Ask", "Translate"} /\ op.flags \subseteq Features
  /\ text \in {"none", "streamed", "other", "empty"}
  /\ stream.taken \in 0..stream.sent /\ stream.placed \in 0..stream.taken
  /\ stream.sent \in 0..Chunks /\ stream.part \in BOOLEAN
  /\ focus \in {"target", "other"} /\ chosen \in {"same", "else"}
  /\ effect.target \in {"none", "part", "whole", "raw"}
  /\ effect.clipboard \in {"none", "part", "whole", "raw"}
  /\ effect.popup \in {"none", "answer", "error", "searched"}
  /\ effect.history \in {"none", "fallback", "copied", "partial"}

\* A selection is overwritten only for Translate, or for a command to rewrite or
\* to translate that was meant as one, whose feature is on; a search is opened
\* and a draft is written only for what was meant so. And a text that is put
\* out at once goes into another application, or over another selection, only
\* if the user moves after the last look at them, or the target was never known.
PlacedWhereAllowed ==
  /\ effect.overwrote # "none" =>
       /\ op.selected
       /\ \/ op.mode = "Translate" /\ "translate" \in op.flags
          \/ "translateTo" \in op.may /\ "translate" \in op.flags
          \/ "rewrite" \in op.may /\ "rewrite" \in op.flags
  /\ effect.popup = "searched" => op.mode = "Ask" /\ "search" \in op.flags
                                  /\ op.may \cap {"search", "on"} # {}
  /\ op.intent.kind = "DraftInsert" => op.may \cap {"draft", "maybe"} # {}
  /\ effect.astray => "focus" \in stale \/ ~effect.guarded
  /\ effect.overwrote = "else" => "selection" \in stale

\* What the model has written is not lost: unless the user aborts or a copy
\* fails, it ends in the application, on the clipboard or in a window, in
\* whole; and a history entry that reports nothing is about such an end.
NothingLost ==
  At("done") /\ text \in {"streamed", "other"} /\ ~aborted =>
    /\ \/ effect.target = "whole" \/ effect.clipboard = "whole" \/ effect.popup = "answer"
       \/ effect.copyFailed
    /\ effect.history = "none" => effect.target = "whole" \/ effect.popup = "answer"
=============================================================================
