----------------------------- MODULE TextOutput -----------------------------
(***************************************************************************)
(* How a text reaches the application (src-tauri/src/output): it is typed  *)
(* (keyboard.rs), sent as Windows input (windows_sendinput.rs), pasted or  *)
(* only copied (clipboard.rs), with the fallbacks of mod.rs between them,  *)
(* and the choice that output_text of pipeline.rs makes before.            *)
(*                                                                         *)
(* Outputs come one after another; what they leave running -- a restore of *)
(* the clipboard, a macOS main thread that still types -- goes on          *)
(* meanwhile, and the application takes its keystrokes when it likes.      *)
(***************************************************************************)
EXTENDS Clipboard

CONSTANT Units  \* chunks and newlines a text is typed as

ASSUME UnitsAssumption == Units \in Nat

\* X11 is Windows without SendInput, which fails there, as it may on Windows.
Platforms  == {"mac", "windows", "wayland"}
Strategies == {"auto", "keyboard", "sendInput", "paste", "copy"}
NeedsKeyboard(s) == s \in {"auto", "keyboard", "sendInput"}

VARIABLES
  platform,
  restores,  \* restore_clipboard_after_paste
  call,      \* the output that runs: its number, strategy and pc
  way,       \* the strategy each output began with
  typist,    \* the thread that types the text of each output
  typed,     \* units of each output the application has got as keystrokes
  torn,      \* the outputs of which it has also got the start of the next unit
  sent,      \* the outputs whose paste (Ctrl+V) the application has got
  result     \* what output_with_strategy returned

outVars == <<platform, restores, call, way, typist, typed, torn, sent, result>>
textVars == <<clipVars, outVars>>

TextInit ==
  /\ ClipInit
  /\ platform \in Platforms /\ restores \in BOOLEAN
  /\ call = [n |-> 0, strategy |-> "none", pc |-> "none", previous |-> NoText, raced |-> FALSE]
  /\ way = [t \in Outputs |-> "none"] /\ typist = way /\ result = way
  /\ typed = [t \in Outputs |-> 0]
  /\ torn = {} /\ sent = {}

Running == call.pc # "none"
Current == call.n

Goes(from, to) == call.pc = from /\ call' = [call EXCEPT !.pc = to]

Returns(status) ==
  /\ call' = [call EXCEPT !.pc = "none", !.previous = NoText, !.raced = FALSE]
  /\ result' = [result EXCEPT ![Current] = status]

world == <<platform, restores, way>>
screen == <<typist, typed, torn, sent>>
-----------------------------------------------------------------------------
(* output_text: a target that is gone, and no permission to type, leave the  *)
(* copy; Wayland has no keyboard.                                            *)

Effective(requested, targetHere, trusted) ==
  IF ~targetHere \/ (platform = "mac" /\ ~trusted) THEN "copy"
  ELSE IF platform = "wayland" /\ NeedsKeyboard(requested) THEN "paste"
  ELSE requested

\* output_with_strategy_using
FirstPc(strategy) ==
  CASE strategy \in {"paste", "copy"} -> "open"
    [] strategy = "sendInput"         -> "sending"
    [] OTHER                          -> "typing"

Begins(requested, targetHere, trusted) ==
  /\ ~Running /\ Current < MaxOutputs
  /\ LET n == Current + 1
         strategy == Effective(requested, targetHere, trusted)
     IN  /\ call' = [n |-> n, strategy |-> strategy, pc |-> FirstPc(strategy),
                     previous |-> NoText, raced |-> FALSE]
         /\ way' = [way EXCEPT ![n] = strategy]
         /\ typist' = [typist EXCEPT ![n] = IF FirstPc(strategy) = "open" THEN @ ELSE "ready"]
  /\ UNCHANGED <<clipVars, platform, restores, typed, torn, sent, result>>
-----------------------------------------------------------------------------
(* type_text_sync and type_unicode_chunk_with_options: the thread that types *)
(* unit after unit, and stops at the first one that fails.                   *)

TypistGoes(t, to) == typist' = [typist EXCEPT ![t] = to]

\* The modifiers stay down, Enigo fails, or SendInput is not there.
TypistCannot(t) ==
  /\ typist[t] = "ready"
  /\ TypistGoes(t, "failed")
  /\ UNCHANGED <<clipVars, world, call, typed, torn, sent, result>>

\* Only one task at a time runs on the main thread of macOS.
OneMainThread(t) == platform = "mac" => \A u \in 1..t-1 : typist[u] # "types"

Sending == call.strategy = "sendInput"

TypistStarts(t) ==
  /\ typist[t] = "ready" /\ OneMainThread(t)
  /\ Sending => platform = "windows"
  /\ TypistGoes(t, IF Units = 0 THEN "done" ELSE "types")
  /\ UNCHANGED <<clipVars, world, call, typed, torn, sent, result>>

TypesOn(t) ==                                                         \* mutant
  /\ typist[t] = "types" /\ typed[t] <= Units
  /\ typed' = [typed EXCEPT ![t] = @ + 1]
  /\ TypistGoes(t, IF typed[t] + 1 > Units THEN "done" ELSE "types")
  /\ UNCHANGED <<clipVars, world, call, torn, sent, result>>

Types(t) ==
  /\ typist[t] = "types"
  /\ typed' = [typed EXCEPT ![t] = @ + 1]
  /\ TypistGoes(t, IF typed[t] + 1 = Units THEN "done" ELSE "types")
  /\ UNCHANGED <<clipVars, world, call, torn, sent, result>>

\* A unit is several key events, each of which may fail: a key that went down
\* and not up again, the first half of a pair, are not counted.
TypeFails(t) ==
  /\ typist[t] = "types"
  /\ TypistGoes(t, "failed")
  /\ torn' \in {torn, torn \cup {t}}
  /\ UNCHANGED <<clipVars, world, call, typed, sent, result>>

TypistStep ==
  \E t \in Outputs : TypistCannot(t) \/ TypistStarts(t) \/ Types(t) \/ TypeFails(t)
-----------------------------------------------------------------------------
(* output_with_strategy_using: what follows the typing *)

\* Typed in full; else everything is pasted.
HearsKeyboard ==
  /\ call.pc = "typing"
  /\ \/ typist[Current] = "done" /\ Returns("typed")
     \/ typist[Current] = "failed" /\ Goes("typing", "open") /\ UNCHANGED result
  /\ UNCHANGED <<clipVars, world, screen>>

\* macOS: the call waits for the main thread 30 to 300 seconds; the task stays.
KeyboardTimesOut ==
  /\ Goes("typing", "open")
  /\ platform = "mac" /\ typist[Current] \in {"ready", "types"}
  /\ UNCHANGED <<clipVars, world, screen, result>>

HearsSendInputPastes ==                                               \* mutant
  /\ call.pc = "sending"
  /\ \/ typist[Current] = "done" /\ Returns("typed")
     \/ typist[Current] = "failed" /\ Goes("sending", "open") /\ UNCHANGED result
  /\ UNCHANGED <<clipVars, world, screen>>

\* map_sendinput_result: a text that was sent in part is copied, not pasted.
HearsSendInput ==
  /\ call.pc = "sending"
  /\ \/ typist[Current] = "done" /\ Returns("typed")
     \/ /\ typist[Current] = "failed"
        /\ call' = [call EXCEPT !.pc = "open",
                                !.strategy = IF typed[Current] > 0 THEN "copy" ELSE @]
        /\ UNCHANGED result
  /\ UNCHANGED <<clipVars, world, screen>>
-----------------------------------------------------------------------------
(* ClipboardOutput::type_text *)

PasteOpens ==
  /\ call.pc = "open"
  /\ \/ Returns("error")
     \/ /\ call' = [call EXCEPT !.pc = "set", !.previous = TextOf(clip)]
        /\ UNCHANGED result
  /\ UNCHANGED <<clipVars, world, screen>>

\* The text is copied, and that is all on Wayland or if nothing is to be pasted.
CopyIsAll == call.strategy = "copy" \/ platform = "wayland"

\* `raced`: a restore is about to overwrite the text.
PasteSets ==
  /\ call.pc = "set"
  /\ \/ Returns("error") /\ UNCHANGED <<clip, keptVars, excused>>
     \/ /\ clip' = OutText(Current)
        /\ IF CopyIsAll
           THEN Returns("copied") /\ StaysThere /\ Excuse(RestoreWrites)
           ELSE /\ call' = [call EXCEPT !.pc = "paste", !.raced = RestoreWrites]
                /\ UNCHANGED <<result, keptVars, excused>>
  /\ UNCHANGED <<batch, restore, capture, copies, captures, world, screen>>

\* simulate_paste: a key that fails leaves the text on the clipboard -- the
\* release of a modifier fails after the application has got the paste.
PasteFails ==
  /\ call.pc = "paste"
  /\ Returns("copied")
  /\ sent' \in {sent, sent \cup {Current}}
  /\ UNCHANGED <<clip, batch, restore, capture, copies, captures, world, typist, typed, torn>>
  /\ StaysThere /\ Excuse(call.raced)

PasteSent ==
  /\ Goes("paste", "schedule")
  /\ sent' = sent \cup {Current}
  /\ UNCHANGED <<clipVars, world, typist, typed, torn, result>>

Pasted == {OutText(t) : t \in sent} \ {kept}

\* schedule_clipboard_restore, if the clipboard is to be restored. A batch that
\* has ended since PasteOpens leaves its last text as what was there before; a
\* copy between two pastes of a batch is not what the batch remembers.

PasteSchedules ==
  /\ call.pc = "schedule"
  /\ Returns("pasted")
  /\ UNCHANGED <<clip, capture, copies, captures, world, screen>>
  /\ IF restores
     THEN /\ Remembers(Current, call.previous)
          /\ mistaken' = mistaken \cup (IF batch = NoBatch THEN {call.previous} \cap Pasted ELSE {})
          /\ Excuse(batch # NoBatch /\ batch.original \notin {kept} \cup mistaken)
          /\ UNCHANGED kept
     ELSE StaysThere /\ UNCHANGED <<batch, restore, excused>>

OutputStep ==
  \/ HearsKeyboard \/ KeyboardTimesOut \/ HearsSendInput
  \/ PasteOpens \/ PasteSets \/ PasteFails \/ PasteSent \/ PasteSchedules
-----------------------------------------------------------------------------
(* The threads and the user meanwhile *)

Background ==
  /\ \/ (\E t \in Outputs : RestoreStep(t))
     \/ UserCopies(call.pc = "set")
     \/ ~Running /\ CaptureStep
  /\ UNCHANGED outVars

TextNext ==
  \/ \E s \in Strategies, here, trusted \in BOOLEAN :
       capture.pc = "none" /\ Begins(s, here, trusted)
  \/ TypistStep \/ OutputStep \/ Background

TextSpec == TextInit /\ [][TextNext]_textVars
-----------------------------------------------------------------------------
(* Properties *)

TextTypeOK ==
  /\ ClipTypeOK
  /\ platform \in Platforms /\ restores \in BOOLEAN
  /\ call.n \in 0..MaxOutputs /\ call.strategy \in Strategies \cup {"none"}
  /\ call.pc \in {"none", "typing", "sending", "open", "set", "paste", "schedule"}
  /\ \A t \in Outputs :
       /\ typist[t] \in {"none", "ready", "types", "done", "failed"}
       /\ typed[t] \in 0..Units /\ torn \subseteq Outputs
       /\ result[t] \in {"none", "typed", "pasted", "copied", "error"}

\* When nothing runs any more, the clipboard holds what was put there last to
\* stay -- a copy of the user, or an output that is only copied or whose paste
\* fails: pastes leave no trace, however many there are in one batch and
\* however they overlap the restore of another.  One exception the code has: a
\* paste finds the text of the one before it, whose restore then ends the batch
\* before the paste is scheduled; it takes that text for what was there and puts
\* it back (`mistaken`), and the user's is lost.
\* What is not followed (`excused`): an image, a clipboard that fails, a copy
\* between the program's look and its write -- the user's while an output sets
\* its text, the user's or an output's while a restore decides --, a copy
\* between two pastes of one batch, and a selection captured while a restore is
\* on its way.
ClipboardComesBack ==
  ClipAtRest /\ ~Running /\ ~excused => clip \in {kept} \cup mistaken

\* What the application has got of a text as keystrokes, in units and their starts.
UnitsBegun(t) == typed[t] + (IF t \in torn THEN 1 ELSE 0)

\* A text is not put into the application twice, nor into one that is not the
\* target any more: what is reported typed is typed in full, and neither torn
\* nor pasted; what SendInput has typed in part is only copied; an output that
\* is to be a copy touches nothing.  One exception the code has: SendInput fails
\* within the very first unit, whose first key event is sent and not counted,
\* and the whole is pasted after that start.  A keyboard that fails half way, or
\* a macOS main thread that is late, is followed by a paste of the whole, which
\* the code accepts.
NeverTwice ==
  \A t \in Outputs :
    /\ result[t] = "typed" => typed[t] = Units /\ t \notin torn \cup sent
    /\ way[t] = "sendInput" /\ t \in sent => UnitsBegun(t) = 0 \/ (typed[t] = 0 /\ t \in torn)
    /\ way[t] = "copy" => UnitsBegun(t) = 0 /\ t \notin sent
    /\ result[t] = "pasted" => t \in sent
=============================================================================
