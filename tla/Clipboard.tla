------------------------------ MODULE Clipboard ------------------------------
(***************************************************************************)
(* The clipboard as the program uses it: the restore threads of            *)
(* src-tauri/src/output/clipboard.rs, which put back what was there before *)
(* a text was pasted, and the capture of the selected text of              *)
(* src-tauri/src/selection.rs, which borrows the clipboard for a copy.     *)
(* The user copies at any time.                                            *)
(***************************************************************************)
EXTENDS Naturals, Sequences

CONSTANTS
  MaxOutputs,  \* bound on the texts that are output in a behaviour
  MaxCopies,   \* bound on the copies the user makes
  MaxCaptures  \* bound on the captures of the selection

ASSUME ClipboardAssumption ==
  MaxOutputs \in Nat /\ MaxCopies \in Nat /\ MaxCaptures \in Nat

Outputs == 1..MaxOutputs

\* What a clipboard can hold.
UserText(n) == <<"user", n>>
OutText(o)  == <<"out", o>>
Selection   == <<"selection", 0>>
Sentinel    == <<"sentinel", 0>>
Empty       == <<"empty", 0>>
Image       == <<"image", 0>>

Contents == {UserText(n) : n \in 0..MaxCopies} \cup {OutText(o) : o \in Outputs}
            \cup {Selection, Sentinel, Empty, Image}

\* clipboard.get_text().ok()
NoText == <<"none", 0>>
TextOf(content) == IF content = Image THEN NoText ELSE content

VARIABLES
  clip,      \* what the clipboard holds
  batch,     \* PENDING_CLIPBOARD_RESTORE
  restore,   \* the restore thread of each output
  capture,   \* capture_selected_text
  copies, captures,  \* how many there have been
  \* history, for the properties
  kept,      \* what the user, or an output that was to stay there, put there last
  mistaken,  \* texts of pastes that a later paste has taken for the user's since then
  excused    \* something happened that the code does not promise to survive

clipVars == <<clip, batch, restore, capture, copies, captures, kept, mistaken, excused>>

NoBatch == [latest |-> 0, original |-> NoText]
NoRestore == [pc |-> "none", original |-> NoText, current |-> NoText]

ClipInit ==
  /\ clip \in {UserText(0), Image}
  /\ batch = NoBatch
  /\ restore = [o \in Outputs |-> NoRestore]
  /\ capture = [pc |-> "none", backup |-> NoText, found |-> NoText]
  /\ copies = 0 /\ captures = 0
  /\ kept = clip /\ mistaken = {} /\ excused = FALSE

Excuse(condition) == excused' = (excused \/ condition)

\* What is on the clipboard now is to stay there.
StaysThere == kept' = clip' /\ mistaken' = {}
keptVars == <<kept, mistaken>>
-----------------------------------------------------------------------------
(* The restore of the clipboard *)

RemembersOwn(o, previous) ==                                          \* mutant
  /\ batch' = [latest |-> o, original |-> previous]
  /\ restore' = [restore EXCEPT ![o] = [@ EXCEPT !.pc = "sleep", !.original = previous]]

\* remember_pending_clipboard_restore: a paste that follows another, whose
\* restore is still to come, inherits what was there before the first of them.
Remembers(o, previous) ==
  LET original == IF batch = NoBatch THEN previous ELSE batch.original
  IN  /\ batch' = [latest |-> o, original |-> original]
      /\ restore' = [restore EXCEPT ![o] = [@ EXCEPT !.pc = "sleep", !.original = original]]

RestoreGoes(o, from, to) ==
  /\ restore[o].pc = from
  /\ restore' = [restore EXCEPT ![o] =
                  IF to = "over" THEN [NoRestore EXCEPT !.pc = "over"] ELSE [@ EXCEPT !.pc = to]]

\* After 750 ms: is_latest_clipboard_restore; a clipboard that cannot be opened
\* ends the batch.
RestoreLooks(o) ==
  /\ \/ /\ RestoreGoes(o, "sleep", IF batch.latest = o THEN "read" ELSE "over")
        /\ UNCHANGED excused
     \/ /\ RestoreGoes(o, "sleep", "clear") /\ batch.latest = o
        /\ Excuse(TRUE)
  /\ UNCHANGED <<clip, batch, capture, copies, captures, keptVars>>

RestoreReads(o) ==
  /\ restore[o].pc = "read"
  /\ restore' = [restore EXCEPT ![o] = [@ EXCEPT !.pc = "decide", !.current = TextOf(clip)]]
  /\ Excuse(capture.pc # "none")
  /\ UNCHANGED <<clip, batch, capture, copies, captures, keptVars>>

\* clipboard_restore_decision: only a clipboard that still holds the text that
\* was pasted is overwritten, and only if it held a text before.
Restores(o) == restore[o].current = OutText(o) /\ restore[o].original # NoText

\* A write of the clipboard that comes now will be overwritten.
RestoreWrites == \E o \in Outputs : restore[o].pc = "decide" /\ Restores(o)

RestoreDecides(o) ==
  /\ RestoreGoes(o, "decide", "clear")
  /\ IF Restores(o)
     THEN \/ clip' = restore[o].original /\ Excuse(capture.pc # "none")
          \/ UNCHANGED clip /\ Excuse(TRUE)
     ELSE UNCHANGED clip /\ Excuse(restore[o].original = NoText)
  /\ UNCHANGED <<batch, capture, copies, captures, keptVars>>

\* clear_pending_clipboard_restore
RestoreClears(o) ==
  /\ RestoreGoes(o, "clear", "over")
  /\ batch' = IF batch.latest = o THEN NoBatch ELSE batch
  /\ UNCHANGED <<clip, capture, copies, captures, keptVars, excused>>

RestoreStep(o) ==
  RestoreLooks(o) \/ RestoreReads(o) \/ RestoreDecides(o) \/ RestoreClears(o)
-----------------------------------------------------------------------------
(* The user, and the capture of the selection *)

\* A copy is lost if it falls between a look at the clipboard and the write
\* that follows it: `Writes` is the condition that one is to follow.
UserCopies(writes) ==
  /\ copies < MaxCopies
  /\ copies' = copies + 1
  /\ clip' = UserText(copies + 1) /\ StaysThere
  /\ Excuse(writes \/ capture.pc # "none" \/ RestoreWrites)
  /\ UNCHANGED <<batch, restore, capture, captures>>

\* capture_selected_text: what is there is kept aside for a sentinel,
CaptureBegins ==
  /\ captures < MaxCaptures /\ capture.pc = "none"
  /\ captures' = captures + 1
  /\ capture' = [capture EXCEPT !.pc = "copy", !.backup = TextOf(clip)]
  /\ \/ clip' = Sentinel /\ UNCHANGED excused
     \/ UNCHANGED clip /\ Excuse(TRUE)
  /\ UNCHANGED <<batch, restore, copies, keptVars>>

\* the application copies its selection, if there is one,
CaptureCopies ==
  /\ capture.pc = "copy"
  /\ capture' = [capture EXCEPT !.pc = "read"]
  /\ clip' \in {clip, Selection}
  /\ UNCHANGED <<batch, restore, copies, captures, keptVars, excused>>

CaptureReads ==
  /\ capture.pc = "read"
  /\ capture' = [capture EXCEPT !.pc = "restore", !.found = TextOf(clip)]
  /\ UNCHANGED <<clip, batch, restore, copies, captures, keptVars, excused>>

\* and what was kept comes back; what was not text is lost.
CaptureEnds ==
  /\ capture.pc = "restore"
  /\ capture' = [capture EXCEPT !.pc = "none", !.backup = NoText]
  /\ \/ /\ clip' = IF capture.backup = NoText THEN Empty ELSE capture.backup
        /\ Excuse(capture.backup = NoText)
     \/ UNCHANGED clip /\ Excuse(TRUE)
  /\ UNCHANGED <<batch, restore, copies, captures, keptVars>>

CaptureStep == CaptureBegins \/ CaptureCopies \/ CaptureReads \/ CaptureEnds

ClipTypeOK ==
  /\ clip \in Contents /\ kept \in Contents /\ mistaken \subseteq Contents
  /\ batch.latest \in 0..MaxOutputs /\ batch.original \in Contents \cup {NoText}
  /\ \A o \in Outputs :
       /\ restore[o].pc \in {"none", "sleep", "read", "decide", "clear", "over"}
       /\ {restore[o].original, restore[o].current} \subseteq Contents \cup {NoText}
  /\ capture.pc \in {"none", "copy", "read", "restore"}
  /\ copies \in 0..MaxCopies /\ captures \in 0..MaxCaptures

ClipAtRest ==
  capture.pc = "none" /\ \A o \in Outputs : restore[o].pc \in {"none", "over"}
=============================================================================
