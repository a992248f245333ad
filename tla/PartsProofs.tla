---------------------------- MODULE PartsProofs -----------------------------
(***************************************************************************)
(* Theorems about the parts that the pipeline calls.  A text from the      *)
(* microphone to the application: TextOutput, which does not put a text    *)
(* into the application twice and brings the clipboard back, for every     *)
(* number of outputs, of copies of the user and of captures, and every     *)
(* length of a text; VoiceRoute and Placement, what the router may make of *)
(* an utterance, for every utterance, language and set of features, and    *)
(* where the text of an operation is put, for every number of chunks and   *)
(* of moves of the user; SttSession, what is heard of a recording, for     *)
(* every number of chunks and of messages on their way, and every size of  *)
(* the blocks and of the buffer.  Then Parts, which puts these, those of   *)
(* StorageProofs and that of KeyboardProofs side by side.                  *)
(***************************************************************************)
EXTENDS Parts, StorageProofs, KeyboardProofs, TLAPS

-----------------------------------------------------------------------------
(* TextOutput                                                                *)

TypistPc == {"none", "ready", "types", "done", "failed"}
Pasting  == {"open", "set", "paste", "schedule"}
CallPc   == {"none", "typing", "sending"} \cup Pasting
Results  == {"none", "typed", "pasted", "copied", "error"}

CallTyped ==
  /\ call = [n |-> call.n, strategy |-> call.strategy, pc |-> call.pc, previous |-> call.previous,
             raced |-> call.raced]
  /\ call.n \in 0..MaxOutputs /\ call.pc \in CallPc
  /\ call.pc # "none" => call.n \in Outputs

OutputTyped ==
  /\ CallTyped
  /\ way \in [Outputs -> Strategies \cup {"none"}]
  /\ typist \in [Outputs -> TypistPc] /\ result \in [Outputs -> Results]
  /\ typed \in [Outputs -> Nat] /\ torn \subseteq Outputs /\ sent \subseteq Outputs

\* A typist counts the units the application has got.
TypistKnown == \A t \in Outputs :
  /\ typist[t] \in {"none", "ready"} => typed[t] = 0
  /\ typist[t] = "types" => typed[t] < Units
  /\ typist[t] = "done" => typed[t] = Units
  /\ t \in torn => typist[t] = "failed"
  /\ typed[t] <= Units

\* Outputs come one after another.
OthersUntouched == \A t \in Outputs :
  /\ t > call.n => way[t] = "none" /\ typist[t] = "none" /\ t \notin sent /\ result[t] = "none"
  /\ t = call.n /\ call.pc # "none" => result[t] = "none"
  /\ t = call.n /\ call.pc \notin {"none", "schedule"} => t \notin sent
  /\ t = call.n /\ call.pc = "schedule" => t \in sent

\* How an output began tells what it may still do.
WayKept == \A t \in Outputs :
  /\ way[t] \in {"paste", "copy"} => typist[t] = "none"
  /\ t = call.n /\ call.pc = "typing" => way[t] \notin {"paste", "copy", "sendInput"}
  /\ t = call.n /\ call.pc = "sending" => way[t] = "sendInput"
  /\ t = call.n /\ call.pc \in Pasting /\ way[t] = "copy" => call.strategy = "copy"
  /\ t = call.n /\ call.pc \in Pasting /\ way[t] = "sendInput" =>
       typist[t] = "failed" /\ (typed[t] = 0 \/ call.strategy = "copy")
  /\ t = call.n /\ call.pc \in {"paste", "schedule"} => call.strategy # "copy"
  /\ t \in sent /\ way[t] = "sendInput" => typist[t] = "failed" /\ typed[t] = 0
  /\ t \in sent => way[t] # "copy"

ResultsKnown == \A t \in Outputs :
  /\ result[t] = "typed" => typist[t] = "done" /\ t \notin sent
  /\ result[t] = "pasted" => t \in sent

OutputInv == OutputTyped /\ TypistKnown /\ OthersUntouched /\ WayKept /\ ResultsKnown

USE UnitsAssumption, ClipboardAssumption
USE DEF outVars, world, screen, Running, Current, Outputs
-----------------------------------------------------------------------------
LEMMA OutputInitially == TextInit => OutputInv
  BY DEF TextInit, OutputInv, OutputTyped, CallTyped, TypistKnown, OthersUntouched, WayKept,
         ResultsKnown, CallPc, Pasting, Results, TypistPc

LEMMA OutputStays == OutputInv /\ UNCHANGED outVars => OutputInv'
  BY DEF OutputInv, OutputTyped, CallTyped, TypistKnown, OthersUntouched, WayKept, ResultsKnown

LEMMA OutputBegins ==
  ASSUME OutputInv, NEW s \in Strategies, NEW here \in BOOLEAN, NEW trusted \in BOOLEAN,
         Begins(s, here, trusted)
  PROVE  OutputInv'
<1> USE DEF OutputInv, OutputTyped, CallTyped, TypistKnown, OthersUntouched, WayKept, ResultsKnown,
            CallPc, Pasting, TypistPc, Strategies
<1> DEFINE n == call.n + 1
           strategy == Effective(s, here, trusted)
<1>1. strategy \in Strategies
  BY DEF Effective
<1>2. /\ call.pc = "none" /\ n \in Outputs
      /\ call' = [n |-> n, strategy |-> strategy, pc |-> FirstPc(strategy), previous |-> NoText,
                  raced |-> FALSE]
      /\ way' = [way EXCEPT ![n] = strategy]
      /\ typist' = [typist EXCEPT ![n] = IF FirstPc(strategy) = "open" THEN @ ELSE "ready"]
      /\ UNCHANGED <<typed, torn, sent, result>>
  BY DEF Begins
<1>3. /\ FirstPc(strategy) \in {"open", "sending", "typing"}
      /\ FirstPc(strategy) = "open" <=> strategy \in {"paste", "copy"}
      /\ FirstPc(strategy) = "sending" <=> strategy = "sendInput"
  BY <1>1 DEF FirstPc
<1> HIDE DEF strategy
<1>4. QED
  BY <1>1, <1>2, <1>3

LEMMA OutputTypes ==
  ASSUME OutputInv, TypistStep
  PROVE  OutputInv'
<1> USE DEF OutputInv, OutputTyped, CallTyped, TypistKnown, OthersUntouched, WayKept, ResultsKnown,
            CallPc, Pasting, TypistPc, TypistGoes
<1>1. ASSUME NEW t \in Outputs, TypistCannot(t) PROVE OutputInv'
  BY <1>1 DEF TypistCannot
<1>2. ASSUME NEW t \in Outputs, TypistStarts(t) PROVE OutputInv'
  BY <1>2 DEF TypistStarts
<1>3. ASSUME NEW t \in Outputs, Types(t) PROVE OutputInv'
  BY <1>3 DEF Types
<1>4. ASSUME NEW t \in Outputs, TypeFails(t) PROVE OutputInv'
  BY <1>4 DEF TypeFails
<1>5. QED
  BY <1>1, <1>2, <1>3, <1>4 DEF TypistStep

LEMMA OutputGoesOn ==
  ASSUME OutputInv, OutputStep
  PROVE  OutputInv'
<1> USE DEF OutputInv, OutputTyped, CallTyped, TypistKnown, OthersUntouched, WayKept, ResultsKnown,
            CallPc, Pasting, Results, TypistPc, Goes, Returns
<1>1. CASE HearsKeyboard
  <2>1. call.pc = "typing" /\ UNCHANGED <<way, typist, typed, torn, sent>>
    BY <1>1 DEF HearsKeyboard
  <2>2. CASE typist[call.n] = "done" /\ Returns("typed")
    <3>1. OutputTyped'
      BY <2>1, <2>2
    <3>2. TypistKnown' /\ OthersUntouched'
      BY <2>1, <2>2
    <3>3. WayKept'
      BY <2>1, <2>2
    <3>4. ResultsKnown'
      BY <2>1, <2>2
    <3>5. QED
      BY <3>1, <3>2, <3>3, <3>4
  <2>3. CASE Goes("typing", "open") /\ UNCHANGED result
    <3>1. OutputTyped'
      BY <2>1, <2>3
    <3>2. TypistKnown' /\ OthersUntouched'
      BY <2>1, <2>3
    <3>3. WayKept'
      BY <2>1, <2>3
    <3>4. ResultsKnown'
      BY <2>1, <2>3
    <3>5. QED
      BY <3>1, <3>2, <3>3, <3>4
  <2>4. QED
    BY <1>1, <2>2, <2>3 DEF HearsKeyboard
<1>2. CASE KeyboardTimesOut
  BY <1>2 DEF KeyboardTimesOut
<1>3. CASE HearsSendInput
  <2>1. call.pc = "sending" /\ UNCHANGED <<way, typist, typed, torn, sent>>
    BY <1>3 DEF HearsSendInput
  <2>2. CASE typist[call.n] = "done" /\ Returns("typed")
    <3>1. OutputTyped'
      BY <2>1, <2>2
    <3>2. TypistKnown' /\ OthersUntouched'
      BY <2>1, <2>2
    <3>3. WayKept'
      BY <2>1, <2>2
    <3>4. ResultsKnown'
      BY <2>1, <2>2
    <3>5. QED
      BY <3>1, <3>2, <3>3, <3>4
  <2>3. CASE /\ typist[call.n] = "failed"
              /\ call' = [call EXCEPT !.pc = "open",
                                      !.strategy = IF typed[call.n] > 0 THEN "copy" ELSE @]
              /\ UNCHANGED result
    <3>1. OutputTyped'
      BY <2>1, <2>3
    <3>2. TypistKnown' /\ OthersUntouched'
      BY <2>1, <2>3
    <3>3. WayKept'
      BY <2>1, <2>3
    <3>4. ResultsKnown'
      BY <2>1, <2>3
    <3>5. QED
      BY <3>1, <3>2, <3>3, <3>4
  <2>4. QED
    BY <1>3, <2>2, <2>3 DEF HearsSendInput
<1>4. CASE PasteOpens
  <2>1. call.pc = "open" /\ UNCHANGED <<way, typist, typed, torn, sent>>
    BY <1>4 DEF PasteOpens
  <2>2. CASE Returns("error")
    <3>1. OutputTyped'
      BY <2>1, <2>2
    <3>2. TypistKnown' /\ OthersUntouched'
      BY <2>1, <2>2
    <3>3. WayKept'
      BY <2>1, <2>2
    <3>4. ResultsKnown'
      BY <2>1, <2>2
    <3>5. QED
      BY <3>1, <3>2, <3>3, <3>4
  <2>3. CASE call' = [call EXCEPT !.pc = "set", !.previous = TextOf(clip)] /\ UNCHANGED result
    <3>1. OutputTyped'
      BY <2>1, <2>3
    <3>2. TypistKnown' /\ OthersUntouched'
      BY <2>1, <2>3
    <3>3. WayKept'
      BY <2>1, <2>3
    <3>4. ResultsKnown'
      BY <2>1, <2>3
    <3>5. QED
      BY <3>1, <3>2, <3>3, <3>4
  <2>4. QED
    BY <1>4, <2>2, <2>3 DEF PasteOpens
<1>5. CASE PasteSets
  <2>1. call.pc = "set" /\ UNCHANGED <<way, typist, typed, torn, sent>>
    BY <1>5 DEF PasteSets, CopyIsAll
  <2>2. CASE Returns("error")
    <3>1. OutputTyped'
      BY <2>1, <2>2
    <3>2. TypistKnown' /\ OthersUntouched'
      BY <2>1, <2>2
    <3>3. WayKept'
      BY <2>1, <2>2
    <3>4. ResultsKnown'
      BY <2>1, <2>2
    <3>5. QED
      BY <3>1, <3>2, <3>3, <3>4
  <2>3. CASE Returns("copied")
    <3>1. OutputTyped'
      BY <2>1, <2>3
    <3>2. TypistKnown' /\ OthersUntouched'
      BY <2>1, <2>3
    <3>3. WayKept'
      BY <2>1, <2>3
    <3>4. ResultsKnown'
      BY <2>1, <2>3
    <3>5. QED
      BY <3>1, <3>2, <3>3, <3>4
  <2>4. CASE /\ call' = [call EXCEPT !.pc = "paste", !.raced = RestoreWrites]
             /\ UNCHANGED result /\ call.strategy # "copy"
    <3>1. OutputTyped'
      BY <2>1, <2>4
    <3>2. TypistKnown' /\ OthersUntouched'
      BY <2>1, <2>4
    <3>3. WayKept'
      BY <2>1, <2>4
    <3>4. ResultsKnown'
      BY <2>1, <2>4
    <3>5. QED
      BY <3>1, <3>2, <3>3, <3>4
  <2>5. QED
    BY <1>5, <2>2, <2>3, <2>4 DEF PasteSets, CopyIsAll
<1>6. CASE PasteFails
  <2>1. call.pc = "paste" /\ Returns("copied") /\ UNCHANGED <<way, typist, typed, torn>>
    BY <1>6 DEF PasteFails
  <2>2. CASE sent' = sent
    <3>1. OutputTyped'
      BY <2>1, <2>2
    <3>2. TypistKnown' /\ OthersUntouched'
      BY <2>1, <2>2
    <3>3. WayKept'
      BY <2>1, <2>2
    <3>4. ResultsKnown'
      BY <2>1, <2>2
    <3>5. QED
      BY <3>1, <3>2, <3>3, <3>4
  <2>3. CASE sent' = sent \cup {call.n}
    <3>1. OutputTyped'
      BY <2>1, <2>3
    <3>2. TypistKnown' /\ OthersUntouched'
      BY <2>1, <2>3
    <3>3. WayKept'
      BY <2>1, <2>3
    <3>4. ResultsKnown'
      BY <2>1, <2>3
    <3>5. QED
      BY <3>1, <3>2, <3>3, <3>4
  <2>4. QED
    BY <1>6, <2>2, <2>3 DEF PasteFails
<1>7. CASE PasteSent
  <2>1. OutputTyped'
    BY <1>7 DEF PasteSent
  <2>2. TypistKnown' /\ OthersUntouched'
    BY <1>7 DEF PasteSent
  <2>3. WayKept'
    BY <1>7 DEF PasteSent
  <2>4. ResultsKnown'
    BY <1>7 DEF PasteSent
  <2>5. QED
    BY <2>1, <2>2, <2>3, <2>4
<1>8. CASE PasteSchedules
  BY <1>8 DEF PasteSchedules
<1>9. QED
  BY <1>1, <1>2, <1>3, <1>4, <1>5, <1>6, <1>7, <1>8 DEF OutputStep
-----------------------------------------------------------------------------
LEMMA OutputNext == OutputInv /\ [TextNext]_textVars => OutputInv'
  <1>1. ASSUME OutputInv, Background PROVE OutputInv'
    BY <1>1, OutputStays DEF Background
  <1>2. ASSUME OutputInv, UNCHANGED textVars PROVE OutputInv'
    BY <1>2, OutputStays DEF textVars
  <1>3. QED
    BY <1>1, <1>2, OutputBegins, OutputTypes, OutputGoesOn DEF TextNext

\* What is reported typed is typed in full and not pasted; what SendInput has
\* typed in part is only copied; an output that is to be a copy touches nothing;
\* what is reported pasted was.
THEOREM NothingTwice == TextSpec => []NeverTwice
  <1>1. OutputInv => NeverTwice
    <2> SUFFICES ASSUME OutputInv, NEW t \in Outputs
                 PROVE  /\ result[t] = "typed" => typed[t] = Units /\ t \notin torn \cup sent
                        /\ way[t] = "sendInput" /\ t \in sent => typed[t] = 0
                        /\ way[t] = "copy" => typed[t] = 0 /\ t \notin torn \cup sent
                        /\ result[t] = "pasted" => t \in sent
      BY DEF NeverTwice, UnitsBegun
    <2>1. QED
      BY DEF OutputInv, OutputTyped, TypistKnown, WayKept, ResultsKnown
  <1>2. QED
    BY <1>1, OutputInitially, OutputNext, PTL DEF TextSpec
-----------------------------------------------------------------------------

ClipTexts     == Contents \cup {NoText}
RestorePc == {"none", "sleep", "read", "decide", "clear", "over"}
CapturePc == {"none", "copy", "read", "restore"}
Threads == [pc : RestorePc, original : ClipTexts, current : ClipTexts]
RestoreThreads == [Outputs -> Threads]

ClipCalls == [n : 0..MaxOutputs, strategy : Strategies \cup {"none"}, pc : CallPc, previous : ClipTexts,
              raced : BOOLEAN]

ClipTyped ==
  /\ clip \in Contents /\ kept \in Contents /\ mistaken \subseteq Contents /\ excused \in BOOLEAN
  /\ batch \in [latest : 0..MaxOutputs, original : ClipTexts]
  /\ restore \in RestoreThreads
  /\ capture \in [pc : CapturePc, backup : ClipTexts, found : ClipTexts]
  /\ copies \in 0..MaxCopies /\ captures \in 0..MaxCaptures
  /\ platform \in Platforms /\ restores \in BOOLEAN
  /\ call \in ClipCalls
  /\ call.pc # "none" => call.n \in Outputs

LEMMA TextsDiffer ==
  /\ \A o, p \in Outputs : OutText(o) = OutText(p) => o = p
  /\ \A o \in Outputs : /\ OutText(o) \in Contents
                        /\ OutText(o) \notin {NoText, Selection, Sentinel, Empty, Image}
  /\ \A n \in 0..MaxCopies : /\ UserText(n) \in Contents
                             /\ \A o \in Outputs : UserText(n) # OutText(o)
  /\ {Selection, Sentinel, Empty, Image} \subseteq Contents
  /\ NoText \notin Contents
  BY DEF OutText, UserText, NoText, Selection, Sentinel, Empty, Image, Contents

LEMMA TextOfTyped == \A content \in Contents : TextOf(content) \in ClipTexts
  BY TextsDiffer DEF TextOf, ClipTexts

USE DEF ClipTexts, RestorePc, CapturePc

LEMMA ClipInitially == TextInit => ClipTyped
<1> SUFFICES ASSUME TextInit PROVE ClipTyped
  OBVIOUS
<1>1. /\ NoRestore \in Threads /\ excused \in BOOLEAN
      /\ NoBatch \in [latest : 0..MaxOutputs, original : ClipTexts]
  <2>0. excused = FALSE
    BY DEF TextInit, ClipInit
  <2>1. excused \in BOOLEAN
    BY <2>0
  <2>2. QED
    BY <2>1 DEF NoRestore, NoBatch, Threads
<1>2. clip \in Contents
  BY TextsDiffer DEF TextInit, ClipInit
<1>3. /\ restore = [o \in Outputs |-> NoRestore]
      /\ capture \in [pc : CapturePc, backup : ClipTexts, found : ClipTexts]
      /\ call \in ClipCalls /\ call.pc = "none"
      /\ batch = NoBatch /\ copies = 0 /\ captures = 0 /\ kept = clip /\ mistaken = {} /\ excused = FALSE
  BY DEF TextInit, ClipInit, ClipCalls, CallPc, Strategies
<1>4. restore \in RestoreThreads
  BY <1>1, <1>3 DEF RestoreThreads
<1>5. platform \in Platforms /\ restores \in BOOLEAN
  BY DEF TextInit
<1>6. QED
  BY <1>1, <1>2, <1>3, <1>4, <1>5 DEF ClipTyped

LEMMA RestoreGoesTyped ==
  ASSUME restore \in RestoreThreads, NEW o \in Outputs, NEW from, NEW to \in RestorePc,
         RestoreGoes(o, from, to)
  PROVE  restore' \in RestoreThreads
<1> DEFINE thread == IF to = "over" THEN [NoRestore EXCEPT !.pc = "over"]
                                    ELSE [restore[o] EXCEPT !.pc = to]
<1>0. restore[o] \in Threads /\ NoRestore \in Threads
  BY DEF RestoreThreads, Threads, NoRestore
<1>1. thread \in Threads
  BY <1>0 DEF Threads
<1>2. restore' = [restore EXCEPT ![o] = thread]
  BY DEF RestoreGoes, RestoreThreads
<1> HIDE DEF thread
<1>3. QED
  BY <1>1, <1>2 DEF RestoreThreads

LEMMA RestoreTyped ==
  ASSUME ClipTyped, NEW o \in Outputs, RestoreStep(o), UNCHANGED outVars
  PROVE  ClipTyped'
<1> USE DEF ClipTyped, Excuse, keptVars
<1>1. CASE RestoreLooks(o)
  BY <1>1, RestoreGoesTyped DEF RestoreLooks
<1>2. CASE RestoreReads(o)
  <2> DEFINE read == [restore[o] EXCEPT !.pc = "decide", !.current = TextOf(clip)]
  <2>3. restore' = [restore EXCEPT ![o] = read]
    BY <1>2 DEF RestoreReads, RestoreThreads
  <2>4. read \in Threads
    <3>1. restore[o] \in Threads /\ TextOf(clip) \in ClipTexts
      BY TextOfTyped DEF RestoreThreads
    <3>2. QED
      BY <3>1 DEF Threads
  <2> HIDE DEF read
  <2>1. restore' \in RestoreThreads
    BY <2>3, <2>4 DEF RestoreThreads
  <2>2. QED
    BY <1>2, <2>1 DEF RestoreReads
<1>3. CASE RestoreDecides(o)
  <2>1. restore' \in RestoreThreads
    BY <1>3, RestoreGoesTyped DEF RestoreDecides
  <2>2. clip' \in Contents
    BY <1>3 DEF RestoreDecides, Restores, RestoreThreads, Threads
  <2>4. excused' \in BOOLEAN
    BY <1>3 DEF RestoreDecides
  <2>3. QED
    BY <1>3, <2>1, <2>2, <2>4 DEF RestoreDecides
<1>4. CASE RestoreClears(o)
  BY <1>4, RestoreGoesTyped DEF RestoreClears, NoBatch
<1>5. QED
  BY <1>1, <1>2, <1>3, <1>4 DEF RestoreStep

LEMMA MeanwhileTyped ==
  ASSUME ClipTyped, UNCHANGED outVars, (\E w \in BOOLEAN : UserCopies(w)) \/ CaptureStep
  PROVE  ClipTyped'
<1> USE TextsDiffer DEF ClipTyped, Excuse, keptVars, StaysThere
<1>1. CASE \E w \in BOOLEAN : UserCopies(w)
  BY <1>1 DEF UserCopies
<1>2. CASE CaptureBegins
  <2>1. capture' \in [pc : CapturePc, backup : ClipTexts, found : ClipTexts]
    BY <1>2, TextOfTyped DEF CaptureBegins
  <2>2. clip' \in Contents /\ captures' \in 0..MaxCaptures
    BY <1>2, TextsDiffer DEF CaptureBegins
  <2>3. QED
    BY <1>2, <2>1, <2>2 DEF CaptureBegins
<1>3. CASE CaptureCopies
  BY <1>3 DEF CaptureCopies
<1>4. CASE CaptureReads
  BY <1>4, TextOfTyped DEF CaptureReads
<1>5. CASE CaptureEnds
  BY <1>5 DEF CaptureEnds
<1>6. QED
  BY <1>1, <1>2, <1>3, <1>4, <1>5 DEF CaptureStep

LEMMA BeginsTyped ==
  ASSUME ClipTyped, NEW s \in Strategies, NEW here \in BOOLEAN, NEW trusted \in BOOLEAN,
         Begins(s, here, trusted)
  PROVE  ClipTyped'
<1> DEFINE strategy == Effective(s, here, trusted)
<1>1. strategy \in Strategies
  BY DEF Effective, Strategies
<1>2. FirstPc(strategy) \in CallPc
  BY DEF FirstPc, CallPc, Pasting
<1>3. /\ call.n + 1 \in Outputs
      /\ call' = [n |-> call.n + 1, strategy |-> strategy, pc |-> FirstPc(strategy),
                  previous |-> NoText, raced |-> FALSE]
      /\ UNCHANGED <<clipVars, platform, restores>>
  BY DEF Begins, ClipTyped, ClipCalls
<1> HIDE DEF strategy
<1>4. QED
  BY <1>1, <1>2, <1>3 DEF ClipTyped, ClipCalls, clipVars

LEMMA OutputStepTyped ==
  ASSUME ClipTyped, OutputStep
  PROVE  ClipTyped'
<1> USE TextsDiffer DEF ClipTyped, clipVars, ClipCalls, Goes, Returns, Excuse, CallPc, Pasting,
        Strategies, keptVars, StaysThere
<1>1. CASE HearsKeyboard
  BY <1>1 DEF HearsKeyboard
<1>2. CASE KeyboardTimesOut
  BY <1>2 DEF KeyboardTimesOut
<1>3. CASE HearsSendInput
  BY <1>3 DEF HearsSendInput
<1>4. CASE PasteOpens
  BY <1>4, TextOfTyped DEF PasteOpens
<1>5. CASE PasteSets
  <2>0. call.n \in Outputs
    BY <1>5 DEF PasteSets
  <2>1. clip' \in Contents /\ kept' \in Contents /\ mistaken' \subseteq Contents
    BY <1>5, <2>0 DEF PasteSets
  <2>4. excused' \in BOOLEAN
    BY <1>5 DEF PasteSets
  <2>5. RestoreWrites \in BOOLEAN
    BY DEF RestoreWrites
  <2>6. \/ call' = [call EXCEPT !.pc = "none", !.previous = NoText, !.raced = FALSE]
        \/ call' = [call EXCEPT !.pc = "paste", !.raced = RestoreWrites]
    BY <1>5 DEF PasteSets
  <2>2. call' \in ClipCalls /\ (call'.pc # "none" => call'.n \in Outputs)
    BY <2>0, <2>5, <2>6
  <2>3. QED
    BY <1>5, <2>1, <2>2, <2>4 DEF PasteSets
<1>6. CASE PasteFails
  BY <1>6 DEF PasteFails
<1>7. CASE PasteSent
  BY <1>7 DEF PasteSent
<1>8. CASE PasteSchedules
  <2>1. call' \in ClipCalls /\ call'.pc = "none"
    BY <1>8 DEF PasteSchedules
  <2>5. {call.previous} \cap Pasted \subseteq Contents
    <3>1. \A t : OutText(t) # NoText
      BY DEF OutText, NoText
    <3>2. QED
      BY <3>1 DEF Pasted
  <2>2. CASE restores
    <3> DEFINE original == IF batch = NoBatch THEN call.previous ELSE batch.original
              asleep == [restore[call.n] EXCEPT !.pc = "sleep", !.original = original]
    <3>3. original \in ClipTexts /\ call.n \in Outputs
      BY <1>8 DEF PasteSchedules
    <3>4. /\ batch' = [latest |-> call.n, original |-> original]
          /\ restore' = [restore EXCEPT ![call.n] = asleep]
      BY <1>8, <2>2, <3>3 DEF PasteSchedules, Remembers, RestoreThreads
    <3> HIDE DEF original
    <3>5. asleep \in Threads
      <4>1. restore[call.n] \in Threads
        BY <3>3 DEF RestoreThreads
      <4>2. QED
        BY <3>3, <4>1 DEF Threads
    <3> HIDE DEF asleep
    <3>1. batch' \in [latest : 0..MaxOutputs, original : ClipTexts] /\ restore' \in RestoreThreads
      BY <3>3, <3>4, <3>5 DEF RestoreThreads
    <3>2. QED
      BY <1>8, <2>1, <2>2, <2>5, <3>1 DEF PasteSchedules
  <2>3. CASE ~restores
    BY <1>8, <2>1, <2>3 DEF PasteSchedules
  <2>4. QED
    BY <2>2, <2>3
<1>9. QED
  BY <1>1, <1>2, <1>3, <1>4, <1>5, <1>6, <1>7, <1>8 DEF OutputStep

LEMMA ClipTypedStep ==
  ASSUME ClipTyped, [TextNext]_textVars
  PROVE  ClipTyped'
<1>1. CASE TypistStep
  <2>1. UNCHANGED <<clipVars, platform, restores, call>>
    BY <1>1 DEF TypistStep, TypistCannot, TypistStarts, Types, TypeFails
  <2>2. QED
    BY <2>1 DEF ClipTyped, clipVars
<1>2. CASE Background
  BY <1>2, RestoreTyped, MeanwhileTyped DEF Background
<1>3. CASE UNCHANGED textVars
  BY <1>3 DEF textVars, clipVars, ClipTyped
<1>4. QED
  BY <1>1, <1>2, <1>3, BeginsTyped, OutputStepTyped DEF TextNext
-----------------------------------------------------------------------------
\* What is to stay, or is taken for it.
MayStay(content) == content = kept \/ content \in mistaken

\* A restore that will find what its output has pasted puts back what may stay.
Owed(o) ==
  /\ restore[o].pc \in {"sleep", "read", "decide"} /\ batch.latest = o
  /\ restore[o].pc = "decide" => restore[o].current = OutText(o)
  /\ restore[o].original = NoText \/ MayStay(restore[o].original)

Right(content) == MayStay(content) \/ \E o \in Outputs : content = OutText(o) /\ Owed(o)

PastedPc == {"paste", "schedule"}

ClipRight ==
  /\ capture.pc = "none" /\ call.pc \notin PastedPc => Right(clip)
  /\ call.pc \in PastedPc => MayStay(clip) \/ clip = OutText(call.n)
  /\ call.pc = "paste" /\ ~call.raced => clip = kept \/ clip = OutText(call.n)
  /\ capture.pc # "none" =>
       call.pc = "none" /\ (capture.backup = NoText \/ Right(capture.backup))

\* What a paste has found there stays, or was pasted; if it was pasted, its
\* restore is over or is that of the batch.
Old(content) ==
  \/ content = NoText \/ MayStay(content)
  \/ \E o \in Outputs : content = OutText(o) /\ restore[o].pc # "none"

Settled(content) ==
  \A o \in Outputs : content = OutText(o) =>
    o < call.n /\ (restore[o].pc \in {"none", "over"} \/ batch.latest = o)

PreviousOld ==
  /\ call.pc = "set" => Old(call.previous)
  /\ call.pc \in PastedPc /\ clip = OutText(call.n) => Old(call.previous)
  /\ call.pc \in {"set"} \cup PastedPc => Settled(call.previous)

\* What an output is restored from was pasted, and is not to stay.
RestoresKnown ==
  \A o \in Outputs :
    /\ restore[o].pc # "none" => o \in sent /\ kept # OutText(o) /\ restores
    /\ restore[o].pc # "none" \/ MayStay(OutText(o)) =>
         o <= call.n /\ (o = call.n => call.pc = "none")
    /\ OutText(o) \in mistaken => restore[o].pc \in {"none", "over"}

WritesRight ==
  \A o \in Outputs : restore[o].pc = "decide" /\ Restores(o) =>
    MayStay(restore[o].original) /\ (call.pc = "paste" => call.raced)

ClipInv ==
  ClipTyped /\ (~excused => ClipRight /\ PreviousOld /\ RestoresKnown /\ WritesRight)

USE DEF Old, MayStay, PastedPc

LEMMA ClipRightInitially == TextInit => ClipInv
<1> SUFFICES ASSUME TextInit PROVE ClipInv
  OBVIOUS
<1>0. kept \in {UserText(0), Image} /\ 0 \in 0..MaxCopies
  BY DEF TextInit, ClipInit
<1>1. /\ clip = kept /\ mistaken = {} /\ capture.pc = "none" /\ call.pc = "none"
      /\ \A o \in Outputs : restore[o].pc = "none"
  BY DEF TextInit, ClipInit, NoRestore
<1>2. QED
  BY <1>0, <1>1, TextsDiffer, ClipInitially DEF ClipInv, ClipRight, Right, PreviousOld, RestoresKnown, WritesRight

\* What leaves the clipboard and what was pasted alone.
LEMMA ClipRightStays ==
  ASSUME ClipInv, ClipTyped', UNCHANGED <<clipVars, sent, restores>>,
         call.pc \notin {"set"} \cup PastedPc, call'.pc \notin {"set"} \cup PastedPc,
         call'.n >= call.n, call'.n = call.n => (call.pc = "none" => call'.pc = "none"),
         call'.pc # "none" => capture.pc = "none"
  PROVE  ClipInv'
<1> USE DEF clipVars, ClipTyped, ClipCalls
<1> SUFFICES ASSUME ~excused' PROVE (ClipRight /\ PreviousOld /\ RestoresKnown /\ WritesRight)'
  BY DEF ClipInv
<1>1. ClipRight /\ PreviousOld /\ RestoresKnown /\ WritesRight
  BY DEF ClipInv
<1>2. \A c : Right(c) => Right(c)'
  BY DEF Right, Owed
<1>3. ClipRight'
  BY <1>1, <1>2 DEF ClipRight
<1>4. PreviousOld' /\ WritesRight'
  BY <1>1 DEF PreviousOld, WritesRight, Restores
<1>5. RestoresKnown'
  <2>1. call.n \in Nat /\ call'.n \in Nat
    BY DEF ClipInv
  <2>2. \A o \in Outputs : restore[o].pc # "none" \/ MayStay(OutText(o)) => o <= call'.n
    BY <1>1, <2>1 DEF RestoresKnown
  <2>3. \A o \in Outputs : restore[o].pc # "none" \/ MayStay(OutText(o)) =>
          (o = call'.n => call'.pc = "none")
    BY <1>1, <2>1 DEF RestoresKnown
  <2>4. QED
    BY <1>1, <2>2, <2>3 DEF RestoresKnown
<1>6. QED
  BY <1>3, <1>4, <1>5

LEMMA ClipRightSame ==
  ASSUME ClipInv, UNCHANGED <<clipVars, platform, restores, call, sent>>
  PROVE  ClipInv'
  BY DEF ClipInv, ClipTyped, ClipRight, Right, Owed, PreviousOld, Settled, RestoresKnown,
         WritesRight, Restores, clipVars

\* A restore: what it leaves alone, and what it writes.
LEMMA RestoreRight ==
  ASSUME ClipInv, ClipTyped', NEW o \in Outputs, RestoreStep(o), UNCHANGED outVars
  PROVE  ClipInv'
<1> USE DEF ClipTyped, RestoreThreads, Threads, RestoreGoes, NoRestore, Excuse, keptVars
<1> SUFFICES ASSUME ~excused' PROVE (ClipRight /\ PreviousOld /\ RestoresKnown /\ WritesRight)'
  BY DEF ClipInv
<1>1. ~excused /\ ClipRight /\ PreviousOld /\ RestoresKnown /\ WritesRight
  BY DEF ClipInv, RestoreStep, RestoreLooks, RestoreReads, RestoreDecides, RestoreClears
<1>2. /\ \A p \in Outputs \ {o} : restore'[p] = restore[p]
      /\ restore[o].pc # "none" /\ restore'[o].pc # "none" /\ UNCHANGED <<capture, keptVars>>
      /\ restore[o].pc # "over"
  <2>1. CASE RestoreLooks(o)
    BY <2>1 DEF RestoreLooks, keptVars
  <2>2. CASE RestoreReads(o)
    BY <2>2 DEF RestoreReads, keptVars
  <2>3. CASE RestoreDecides(o)
    BY <2>3 DEF RestoreDecides, keptVars
  <2>4. CASE RestoreClears(o)
    BY <2>4 DEF RestoreClears, keptVars
  <2>5. QED
    BY <2>1, <2>2, <2>3, <2>4 DEF RestoreStep
<1>3. RestoresKnown'
  BY <1>1, <1>2 DEF RestoresKnown
<1>4. ASSUME NEW content \in ClipTexts, Right(content), UNCHANGED batch, Owed(o) => Owed(o)'
      PROVE  Right(content)'
  BY <1>2, <1>4 DEF Right, Owed
<1>5. CASE RestoreLooks(o)
  <2>1. UNCHANGED <<clip, batch>> /\ (Owed(o) => Owed(o)')
    BY <1>1, <1>2, <1>5 DEF RestoreLooks, Owed
  <2>2. ClipRight'
    BY <1>1, <1>2, <1>4, <2>1 DEF ClipRight
  <2>3. PreviousOld'
    BY <1>1, <1>2, <2>1 DEF PreviousOld, Settled
  <2>4. WritesRight'
    BY <1>1, <1>2, <1>5 DEF WritesRight, Restores, RestoreLooks
  <2>5. QED
    BY <1>3, <2>2, <2>3, <2>4
<1>6. CASE RestoreReads(o)
  <2>1. /\ UNCHANGED <<clip, batch>> /\ restore[o].pc = "read" /\ capture.pc = "none"
        /\ restore'[o].pc = "decide" /\ restore'[o].current = TextOf(clip)
        /\ restore'[o].original = restore[o].original
    BY <1>1, <1>6 DEF RestoreReads
  <2>2. ASSUME NEW p \in Outputs, clip = OutText(p), Owed(p) PROVE Owed(p)'
    BY <1>2, <2>1, <2>2, TextsDiffer DEF Owed, TextOf
  <2>3. ClipRight'
    BY <1>1, <1>2, <2>1, <2>2 DEF ClipRight, Right
  <2>4. PreviousOld'
    BY <1>1, <1>2, <2>1 DEF PreviousOld, Settled
  <2>5. ASSUME Restores(o)' PROVE MayStay(restore[o].original) /\ call.pc \notin PastedPc
    <3>1. clip = OutText(o) /\ ~MayStay(clip) /\ restore[o].original # NoText
      BY <1>1, <1>2, <2>1, <2>5, TextsDiffer DEF Restores, TextOf, RestoresKnown
    <3>2. call.pc \notin PastedPc
      BY <1>1, <1>2, <3>1, TextsDiffer DEF ClipRight, RestoresKnown
    <3>3. Owed(o)
      BY <1>1, <2>1, <3>1, <3>2, TextsDiffer DEF ClipRight, Right
    <3>4. QED
      BY <3>1, <3>2, <3>3 DEF Owed
  <2>6. WritesRight'
    BY <1>1, <1>2, <2>1, <2>5 DEF WritesRight, Restores
  <2>7. QED
    BY <1>3, <2>3, <2>4, <2>6
<1>7. CASE RestoreDecides(o)
  <2>1. /\ UNCHANGED batch /\ restore[o].pc = "decide"
        /\ restore'[o] = [restore[o] EXCEPT !.pc = "clear"]
    BY <1>7 DEF RestoreDecides
  <2>2. CASE Restores(o)
    <3>1. /\ clip' = restore[o].original /\ MayStay(clip') /\ capture.pc = "none"
          /\ call.pc = "paste" => call.raced
      BY <1>1, <1>7, <2>1, <2>2 DEF RestoreDecides, WritesRight
    <3>2. ClipRight'
      BY <1>1, <1>2, <3>1 DEF ClipRight, Right
    <3>3. PreviousOld'
      <4>1. Settled(call.previous)' <=> Settled(call.previous)
        BY <1>2, <2>1 DEF Settled
      <4>2. call.pc \in PastedPc => clip' # OutText(call.n)
        BY <1>1, <3>1 DEF RestoresKnown, ClipInv
      <4>3. QED
        BY <1>1, <1>2, <3>1, <4>1, <4>2 DEF PreviousOld
    <3>4. WritesRight'
      BY <1>1, <1>2, <2>1 DEF WritesRight, Restores
    <3>5. QED
      BY <1>3, <3>2, <3>3, <3>4
  <2>3. CASE ~Restores(o)
    <3>1. UNCHANGED clip /\ restore[o].original # NoText
      BY <1>1, <1>7, <2>3 DEF RestoreDecides
    <3>2. ~Owed(o)
      BY <2>1, <2>3, <3>1 DEF Owed, Restores
    <3>3. ClipRight'
      BY <1>1, <1>2, <1>4, <2>1, <3>1, <3>2 DEF ClipRight
    <3>4. PreviousOld'
      BY <1>1, <1>2, <2>1, <3>1 DEF PreviousOld, Settled
    <3>5. WritesRight'
      BY <1>1, <1>2, <2>1 DEF WritesRight, Restores
    <3>6. QED
      BY <1>3, <3>3, <3>4, <3>5
  <2>4. QED
    BY <2>2, <2>3
<1>8. CASE RestoreClears(o)
  <2>1. /\ UNCHANGED clip /\ restore[o].pc = "clear" /\ restore'[o].pc = "over"
        /\ batch' = IF batch.latest = o THEN NoBatch ELSE batch
    BY <1>8 DEF RestoreClears
  <2>2. ASSUME NEW p \in Outputs, Owed(p) PROVE Owed(p)'
    BY <1>2, <2>1, <2>2 DEF Owed
  <2>3. ClipRight'
    BY <1>1, <1>2, <2>1, <2>2 DEF ClipRight, Right
  <2>4. PreviousOld'
    BY <1>1, <1>2, <2>1 DEF PreviousOld, Settled
  <2>5. WritesRight'
    BY <1>1, <1>2, <2>1 DEF WritesRight, Restores
  <2>6. QED
    BY <1>3, <2>3, <2>4, <2>5
<1>9. QED
  BY <1>5, <1>6, <1>7, <1>8 DEF RestoreStep

LEMMA MeanwhileRight ==
  ASSUME ClipInv, ClipTyped', UNCHANGED outVars,
         UserCopies(call.pc = "set") \/ (call.pc = "none" /\ CaptureStep)
  PROVE  ClipInv'
<1> USE DEF ClipTyped, Excuse
<1> SUFFICES ASSUME ~excused' PROVE (ClipRight /\ PreviousOld /\ RestoresKnown /\ WritesRight)'
  BY DEF ClipInv
<1>1. ~excused /\ ClipRight /\ PreviousOld /\ RestoresKnown /\ WritesRight
  BY DEF ClipInv, UserCopies, CaptureStep, CaptureBegins, CaptureCopies, CaptureReads, CaptureEnds
<1>2. CASE UserCopies(call.pc = "set")
  <2>1. /\ copies + 1 \in 0..MaxCopies
        /\ clip' = UserText(copies + 1) /\ kept' = clip' /\ mistaken' = {}
        /\ UNCHANGED <<batch, restore, capture>>
        /\ call.pc # "set" /\ capture.pc = "none" /\ ~RestoreWrites
    BY <1>1, <1>2 DEF UserCopies, StaysThere
  <2>2. ClipRight'
    BY <2>1 DEF ClipRight, Right
  <2>3. PreviousOld' /\ RestoresKnown'
    BY <1>1, <2>1, TextsDiffer DEF PreviousOld, Settled, RestoresKnown
  <2>4. WritesRight'
    BY <1>1, <2>1 DEF WritesRight, Restores, RestoreWrites
  <2>5. QED
    BY <2>2, <2>3, <2>4
<1>3. CASE call.pc = "none" /\ CaptureStep
  <2>1. UNCHANGED <<batch, restore, keptVars>>
    BY <1>3 DEF CaptureStep, CaptureBegins, CaptureCopies, CaptureReads, CaptureEnds
  <2>2. PreviousOld' /\ RestoresKnown' /\ WritesRight'
    BY <1>1, <1>3, <2>1 DEF PreviousOld, Settled, RestoresKnown, WritesRight, Restores, keptVars
  <2>3. \A content : Right(content) => Right(content)'
    BY <2>1 DEF Right, Owed, keptVars
  <2>4. ClipRight'
    <3>1. CASE CaptureBegins
      <4>1. capture.pc = "none" /\ capture'.pc = "copy" /\ capture'.backup = TextOf(clip)
        BY <3>1 DEF CaptureBegins
      <4>2. QED
        BY <1>1, <1>3, <2>3, <4>1 DEF ClipRight, TextOf
    <3>2. CASE CaptureCopies
      BY <1>1, <1>3, <2>3, <3>2 DEF ClipRight, CaptureCopies
    <3>3. CASE CaptureReads
      BY <1>1, <1>3, <2>3, <3>3 DEF ClipRight, CaptureReads
    <3>4. CASE CaptureEnds
      <4>1. /\ capture.pc = "restore" /\ capture'.pc = "none"
            /\ capture.backup # NoText /\ clip' = capture.backup
        BY <3>4 DEF CaptureEnds
      <4>2. QED
        BY <1>1, <1>3, <2>3, <4>1 DEF ClipRight
    <3>5. QED
      BY <1>3, <3>1, <3>2, <3>3, <3>4 DEF CaptureStep
  <2>5. QED
    BY <2>2, <2>4
<1>4. QED
  BY <1>2, <1>3

LEMMA PastesRight ==
  ASSUME OutputInv, ClipInv, ClipTyped', OutputStep
  PROVE  ClipInv'
<1> USE DEF ClipTyped, ClipCalls, Goes, Returns, Excuse
<1> SUFFICES ASSUME ~excused' PROVE (ClipRight /\ PreviousOld /\ RestoresKnown /\ WritesRight)'
  BY DEF ClipInv
<1>1. ~excused /\ ClipRight /\ PreviousOld /\ RestoresKnown /\ WritesRight
  BY DEF ClipInv, OutputStep, HearsKeyboard, KeyboardTimesOut, HearsSendInput, clipVars,
         PasteOpens, PasteSets, PasteFails, PasteSent, PasteSchedules
<1>2. /\ call'.n = call.n /\ call.n \in Outputs /\ call.pc # "none" /\ capture.pc = "none"
      /\ ClipTyped
  <2>1. call'.n = call.n /\ call.pc # "none"
    BY DEF OutputStep, HearsKeyboard, KeyboardTimesOut, HearsSendInput,
           PasteOpens, PasteSets, PasteFails, PasteSent, PasteSchedules
  <2>2. QED
    BY <1>1, <2>1 DEF ClipRight, ClipInv
<1>3. restore[call.n].pc = "none"
  BY <1>1, <1>2 DEF RestoresKnown
<1>4. CASE HearsKeyboard \/ KeyboardTimesOut \/ HearsSendInput
  <2>1. /\ UNCHANGED <<clipVars, sent, restores>> /\ call.pc \in {"typing", "sending"}
        /\ call'.pc \in {"none", "open"}
    BY <1>4 DEF HearsKeyboard, KeyboardTimesOut, HearsSendInput, world, screen
  <2>2. QED
    BY <1>2, <2>1, ClipRightStays DEF ClipInv
<1>5. CASE PasteOpens
  <2>1. /\ UNCHANGED <<clip, batch, restore, capture, kept, mistaken, sent, restores>> /\ call.pc = "open"
        /\ call'.pc = "none" \/ (call'.pc = "set" /\ call'.previous = TextOf(clip))
    BY <1>5 DEF PasteOpens, clipVars, screen, world
  <2>2. ClipRight'
    BY <1>1, <1>2, <2>1 DEF ClipRight, Right, Owed
  <2>5. RestoresKnown' /\ WritesRight'
    BY <1>1, <1>2, <2>1 DEF RestoresKnown, WritesRight, Restores
  <2>3. PreviousOld'
    <3>1. CASE call'.pc = "none"
      BY <3>1 DEF PreviousOld
    <3>2. CASE call'.pc = "set" /\ call'.previous = TextOf(clip)
      <4>1. Old(clip) /\ Old(TextOf(clip))
        BY <1>1, <1>2, <2>1 DEF ClipRight, Right, Owed, TextOf
      <4>2. Old(call.previous)'
        BY <2>1, <3>2, <4>1
      <4>3. Settled(call.previous)'
        BY <1>1, <1>2, <2>1, <3>2, TextsDiffer DEF ClipRight, Right, Owed, TextOf, RestoresKnown, Settled
      <4>4. QED
        BY <3>2, <4>2, <4>3 DEF PreviousOld
    <3>3. QED
      BY <2>1, <3>1, <3>2
  <2>4. QED
    BY <2>2, <2>3, <2>5
<1>6. CASE PasteSets
  <2>1. /\ UNCHANGED <<batch, restore, capture, sent, restores>> /\ call.pc = "set"
        /\ \/ call'.pc = "none" /\ UNCHANGED <<clip, kept, mistaken>>
           \/ /\ call'.pc = "none" /\ clip' = OutText(call.n) /\ ~RestoreWrites
              /\ kept' = clip' /\ mistaken' = {}
           \/ /\ call'.pc = "paste" /\ clip' = OutText(call.n) /\ UNCHANGED <<kept, mistaken>>
              /\ call'.previous = call.previous /\ call'.raced = RestoreWrites
    BY <1>6 DEF PasteSets, screen, world, StaysThere, keptVars
  <2>2. ClipRight'
    BY <1>1, <1>2, <2>1 DEF ClipRight, Right, Owed
  <2>3. PreviousOld'
    BY <1>1, <1>2, <2>1 DEF PreviousOld, Settled
  <2>4. RestoresKnown'
    BY <1>1, <1>2, <1>3, <2>1, TextsDiffer DEF RestoresKnown
  <2>5. WritesRight'
    BY <1>1, <1>2, <2>1 DEF WritesRight, Restores, RestoreWrites
  <2>6. QED
    BY <2>2, <2>3, <2>4, <2>5
<1>7. CASE PasteFails
  <2>1. /\ UNCHANGED <<clip, batch, restore, capture, restores>> /\ call.pc = "paste"
        /\ call'.pc = "none" /\ kept' = clip /\ mistaken' = {} /\ sent \subseteq sent'
        /\ ~call.raced
    BY <1>7 DEF PasteFails, StaysThere, world
  <2>2. clip = kept \/ clip = OutText(call.n)
    BY <1>1, <2>1 DEF ClipRight
  <2>3. ClipRight' /\ PreviousOld' /\ WritesRight'
    BY <1>1, <1>2, <2>1 DEF ClipRight, Right, PreviousOld, WritesRight, Restores
  <2>4. RestoresKnown'
    BY <1>1, <1>2, <1>3, <2>1, <2>2, TextsDiffer DEF RestoresKnown
  <2>5. QED
    BY <2>3, <2>4
<1>8. CASE PasteSent
  <2>1. /\ UNCHANGED <<clip, batch, restore, capture, kept, mistaken, restores>> /\ call.pc = "paste"
        /\ call'.pc = "schedule" /\ call'.previous = call.previous /\ sent \subseteq sent'
    BY <1>8 DEF PasteSent, clipVars, world
  <2>2. ClipRight' /\ WritesRight'
    BY <1>1, <1>2, <2>1 DEF ClipRight, WritesRight, Restores
  <2>3. PreviousOld' /\ RestoresKnown'
    BY <1>1, <1>2, <2>1 DEF PreviousOld, Settled, RestoresKnown
  <2>4. QED
    BY <2>2, <2>3
<1>9. CASE PasteSchedules
  <2>1. /\ UNCHANGED <<clip, capture, sent, restores>> /\ call.pc = "schedule" /\ call'.pc = "none"
        /\ MayStay(clip) \/ (clip = OutText(call.n) /\ Old(call.previous))
        /\ Settled(call.previous)
    BY <1>1, <1>9 DEF PasteSchedules, ClipRight, PreviousOld, screen, world
  <2>2. CASE restores
    <3> DEFINE original == IF batch = NoBatch THEN call.previous ELSE batch.original
    <3>1. /\ UNCHANGED kept /\ mistaken \subseteq mistaken'
          /\ batch' = [latest |-> call.n, original |-> original]
          /\ restore' = [restore EXCEPT ![call.n] = [@ EXCEPT !.pc = "sleep", !.original = original]]
          /\ batch = NoBatch => mistaken' = mistaken \cup ({call.previous} \cap Pasted)
          /\ batch # NoBatch => mistaken' = mistaken /\ MayStay(batch.original)
      <4>1. /\ UNCHANGED kept /\ Remembers(call.n, call.previous)
            /\ mistaken' = mistaken \cup (IF batch = NoBatch THEN {call.previous} \cap Pasted ELSE {})
            /\ excused' = (excused \/ (batch # NoBatch /\ batch.original \notin {kept} \cup mistaken))
        BY <1>9, <2>2 DEF PasteSchedules
      <4>2. batch # NoBatch => MayStay(batch.original)
        BY <4>1
      <4>3. /\ batch' = [latest |-> call.n, original |-> original]
            /\ restore' = [restore EXCEPT ![call.n] = [@ EXCEPT !.pc = "sleep", !.original = original]]
        BY <4>1 DEF Remembers
      <4>4. QED
        BY <4>1, <4>2, <4>3
    <3>2. call.n \in sent /\ kept # OutText(call.n)
      BY <1>1, <1>2, <2>1 DEF OutputInv, OthersUntouched, RestoresKnown
    <3> HIDE DEF original
    <3>3. /\ \A p \in Outputs \ {call.n} : restore'[p] = restore[p]
          /\ restore'[call.n].pc = "sleep" /\ restore'[call.n].original = original
          /\ batch'.latest = call.n
      BY <1>2, <3>1 DEF RestoreThreads, Threads
    <3>4. ASSUME ~MayStay(clip) PROVE clip = OutText(call.n) /\ Owed(call.n)'
      <4>1. original = NoText \/ original = kept' \/ original \in mistaken'
        <5>1. CASE batch # NoBatch
          BY <3>1, <5>1 DEF original
        <5>2. CASE batch = NoBatch
          <6>1. original = call.previous /\ Old(original)
            BY <2>1, <3>4, <5>2 DEF original
          <6>2. ASSUME NEW o \in Outputs, original = OutText(o), restore[o].pc # "none"
                PROVE  original \in {kept} \cup Pasted
            BY <1>1, <6>2 DEF Pasted, RestoresKnown
          <6>3. QED
            BY <3>1, <5>2, <6>1, <6>2
        <5>3. QED
          BY <5>1, <5>2
      <4>2. QED
        BY <1>2, <2>1, <3>1, <3>3, <3>4, <4>1 DEF Owed
    <3>5. ClipRight'
      BY <1>2, <2>1, <3>1, <3>4 DEF ClipRight, Right
    <3>6. PreviousOld' /\ WritesRight'
      BY <1>1, <1>2, <2>1, <3>1, <3>3 DEF PreviousOld, WritesRight, Restores
    <3>9. ASSUME NEW o \in Outputs, OutText(o) \in mistaken', OutText(o) \notin mistaken
          PROVE  o < call.n /\ restore[o].pc \in {"none", "over"}
      <4>1. batch = NoBatch /\ OutText(o) = call.previous
        BY <3>1, <3>9
      <4>2. QED
        BY <2>1, <4>1 DEF Settled, NoBatch
    <3>7. RestoresKnown'
      BY <1>1, <1>2, <1>3, <2>1, <2>2, <3>1, <3>2, <3>3, <3>9 DEF RestoresKnown
    <3>8. QED
      BY <3>5, <3>6, <3>7
  <2>3. CASE ~restores
    <3>1. /\ kept' = clip /\ mistaken' = {} /\ UNCHANGED <<batch, restore>>
          /\ \A o \in Outputs : restore[o].pc = "none"
      BY <1>1, <1>9, <2>3 DEF PasteSchedules, StaysThere, RestoresKnown
    <3>2. ClipRight' /\ PreviousOld' /\ WritesRight'
      BY <1>1, <1>2, <2>1, <3>1 DEF ClipRight, Right, PreviousOld, WritesRight, Restores
    <3>3. RestoresKnown'
      BY <1>1, <1>2, <1>3, <2>1, <3>1, TextsDiffer DEF RestoresKnown
    <3>4. QED
      BY <3>2, <3>3
  <2>4. QED
    BY <2>2, <2>3
<1>10. QED
  BY <1>4, <1>5, <1>6, <1>7, <1>8, <1>9 DEF OutputStep

LEMMA ClipStep == OutputInv /\ ClipInv /\ [TextNext]_textVars => ClipInv'
<1> SUFFICES ASSUME OutputInv, ClipInv, [TextNext]_textVars PROVE ClipInv'
  OBVIOUS
<1>1. ClipTyped /\ ClipTyped'
  BY ClipTypedStep DEF ClipInv
<1>2. CASE \E s \in Strategies, here, trusted \in BOOLEAN : capture.pc = "none" /\ Begins(s, here, trusted)
  <2>1. PICK s \in Strategies, here \in BOOLEAN, trusted \in BOOLEAN :
          capture.pc = "none" /\ Begins(s, here, trusted)
    BY <1>2
  <2>2. /\ UNCHANGED <<clipVars, sent, restores>> /\ call.pc = "none" /\ call'.n = call.n + 1
        /\ call'.pc = FirstPc(Effective(s, here, trusted))
    BY <2>1 DEF Begins
  <2>3. call'.pc \notin {"set"} \cup PastedPc
    BY <2>2 DEF FirstPc
  <2>4. QED
    BY <1>1, <2>1, <2>2, <2>3, ClipRightStays DEF ClipTyped, ClipCalls
<1>3. CASE TypistStep
  <2>1. UNCHANGED <<clipVars, platform, restores, call, sent>>
    BY <1>3 DEF TypistStep, TypistCannot, TypistStarts, Types, TypeFails
  <2>2. QED
    BY <1>1, <2>1, ClipRightSame
<1>4. CASE OutputStep
  BY <1>1, <1>4, PastesRight
<1>5. CASE Background
  BY <1>1, <1>5, RestoreRight, MeanwhileRight DEF Background
<1>6. CASE UNCHANGED textVars
  BY <1>1, <1>6, ClipRightSame DEF textVars
<1>7. QED
  BY <1>2, <1>3, <1>4, <1>5, <1>6 DEF TextNext

\* The clipboard comes back: when nothing runs any more it holds what the user,
\* or an output that only copies, put there last, unless something happened
\* that the code does not promise to survive.
THEOREM ComesBack == TextSpec => []ClipboardComesBack
  <1>1. OutputInv /\ ClipInv => ClipboardComesBack
    BY DEF ClipInv, ClipRight, Right, Owed, ClipboardComesBack, ClipAtRest
  <1>2. QED
    BY <1>1, OutputInitially, OutputNext, ClipRightInitially, ClipStep, PTL DEF TextSpec

\* Whatever happens, the variables of an output and of the clipboard hold what
\* they may hold; no text is typed beyond its end.
THEOREM TextTypes == TextSpec => []TextTypeOK
  <1>1. OutputInv /\ ClipInv => TextTypeOK
    <2> SUFFICES ASSUME OutputInv, ClipTyped PROVE TextTypeOK
      BY DEF ClipInv
    <2>1. ClipTypeOK
      BY DEF ClipTyped, ClipTypeOK, RestoreThreads, Threads
    <2>2. QED
      BY <2>1 DEF OutputInv, OutputTyped, TypistKnown, TextTypeOK, ClipTyped, ClipCalls, CallPc,
                  Pasting, TypistPc, Results
  <1>2. QED
    BY <1>1, OutputInitially, OutputNext, ClipRightInitially, ClipStep, PTL DEF TextSpec

-----------------------------------------------------------------------------
(* The intent of an utterance, and where its text is put *)

Modes       == {"Dictate", "Ask", "Translate"}
IntentKinds == {"DictateInsert", "DraftInsert", "TranslateInsert", "RewriteSelection",
                "TranslateSelection", "AskSelection", "OpenQuestion", "Search"}
Placements  == {"InsertAtCursor", "ReplaceSelection", "PopupAnswer", "OpenUrl"}

\* What an intent may do was asked for, and its feature is on.
Granted(mode, selected, flags, k, may) ==
  /\ k \in {"RewriteSelection", "TranslateSelection"} =>
       /\ selected
       /\ \/ mode = "Translate" /\ "translate" \in flags
          \/ "translateTo" \in may /\ "translate" \in flags
          \/ "rewrite" \in may /\ "rewrite" \in flags
  /\ k = "Search" => mode = "Ask" /\ "search" \in flags /\ may \cap {"search", "on"} # {}
  /\ k = "DraftInsert" => may \cap {"draft", "maybe"} # {}

\* RouteFallbackReason
Reasons == {"none", "CodeOrIdentifier", "QuotedOrReported", "Negated", "Ambiguous",
            "MissingPayload", "FeatureDisabled", "NoCommand", "UnsupportedLocale"}

Utterance == Seq(Acts \X Scripts)
Intents   == [kind : IntentKinds, placement : Placements, reason : Reasons]

IsIntent(i) == i \in Intents /\ i.placement = PlacementOf(i.kind)

PlainKinds == {"AskSelection", "DictateInsert", "OpenQuestion", "TranslateInsert"}

LEMMA IntentIs ==
  ASSUME NEW k \in IntentKinds, NEW reason \in Reasons
  PROVE  IsIntent(Intent(k, reason)) /\ Intent(k, reason).kind = k
  BY DEF IsIntent, Intent, Intents, PlacementOf, IntentKinds, Placements

LEMMA FallbackIs ==
  ASSUME NEW mode, NEW selected \in BOOLEAN, NEW reason \in Reasons
  PROVE  /\ IsIntent(FallbackIntent(mode, selected, reason))
         /\ FallbackIntent(mode, selected, reason).kind \in PlainKinds
<1> DEFINE k == IF selected THEN "AskSelection" ELSE IF mode = "Dictate" THEN "DictateInsert"
                   ELSE IF mode = "Ask" THEN "OpenQuestion" ELSE "TranslateInsert"
<1>1. k \in PlainKinds /\ k \in IntentKinds
  BY DEF PlainKinds, IntentKinds
<1>2. FallbackIntent(mode, selected, reason) = Intent(k, reason)
  BY DEF FallbackIntent
<1> HIDE DEF k
<1>3. QED
  BY <1>1, <1>2, IntentIs

\* A command that is obeyed stands at the beginning and is not quoted.
LEMMA WordOf ==
  ASSUME NEW u \in Utterance, NEW i \in DOMAIN u
  PROVE  /\ u # <<>> /\ u[i] \in ToSet(u) /\ 1 \in DOMAIN u
         /\ u[i] \in Acts \X Scripts
  BY DEF Utterance, ToSet

LEMMA Obeyed ==
  ASSUME NEW u \in Utterance, NEW locale \in Locales, Guard(locale, u) = "none",
         NEW w \in ToSet(u), Of(locale, w), w[1] \in Commands
  PROVE  MeantBy(u) = {u[1][1]}
<1>1. HasSignal(locale, u)
  BY DEF HasSignal, IsAsciiSignal, Of
<1>2. ~IsCode(u) /\ ~IsReported(locale, u)
  BY <1>1 DEF Guard
<1>3. u # <<>>
  BY DEF ToSet, Utterance
<1>4. QED
  BY <1>2, <1>3 DEF MeantBy, IsCode, IsReported

\* What a grammar matches, behind the guards, is what a hearer grants.
LEMMA DraftMeant ==
  ASSUME NEW u \in Utterance, NEW locale \in Locales, Guard(locale, u) = "none",
         MatchDraft(locale, u) # "no"
  PROVE  MeantBy(u) \cap {"draft", "maybe"} # {}
<1>1. CASE First(locale, u, {"draft"})
  BY <1>1, WordOf, Obeyed DEF First, Commands
<1>2. CASE ~First(locale, u, {"draft"})
  <2>1. /\ locale = "hans" /\ First(locale, u, {"maybe"}) /\ Len(u) > 1
        /\ u[2] = W("draft", "hans")
    BY <1>2 DEF MatchDraft
  <2>2. 2 \in DOMAIN u /\ Of(locale, u[2]) /\ u[2][1] \in Commands
    BY <2>1 DEF Of, W, Commands, Utterance
  <2>3. MeantBy(u) = {u[1][1]}
    BY <2>2, WordOf, Obeyed
  <2>4. QED
    BY <2>1, <2>3 DEF First
<1>3. QED
  BY <1>1, <1>2

LEMMA SelectionMeant ==
  ASSUME NEW u \in Utterance, NEW locale \in Locales, Guard(locale, u) = "none"
  PROVE  /\ MatchesRewrite(locale, u) => "rewrite" \in MeantBy(u)
         /\ MatchesTranslation(locale, u) => "translateTo" \in MeantBy(u)
<1>1. ASSUME NEW act \in {"rewrite", "translateTo"}, First(locale, u, {act})
      PROVE  act \in MeantBy(u)
  <2>1. u # <<>> /\ Of(locale, u[1]) /\ u[1][1] = act
    BY <1>1 DEF First
  <2>2. 1 \in DOMAIN u
    BY <2>1 DEF Utterance
  <2>3. u[1] \in ToSet(u) /\ u[1][1] \in Commands
    BY <2>1, <2>2, WordOf DEF Commands
  <2>4. QED
    BY <2>1, <2>3, Obeyed
<1>2. QED
  BY <1>1 DEF MatchesRewrite, MatchesTranslation

LEMMA SearchMeant ==
  ASSUME NEW u \in Utterance, NEW locale \in Locales, Guard(locale, u) = "none",
         MatchSearch(locale, u) # "no"
  PROVE  MeantBy(u) \cap {"search", "on"} # {}
<1>1. CASE locale = "en"
  <2>1. First("en", u, {"search"})
    BY <1>1 DEF MatchSearch, MatchSearchEn
  <2>2. QED
    BY <1>1, <2>1, WordOf, Obeyed DEF First, Commands
<1>2. CASE locale # "en"
  <2>1. \/ Len(u) > 2 /\ u[1] = W("on", "han") /\ u[3] = W("search", "han")
        \/ Len(u) > 2 /\ u[1] = W("search", "han")
    BY <1>2 DEF MatchSearch, MatchSearchZh
  <2>2. {1, 3} \subseteq DOMAIN u
    BY <2>1 DEF Utterance
  <2>3. \E i \in {1, 3} : Of(locale, u[i]) /\ u[i][1] \in Commands
    BY <1>2, <2>1 DEF Of, W, Commands
  <2>4. MeantBy(u) = {u[1][1]}
    BY <2>2, <2>3, WordOf, Obeyed
  <2>5. u[1][1] \in {"on", "search"}
    BY <2>1 DEF W
  <2>6. QED
    BY <2>4, <2>5
<1>3. QED
  BY <1>1, <1>2

\* The intents that a route may have.
Allowed(i, mode, selected, flags, u) ==
  IsIntent(i) /\ Granted(mode, selected, flags, i.kind, MeantBy(u))

LEMMA PlainAllowed ==
  ASSUME NEW i, IsIntent(i), i.kind \in PlainKinds, NEW mode, NEW selected, NEW flags, NEW u
  PROVE  Allowed(i, mode, selected, flags, u)
  BY DEF Allowed, Granted, PlainKinds

LEMMA CommandAllowed ==
  ASSUME NEW mode \in Modes, NEW selected \in BOOLEAN, NEW flags \in SUBSET Features,
         NEW u, NEW r, r.mode = mode, r.selected = selected, r.flags = flags,
         NEW match \in {"no", "missing", "yes"}, NEW feature, NEW k \in IntentKinds, NEW otherwise,
         match # "no" /\ feature \in flags => Granted(mode, selected, flags, k, MeantBy(u)),
         Allowed(otherwise, mode, selected, flags, u)
  PROVE  Allowed(Command(match, feature, k, r, otherwise), mode, selected, flags, u)
<1>1. ASSUME NEW reason \in Reasons
      PROVE  Allowed(FallbackIntent(mode, selected, reason), mode, selected, flags, u)
  <2>1. /\ IsIntent(FallbackIntent(mode, selected, reason))
        /\ FallbackIntent(mode, selected, reason).kind \in PlainKinds
    BY FallbackIs
  <2>2. QED
    BY <2>1, PlainAllowed
<1>2. CASE match = "no"
  BY <1>2 DEF Command
<1>3. CASE match = "missing"
  <2>1. Command(match, feature, k, r, otherwise) =
          FallbackIntent(mode, selected, "MissingPayload")
    BY <1>3 DEF Command
  <2>2. QED
    BY <1>1, <2>1 DEF Reasons
<1>4. CASE match = "yes" /\ feature \in flags
  <2>1. Command(match, feature, k, r, otherwise) = Intent(k, "none")
    BY <1>4 DEF Command
  <2>2. IsIntent(Intent(k, "none")) /\ Intent(k, "none").kind = k
    BY IntentIs DEF Reasons
  <2>3. QED
    BY <1>4, <2>1, <2>2 DEF Allowed
<1>5. CASE match = "yes" /\ feature \notin flags
  <2>1. Command(match, feature, k, r, otherwise) =
          FallbackIntent(mode, selected, "FeatureDisabled")
    BY <1>5 DEF Command
  <2>2. QED
    BY <1>1, <2>1 DEF Reasons
<1>6. QED
  BY <1>2, <1>3, <1>4, <1>5

\* A record that the router is asked with
Asked == [mode : Modes, selected : BOOLEAN, language : Languages, flags : SUBSET Features,
          utterance : Utterance]

AllowedFor(i, r) == Allowed(i, r.mode, r.selected, r.flags, r.utterance)

LEMMA FallbackAllowed ==
  ASSUME NEW r \in Asked, NEW reason \in Reasons
  PROVE  AllowedFor(FallbackIntent(r.mode, r.selected, reason), r)
<1>1. r.selected \in BOOLEAN
  BY DEF Asked
<1>2. /\ IsIntent(FallbackIntent(r.mode, r.selected, reason))
      /\ FallbackIntent(r.mode, r.selected, reason).kind \in PlainKinds
  BY <1>1, FallbackIs
<1>3. QED
  BY <1>2, PlainAllowed DEF AllowedFor

LEMMA CommandFor ==
  ASSUME NEW r \in Asked, NEW match \in {"no", "missing", "yes"}, NEW feature,
         NEW k \in IntentKinds, NEW otherwise,
         match # "no" /\ feature \in r.flags =>
           Granted(r.mode, r.selected, r.flags, k, MeantBy(r.utterance)),
         AllowedFor(otherwise, r)
  PROVE  AllowedFor(Command(match, feature, k, r, otherwise), r)
<1>1. r.mode \in Modes /\ r.selected \in BOOLEAN /\ r.flags \in SUBSET Features
  BY DEF Asked
<1>2. QED
  BY <1>1, CommandAllowed DEF AllowedFor

LEMMA CommandMatches ==
  ASSUME NEW u, NEW locale
  PROVE  /\ MatchDraft(locale, u) \in {"no", "missing", "yes"}
         /\ MatchSearch(locale, u) \in {"no", "missing", "yes"}
         /\ \A b \in BOOLEAN : YesNo(b) \in {"no", "missing", "yes"}
<1>1. \A p : WithPayload(p) \in {"missing", "yes"}
  BY DEF WithPayload
<1>2. MatchDraft(locale, u) \in {"no", "missing", "yes"}
  BY <1>1 DEF MatchDraft
<1>3. MatchSearchEn(u) \in {"no", "missing", "yes"}
  BY DEF MatchSearchEn
<1>4. MatchSearchZh(u) \in {"no", "missing", "yes"}
  BY <1>1 DEF MatchSearchZh
<1>5. QED
  BY <1>2, <1>3, <1>4 DEF MatchSearch, YesNo

LEMMA ReasonsAre ==
  ASSUME NEW u, NEW locale
  PROVE  /\ Guard(locale, u) \in Reasons /\ Discussed(locale, u) \in Reasons
         /\ {"none", "MissingPayload"} \subseteq Reasons
  BY DEF Guard, Discussed, Reasons

\* A dictation drafts, or rewrites or translates what is selected, only if that
\* was meant; a question searches or drafts only if that was meant.
LEMMA DictateAllowed ==
  ASSUME NEW r \in Asked, r.mode = "Dictate", NEW locale \in Locales,
         Guard(locale, r.utterance) = "none"
  PROVE  AllowedFor(RouteDictate(r, locale), r)
<1> DEFINE u == r.utterance
           discussed == FallbackIntent("Dictate", r.selected, Discussed(locale, u))
           draft == Command(MatchDraft(locale, u), "draft", "DraftInsert", r, discussed)
           answer == IF MatchesInformational(locale, u)
                    THEN FallbackIntent("Dictate", TRUE, "none") ELSE discussed
           rewrite == Command(YesNo(MatchesRewrite(locale, u)), "rewrite", "RewriteSelection",
                              r, answer)
           translate == Command(YesNo(MatchesTranslation(locale, u)), "translate",
                                "TranslateSelection", r, rewrite)
<1>1. u \in Utterance
  BY DEF Asked
<1>2. AllowedFor(discussed, r)
  BY ReasonsAre, FallbackAllowed
<1>3. CASE ~r.selected
  <2>1. MatchDraft(locale, u) # "no" =>
          Granted(r.mode, r.selected, r.flags, "DraftInsert", MeantBy(u))
    BY <1>1, DraftMeant DEF Granted
  <2>2. AllowedFor(draft, r)
    <3> HIDE DEF discussed
    <3>1. QED
      BY <1>2, <2>1, CommandMatches, CommandFor DEF IntentKinds
  <2>3. RouteDictate(r, locale) = draft
    BY <1>3 DEF RouteDictate
  <2>4. QED
    BY <2>2, <2>3
<1>4. CASE r.selected
  <2>1. AllowedFor(answer, r)
    <3>1. AllowedFor(FallbackIntent("Dictate", TRUE, "none"), r)
      <4>1. r.selected = TRUE
        BY <1>4 DEF Asked
      <4>2. QED
        BY <4>1, ReasonsAre, FallbackAllowed
    <3>2. QED
      BY <1>2, <3>1
  <2>2. AllowedFor(rewrite, r)
    <3>1. YesNo(MatchesRewrite(locale, u)) # "no" /\ "rewrite" \in r.flags =>
            Granted(r.mode, r.selected, r.flags, "RewriteSelection", MeantBy(u))
      BY <1>1, <1>4, SelectionMeant DEF Granted, YesNo
    <3>2. YesNo(MatchesRewrite(locale, u)) \in {"no", "missing", "yes"}
      BY DEF YesNo
    <3> HIDE DEF answer
    <3>3. QED
      BY <2>1, <3>1, <3>2, CommandFor DEF IntentKinds
  <2>3. AllowedFor(translate, r)
    <3>1. YesNo(MatchesTranslation(locale, u)) # "no" /\ "translate" \in r.flags =>
            Granted(r.mode, r.selected, r.flags, "TranslateSelection", MeantBy(u))
      BY <1>1, <1>4, SelectionMeant DEF Granted, YesNo
    <3>2. YesNo(MatchesTranslation(locale, u)) \in {"no", "missing", "yes"}
      BY DEF YesNo
    <3> HIDE DEF rewrite
    <3>3. QED
      BY <2>2, <3>1, <3>2, CommandFor DEF IntentKinds
  <2>4. RouteDictate(r, locale) = translate
    BY <1>4 DEF RouteDictate
  <2>5. QED
    BY <2>3, <2>4
<1>5. QED
  BY <1>3, <1>4

LEMMA AskAllowed ==
  ASSUME NEW r \in Asked, r.mode = "Ask", NEW locale \in Locales,
         Guard(locale, r.utterance) = "none"
  PROVE  AllowedFor(RouteAsk(r, locale), r)
<1> DEFINE u == r.utterance
           discussed == FallbackIntent("Ask", r.selected, Discussed(locale, u))
           draft == Command(MatchDraft(locale, u), "draft", "DraftInsert", r, discussed)
           search == Command(MatchSearch(locale, u), "search", "Search", r, draft)
<1>1. u \in Utterance
  BY DEF Asked
<1>2. AllowedFor(discussed, r)
  BY ReasonsAre, FallbackAllowed
<1>3. AllowedFor(draft, r)
  <2>1. MatchDraft(locale, u) # "no" =>
          Granted(r.mode, r.selected, r.flags, "DraftInsert", MeantBy(u))
    BY <1>1, DraftMeant DEF Granted
  <2> HIDE DEF discussed
  <2>2. QED
    BY <1>2, <2>1, CommandMatches, CommandFor DEF IntentKinds
<1>4. AllowedFor(search, r)
  <2>1. MatchSearch(locale, u) # "no" /\ "search" \in r.flags =>
          Granted(r.mode, r.selected, r.flags, "Search", MeantBy(u))
    BY <1>1, SearchMeant DEF Granted
  <2> HIDE DEF draft
  <2>2. QED
    BY <1>3, <2>1, CommandMatches, CommandFor DEF IntentKinds
<1>5. RouteAsk(r, locale) = IF r.selected THEN discussed ELSE search
  BY DEF RouteAsk
<1>6. QED
  BY <1>2, <1>4, <1>5

LEMMA RouteAllowed ==
  ASSUME NEW r \in Asked
  PROVE  AllowedFor(Route(r), r)
<1> DEFINE locale == Resolve(r.language, r.utterance)
<1>1. r.selected \in BOOLEAN /\ r.mode \in Modes /\ r.language \in Languages
  BY DEF Asked
<1>2. CASE r.mode = "Translate"
  <2>1. AllowedFor(Intent("TranslateInsert", "none"), r)
    <3>1. /\ IsIntent(Intent("TranslateInsert", "none"))
          /\ Intent("TranslateInsert", "none").kind = "TranslateInsert"
      BY IntentIs DEF IntentKinds, Reasons
    <3>2. QED
      BY <3>1, PlainAllowed DEF AllowedFor, PlainKinds
  <2>2. CASE ~r.selected
    BY <1>2, <2>1, <2>2 DEF Route, RouteTranslate
  <2>3. CASE r.selected
    <3>1. "translate" \in r.flags =>
            Granted(r.mode, r.selected, r.flags, "TranslateSelection", MeantBy(r.utterance))
      BY <1>2, <2>3 DEF Granted
    <3>2. AllowedFor(Command("yes", "translate", "TranslateSelection", r,
                             Intent("TranslateInsert", "none")), r)
      BY <2>1, <3>1, CommandFor DEF IntentKinds
    <3>3. QED
      BY <1>2, <2>3, <3>2 DEF Route, RouteTranslate
  <2>4. QED
    BY <2>2, <2>3
<1>3. CASE r.mode # "Translate" /\ (r.utterance = <<>> \/ locale \notin Locales)
  <2>1. locale \notin Locales => locale \in {"NoCommand", "Ambiguous", "UnsupportedLocale"}
    BY <1>1 DEF Resolve, AutomaticLocale, Languages, Locales
  <2>2. \E reason \in Reasons : Route(r) = FallbackIntent(r.mode, r.selected, reason)
    BY <1>3, <2>1 DEF Route, Reasons
  <2>3. QED
    BY <2>2, FallbackAllowed
<1>4. CASE r.mode # "Translate" /\ r.utterance # <<>> /\ locale \in Locales
  <2>1. Route(r) = RouteIn(r, locale)
    BY <1>4 DEF Route, Locales
  <2>2. CASE Guard(locale, r.utterance) # "none"
    BY <2>1, <2>2, ReasonsAre, FallbackAllowed DEF RouteIn
  <2>3. CASE Guard(locale, r.utterance) = "none" /\ r.mode = "Dictate"
    <3>1. RouteIn(r, locale) = RouteDictate(r, locale)
      BY <2>3 DEF RouteIn
    <3>2. QED
      BY <1>4, <2>1, <2>3, <3>1, DictateAllowed
  <2>4. CASE Guard(locale, r.utterance) = "none" /\ r.mode = "Ask"
    <3>1. RouteIn(r, locale) = RouteAsk(r, locale)
      BY <2>4 DEF RouteIn
    <3>2. QED
      BY <1>4, <2>1, <2>4, <3>1, AskAllowed
  <2>5. QED
    BY <1>1, <1>4, <2>2, <2>3, <2>4 DEF Modes
<1>5. QED
  BY <1>2, <1>3, <1>4

-----------------------------------------------------------------------------
(* Where a text goes *)

OpPc == {"idle", "search", "ask", "draft", "begin", "model", "join", "raw", "suffix", "copyOnly",
         "recapture", "restore", "check", "insert", "type", "inserted", "popup", "popupInstead",
         "copyBlind", "copy", "copied", "finish", "done"}
Drafts   == {"none", "streamed", "other", "empty"}
OpTargets == {"none", "part", "whole", "raw"}

Ops == [pc : OpPc, mode : Modes \cup {"none"}, selected : BOOLEAN, flags : SUBSET Features,
        intent : Intents, may : SUBSET Acts, available : BOOLEAN]
Streams == [pc : {"off", "runs", "checks", "types", "over"}, sent : Nat, taken : Nat, placed : Nat,
            part : BOOLEAN, failed : BOOLEAN, lost : BOOLEAN]
Outcomes == [target : OpTargets, astray : BOOLEAN, overwrote : {"none", "same", "else"},
             clipboard : OpTargets, popup : {"none", "answer", "error", "searched"},
             history : {"none", "fallback", "copied", "partial"}, copyFailed : BOOLEAN,
             guarded : BOOLEAN]

PlaceTyped ==
  /\ op \in Ops /\ text \in Drafts /\ stream \in Streams /\ effect \in Outcomes
  /\ focus \in {"target", "other"} /\ chosen \in {"same", "else"}
  /\ aborted \in BOOLEAN /\ stale \subseteq {"focus", "selection"}

\* The worker takes what was sent and puts in what it has taken.
StreamInv ==
  /\ stream.placed <= stream.taken /\ stream.taken <= stream.sent /\ stream.sent <= Chunks
  /\ stream.pc \in {"checks", "types"} => stream.placed < stream.taken

\* An operation's intent is one that its utterance may have.
OpGranted ==
  /\ op.intent.placement = PlacementOf(op.intent.kind)
  /\ Granted(op.mode, op.selected, op.flags, op.intent.kind, op.may)

SearchInv ==
  /\ op.pc = "search" => op.intent.kind = "Search"
  /\ effect.popup = "searched" => op.intent.kind = "Search"
  /\ op.pc = "idle" => effect.popup = "none"

\* The steps up to the one that puts a text in
Before == {"idle", "draft", "begin", "model", "join", "recapture", "restore", "check", "insert",
           "type"}

\* What was seen at the last look holds, or the user has moved since.
LookInv ==
  /\ op.pc \in Before => ~effect.astray /\ effect.overwrote = "none"
  /\ op.pc = "type" /\ focus # "target" => "focus" \in stale \/ ~effect.guarded
  /\ effect.astray => "focus" \in stale \/ ~effect.guarded
  /\ Replaces /\ op.pc \in {"check", "insert", "type"} /\ op.available /\ chosen = "else" =>
       "selection" \in stale
  /\ Replaces /\ op.pc \in {"insert", "type"} => op.available
  /\ op.pc = "restore" => ~Replaces
  /\ effect.overwrote = "else" => "selection" \in stale
  /\ effect.overwrote # "none" => Replaces

Arrived == effect.target = "whole" \/ effect.popup = "answer"

\* Where the text is by the time that an operation ends
EndInv ==
  /\ op.pc \in {"idle", "search", "ask", "draft", "begin", "model", "raw"} => text = "none"
  /\ op.pc = "suffix" => text = "streamed"
  /\ op.pc = "copyOnly" => /\ effect.history \in {"copied", "partial"}
                           /\ effect.history = "partial" => text = "none"
  /\ op.pc = "copied" => effect.clipboard = "whole"
  /\ op.pc = "finish" => /\ Arrived \/ effect.clipboard = "whole" \/ effect.copyFailed
                         /\ effect.history = "none" => Arrived
  /\ NothingLost

LEMMA PlaceTypedInit == PlaceInit => PlaceTyped
<1> SUFFICES ASSUME PlaceInit PROVE PlaceTyped
  OBVIOUS
<1>1. IsIntent(Intent("OpenQuestion", "none"))
  BY IntentIs DEF IntentKinds, Reasons
<1>2. op \in Ops
  BY <1>1 DEF PlaceInit, NoOp, Ops, OpPc, IsIntent
<1>3. stream \in Streams /\ effect \in Outcomes
  BY DEF PlaceInit, NoStream, NoEffect, Streams, Outcomes, OpTargets
<1>4. QED
  BY <1>2, <1>3 DEF PlaceInit, PlaceTyped, Drafts

\* A step moves an operation on and leaves what it means alone.
LEMMA ToTyped ==
  ASSUME op \in Ops, NEW pc \in OpPc, To(pc)
  PROVE  op' \in Ops /\ op' = [op EXCEPT !.pc = pc] /\ op'.pc = pc
  BY DEF To, Ops

Meant(mode, selected, flags, language, u) ==
  LET intent == Route([mode |-> mode, utterance |-> u, selected |-> selected,
                       language |-> language, flags |-> flags])
  IN  [pc |-> IF mode # "Ask" THEN "begin"
              ELSE IF intent.kind = "DraftInsert" THEN "draft"
              ELSE IF CallsModel(intent) THEN "ask"
              ELSE "search",
       mode |-> mode, selected |-> selected, flags |-> flags,
       intent |-> [intent EXCEPT !.reason = "none"], may |-> MeantBy(u), available |-> FALSE]

Begun(m) ==
  /\ m \in Ops /\ m.pc \in {"begin", "draft", "ask", "search"}
  /\ m.intent.placement = PlacementOf(m.intent.kind)
  /\ Granted(m.mode, m.selected, m.flags, m.intent.kind, m.may)
  /\ m.pc = "search" => m.intent.kind = "Search"

LEMMA MeantBegun ==
  ASSUME NEW mode \in Modes, NEW selected \in BOOLEAN,
         NEW flags \in {Features, {"search", "translate"}, {}},
         NEW language \in Languages, NEW u \in Utterances
  PROVE  Begun(Meant(mode, selected, flags, language, u))
<1> DEFINE r == [mode |-> mode, utterance |-> u, selected |-> selected,
                 language |-> language, flags |-> flags]
           intent == Route(r)
           plain == [intent EXCEPT !.reason = "none"]
<1>1. u \in Utterance
  BY PlacementAssumption DEF Utterance
<1>2. r \in Asked
  BY <1>1 DEF Asked, Features
<1>3. AllowedFor(intent, r)
  BY <1>2, RouteAllowed
<1>4. IsIntent(intent) /\ Granted(mode, selected, flags, intent.kind, MeantBy(u))
  BY <1>3 DEF AllowedFor, Allowed
<1> HIDE DEF r, intent
<1>5. plain \in Intents /\ plain.kind = intent.kind /\ plain.placement = intent.placement
  BY <1>4 DEF IsIntent, Intents, Reasons
<1>6. MeantBy(u) \in SUBSET Acts
  BY <1>1 DEF MeantBy, Utterance
<1>7. flags \in SUBSET Features
  BY DEF Features
<1> HIDE DEF plain
<1>8. QED
  BY <1>4, <1>5, <1>6, <1>7 DEF r, intent, plain, Begun, Meant, Ops, OpPc, IsIntent, CallsModel

LEMMA MeaningsBegun == \A m \in Meanings : Begun(m)
<1>1. Meanings = { Meant(mode, selected, flags, language, u) :
                     mode \in Modes, selected \in BOOLEAN,
                     flags \in {Features, {"search", "translate"}, {}},
                     language \in Languages, u \in Utterances }
  BY DEF Meanings, Meant, Modes
<1>2. QED
  BY <1>1, MeantBegun

LEMMA PlaceTypedStep == PlaceTyped /\ [PlaceNext]_placeVars => PlaceTyped'
<1> SUFFICES ASSUME PlaceTyped, [PlaceNext]_placeVars PROVE PlaceTyped'
  OBVIOUS
<1> USE DEF PlaceTyped
<1>1. ASSUME Speaks PROVE PlaceTyped'
  <2>1. op' \in Ops
    BY <1>1, MeaningsBegun DEF Speaks, Begun
  <2>2. effect' \in Outcomes
    BY <1>1 DEF Speaks, Effects, Outcomes
  <2>3. QED
    BY <1>1, <2>1, <2>2 DEF Speaks, user
<1>2. ASSUME Searches PROVE PlaceTyped'
  BY <1>2 DEF Searches, Done, Effects, To, Ops, OpPc, Outcomes, OpTargets, user
<1>3. ASSUME Answers PROVE PlaceTyped'
  BY <1>3 DEF Answers, Done, Effects, To, Ops, OpPc, Outcomes, OpTargets, Drafts, user
<1>4. ASSUME DraftBegins PROVE PlaceTyped'
  BY <1>4 DEF DraftBegins, Done, Effects, To, Ops, OpPc, Outcomes, OpTargets, user
<1>5. ASSUME WithoutModel PROVE PlaceTyped'
  <2>1. \E pc \in OpPc : To(pc)
    BY <1>5 DEF WithoutModel, Done, OpPc
  <2>2. op' \in Ops
    BY <2>1, ToTyped
  <2>3. effect' \in Outcomes
    BY <1>5 DEF WithoutModel, Done, Effects, Outcomes, OpTargets
  <2>4. QED
    BY <1>5, <2>2, <2>3 DEF WithoutModel, user
<1>6. ASSUME AsksModel PROVE PlaceTyped'
  BY <1>6 DEF AsksModel, To, Ops, OpPc, Streams, user
<1>7. ASSUME ModelSends PROVE PlaceTyped'
  BY <1>7 DEF ModelSends, Streams, user
<1>8. ASSUME ModelEnds PROVE PlaceTyped'
  BY <1>8 DEF ModelEnds, To, Ops, OpPc, Drafts, user
<1>9. ASSUME Joins PROVE PlaceTyped'
  <2>1. \E pc \in OpPc : To(pc)
    BY <1>9 DEF Joins, Recovery, Done, OpPc
  <2>2. op' \in Ops
    BY <2>1, ToTyped
  <2>3. effect' \in Outcomes
    <3>1. \A t \in OpTargets, h \in {"copied", "partial"} :
            /\ [effect EXCEPT !.target = t] \in Outcomes
            /\ [effect EXCEPT !.target = t, !.history = h] \in Outcomes
      BY DEF Outcomes
    <3>2. QED
      BY <1>9, <3>1 DEF Joins, Recovery, Done, Effects, OpTargets
  <2>4. QED
    BY <1>9, <2>2, <2>3 DEF Joins, user
<1>10. ASSUME JoinsEmpty PROVE PlaceTyped'
  <2>1. \E pc \in OpPc : To(pc)
    BY <1>10 DEF JoinsEmpty, EndsEarly, Done, OpPc
  <2>2. op' \in Ops
    BY <2>1, ToTyped
  <2>3. effect' \in Outcomes
    <3>1. \A e \in Outcomes : EndsEarly(e) => effect' \in Outcomes
      BY DEF EndsEarly, Done, Effects, Outcomes
    <3>2. \A h \in {"copied", "fallback"} : [effect EXCEPT !.history = h] \in Outcomes
      BY DEF Outcomes
    <3>3. QED
      BY <1>10, <3>1, <3>2 DEF JoinsEmpty, Effects
  <2>4. QED
    BY <1>10, <2>2, <2>3 DEF JoinsEmpty, user
<1>11. ASSUME Suffix PROVE PlaceTyped'
  <2>1. \E pc \in OpPc : To(pc)
    BY <1>11 DEF Suffix, Done, OpPc
  <2>2. op' \in Ops
    BY <2>1, ToTyped
  <2>3. effect' \in Outcomes
    BY <1>11 DEF Suffix, Done, Effects, Outcomes, OpTargets
  <2>4. QED
    BY <1>11, <2>2, <2>3 DEF Suffix, user
<1>12. ASSUME CopiesOnly PROVE PlaceTyped'
  BY <1>12 DEF CopiesOnly, Done, Effects, To, Ops, OpPc, Outcomes, OpTargets, user
<1>13. ASSUME WorkerTakes PROVE PlaceTyped'
  <2>1. /\ stream.sent \in Nat /\ stream.taken + 1 \in Nat /\ stream.placed + 1 \in Nat
    BY DEF Streams
  <2>2. stream' \in Streams
    BY <1>13, <2>1 DEF WorkerTakes, Streams
  <2>3. QED
    BY <1>13, <2>2 DEF WorkerTakes, user
<1>14. ASSUME WorkerChecks PROVE PlaceTyped'
  BY <1>14 DEF WorkerChecks, Streams, user
<1>15. ASSUME WorkerTypes PROVE PlaceTyped'
  <2>1. /\ stream.sent \in Nat /\ stream.taken + 1 \in Nat /\ stream.placed + 1 \in Nat
    BY DEF Streams
  <2>2. stream' \in Streams
    BY <1>15, <2>1 DEF WorkerTypes, Streams
  <2>3. QED
    BY <1>15, <2>2 DEF WorkerTypes, user
<1>16. ASSUME WorkerEnds PROVE PlaceTyped'
  BY <1>16 DEF WorkerEnds, Streams, user
<1>17. ASSUME Recaptures PROVE PlaceTyped'
  BY <1>17 DEF Recaptures, To, Ops, OpPc, user
<1>18. ASSUME RestoresFocus PROVE PlaceTyped'
  BY <1>18 DEF RestoresFocus, To, Ops, OpPc, user
<1>19. ASSUME ChecksTarget PROVE PlaceTyped'
  BY <1>19 DEF ChecksTarget, To, Ops, OpPc, user
<1>20. ASSUME CopiesBlindly PROVE PlaceTyped'
  BY <1>20 DEF CopiesBlindly, Effects, To, Ops, OpPc, Outcomes, OpTargets, user
<1>21. ASSUME Inserts PROVE PlaceTyped'
  BY <1>21 DEF Inserts, Effects, To, Ops, OpPc, Outcomes, OpTargets, user
<1>22. ASSUME PutsIt PROVE PlaceTyped'
  BY <1>22 DEF PutsIt, Effects, To, Ops, OpPc, Outcomes, OpTargets, user
<1>23. ASSUME Inserted PROVE PlaceTyped'
  BY <1>23 DEF Inserted, To, Ops, OpPc, user
<1>24. ASSUME PopsUp PROVE PlaceTyped'
  <2>1. \E pc \in OpPc : To(pc)
    BY <1>24 DEF PopsUp, OpPc
  <2>2. op' \in Ops
    BY <2>1, ToTyped
  <2>3. effect' \in Outcomes
    BY <1>24 DEF PopsUp, Effects, Outcomes, OpTargets
  <2>4. QED
    BY <1>24, <2>2, <2>3 DEF PopsUp, user
<1>25. ASSUME Copies PROVE PlaceTyped'
  <2>1. \E pc \in OpPc : To(pc)
    BY <1>25 DEF Copies, OpPc
  <2>2. op' \in Ops
    BY <2>1, ToTyped
  <2>3. effect' \in Outcomes
    BY <1>25 DEF Copies, Effects, Outcomes, OpTargets
  <2>4. QED
    BY <1>25, <2>2, <2>3 DEF Copies, user
<1>26. ASSUME Copied PROVE PlaceTyped'
  BY <1>26 DEF Copied, Effects, To, Ops, OpPc, Outcomes, OpTargets, user
<1>27. ASSUME OutputsRaw PROVE PlaceTyped'
  <2>1. \E pc \in OpPc : To(pc)
    BY <1>27 DEF OutputsRaw, Done, OpPc
  <2>2. op' \in Ops
    BY <2>1, ToTyped
  <2>3. effect' \in Outcomes
    BY <1>27 DEF OutputsRaw, Done, Effects, Outcomes, OpTargets
  <2>4. QED
    BY <1>27, <2>2, <2>3 DEF OutputsRaw, user
<1>28. ASSUME Finishes PROVE PlaceTyped'
  BY <1>28 DEF Finishes, Done, Effects, To, Ops, OpPc, Outcomes, OpTargets, user
<1>29. ASSUME Moves PROVE PlaceTyped'
  BY <1>29 DEF Moves, user
<1>30. ASSUME Aborts PROVE PlaceTyped'
  BY <1>30 DEF Aborts, user
<1>31. ASSUME UNCHANGED placeVars PROVE PlaceTyped'
  BY <1>31 DEF placeVars
<1>32. QED
   BY <1>1, <1>2, <1>3, <1>4, <1>5, <1>6, <1>7, <1>8, <1>9, <1>10, <1>11, <1>12, <1>13, <1>14,
     <1>15, <1>16, <1>17, <1>18, <1>19, <1>20, <1>21, <1>22, <1>23, <1>24, <1>25, <1>26, <1>27,
     <1>28, <1>29, <1>30, <1>31
     DEF PlaceNext, ModelStep, WorkerStep, ExecutionStep

LEMMA StreamStep == PlaceTyped /\ StreamInv /\ [PlaceNext]_placeVars => StreamInv'
<1> SUFFICES ASSUME PlaceTyped, StreamInv, [PlaceNext]_placeVars PROVE StreamInv'
  OBVIOUS
<1>1. /\ stream \in Streams /\ stream.sent \in Nat /\ stream.taken \in Nat
      /\ stream.placed \in Nat /\ Chunks \in Nat
  BY PlacementAssumption DEF PlaceTyped, Streams
<1>2. CASE AsksModel
  BY <1>1, <1>2 DEF AsksModel, StreamInv, Streams
<1>3. CASE ModelSends
  BY <1>1, <1>3 DEF ModelSends, StreamInv, Streams
<1>4. CASE WorkerTakes
  BY <1>1, <1>4 DEF WorkerTakes, StreamInv, Streams
<1>5. CASE WorkerChecks
  BY <1>1, <1>5 DEF WorkerChecks, StreamInv, Streams
<1>6. CASE WorkerTypes
  <2>1. /\ stream.pc = "types" /\ stream'.taken = stream.taken /\ stream'.sent = stream.sent
        /\ stream'.placed \in {stream.placed, stream.placed + 1}
        /\ stream'.pc \in {"runs", "over"}
    BY <1>1, <1>6 DEF WorkerTypes, Streams
  <2>2. QED
    BY <1>1, <2>1 DEF StreamInv
<1>7. CASE WorkerEnds
  BY <1>1, <1>7 DEF WorkerEnds, StreamInv, Streams
<1>8. CASE UNCHANGED stream
  BY <1>8 DEF StreamInv
<1>9. QED
  BY <1>2, <1>3, <1>4, <1>5, <1>6, <1>7, <1>8
      DEF PlaceNext, ModelStep, WorkerStep, ExecutionStep, Speaks, Searches, Answers,
     DraftBegins,
         WithoutModel, ModelEnds, Joins, JoinsEmpty, Suffix, CopiesOnly, Recaptures,
         RestoresFocus, ChecksTarget, CopiesBlindly, Inserts, PutsIt, Inserted, PopsUp, Copies,
         Copied, OutputsRaw, Finishes, Moves, Aborts, placeVars

\* What an operation means is set when it begins, and only a search shows one.
Onward ==
  /\ op.pc # "idle" /\ (op' = op \/ op'.pc \notin {"search", "idle"})
  /\ UNCHANGED <<op.mode, op.selected, op.flags, op.intent, op.may>>
  /\ effect'.popup = "searched" => effect.popup = "searched" \/ op.pc = "search"

LEMMA OnwardStep == PlaceTyped /\ PlaceNext /\ ~Speaks => Onward
<1> SUFFICES ASSUME PlaceTyped, PlaceNext, ~Speaks PROVE Onward
  OBVIOUS
<1>1. CASE Searches
  BY <1>1 DEF Searches, Done, Effects, To, Ops, Outcomes, At, Onward, PlaceTyped
<1>2. CASE Answers
  BY <1>2 DEF Answers, Done, Effects, To, Ops, Outcomes, At, Onward, PlaceTyped
<1>3. CASE DraftBegins
  BY <1>3 DEF DraftBegins, Done, Effects, To, Ops, Outcomes, At, Onward, PlaceTyped
<1>4. CASE WithoutModel
  BY <1>4 DEF WithoutModel, Done, Effects, To, Ops, Outcomes, At, Onward, PlaceTyped
<1>5. CASE AsksModel
  BY <1>5 DEF AsksModel, To, Ops, At, Onward, PlaceTyped
<1>6. CASE ModelSends
  BY <1>6 DEF ModelSends, At, Onward, PlaceTyped
<1>7. CASE ModelEnds
  BY <1>7 DEF ModelEnds, To, Ops, At, Onward, PlaceTyped
<1>8. CASE Joins
  <2>1. /\ op.pc = "join"
        /\ \E pc \in {"done", "suffix", "copyOnly"} : op' = [op EXCEPT !.pc = pc]
    BY <1>8 DEF Joins, Done, To, At, Recovery
  <2>2. \/ effect' = effect
        \/ \E target \in {"whole", "part"} :
             \/ effect' = [effect EXCEPT !.target = target]
             \/ \E h \in {"copied", "partial"} : effect' = [effect EXCEPT !.target = target, !.history = h]
    BY <1>8 DEF Joins, Done, Effects, Recovery
  <2>3. effect'.popup = effect.popup
    BY <2>2 DEF PlaceTyped, Outcomes
  <2>4. QED
    BY <2>1, <2>3 DEF Onward, PlaceTyped, Ops
<1>9. CASE JoinsEmpty
  <2>1. \A h \in {"none", "fallback", "copied", "partial"} :
          LET e == [effect EXCEPT !.history = h]
          IN  e \in Outcomes /\ e.popup = effect.popup
    BY DEF PlaceTyped, Outcomes
  <2>2. \A e \in Outcomes : EndsEarly(e) => effect'.popup \in {e.popup, "error"}
    BY DEF EndsEarly, Done, Effects, Outcomes
  <2>3. effect'.popup \in {effect.popup, "error"}
    BY <1>9, <2>1, <2>2 DEF JoinsEmpty, Effects, PlaceTyped
  <2>4. QED
    BY <1>9, <2>3 DEF JoinsEmpty, EndsEarly, Done, To, Ops, At, Onward, PlaceTyped
<1>10. CASE Suffix
  BY <1>10 DEF Suffix, Done, Effects, To, Ops, Outcomes, At, Onward, PlaceTyped
<1>11. CASE CopiesOnly
  BY <1>11 DEF CopiesOnly, Done, Effects, To, Ops, Outcomes, At, Onward, PlaceTyped
<1>12. CASE WorkerTakes
  BY <1>12 DEF WorkerTakes, At, Worker, Onward, PlaceTyped
<1>13. CASE WorkerChecks
  BY <1>13 DEF WorkerChecks, At, Worker, Onward, PlaceTyped
<1>14. CASE WorkerTypes
  BY <1>14 DEF WorkerTypes, At, Worker, Onward, PlaceTyped
<1>15. CASE WorkerEnds
  BY <1>15 DEF WorkerEnds, At, Worker, Onward, PlaceTyped
<1>16. CASE Recaptures
  BY <1>16 DEF Recaptures, To, Ops, At, Onward, PlaceTyped
<1>17. CASE RestoresFocus
  BY <1>17 DEF RestoresFocus, To, Ops, At, Onward, PlaceTyped
<1>18. CASE ChecksTarget
  BY <1>18 DEF ChecksTarget, To, Ops, At, Onward, PlaceTyped
<1>19. CASE CopiesBlindly
  BY <1>19 DEF CopiesBlindly, Effects, To, Ops, Outcomes, At, Onward, PlaceTyped
<1>20. CASE Inserts
  BY <1>20 DEF Inserts, Effects, To, Ops, Outcomes, At, Onward, PlaceTyped
<1>21. CASE PutsIt
  BY <1>21 DEF PutsIt, Effects, To, Ops, Outcomes, At, Onward, PlaceTyped
<1>22. CASE Inserted
  BY <1>22 DEF Inserted, To, Ops, At, Onward, PlaceTyped
<1>23. CASE PopsUp
  BY <1>23 DEF PopsUp, Effects, To, Ops, Outcomes, At, Onward, PlaceTyped
<1>24. CASE Copies
  BY <1>24 DEF Copies, Effects, To, Ops, Outcomes, At, Onward, PlaceTyped
<1>25. CASE Copied
  BY <1>25 DEF Copied, Effects, To, Ops, Outcomes, At, Onward, PlaceTyped
<1>26. CASE OutputsRaw
  BY <1>26 DEF OutputsRaw, Done, Effects, To, Ops, Outcomes, At, Onward, PlaceTyped
<1>27. CASE Finishes
  BY <1>27 DEF Finishes, Done, Effects, To, Ops, Outcomes, At, Onward, PlaceTyped
<1>28. CASE Moves
  BY <1>28 DEF Moves, Onward, PlaceTyped
<1>29. CASE Aborts
  BY <1>29 DEF Aborts, Onward, PlaceTyped
<1>30. QED
   BY <1>1, <1>2, <1>3, <1>4, <1>5, <1>6, <1>7, <1>8, <1>9, <1>10, <1>11, <1>12, <1>13, <1>14,
     <1>15, <1>16, <1>17, <1>18, <1>19, <1>20, <1>21, <1>22, <1>23, <1>24, <1>25, <1>26, <1>27,
     <1>28, <1>29
     DEF PlaceNext, ModelStep, WorkerStep, ExecutionStep

LEMMA MeaningStep ==
  PlaceTyped /\ OpGranted /\ SearchInv /\ [PlaceNext]_placeVars => OpGranted' /\ SearchInv'
<1> SUFFICES ASSUME PlaceTyped, OpGranted, SearchInv, [PlaceNext]_placeVars
             PROVE  OpGranted' /\ SearchInv'
  OBVIOUS
<1>1. CASE Speaks
  <2>1. Begun(op') /\ effect'.popup = effect.popup /\ op.pc = "idle"
    BY <1>1, MeaningsBegun DEF Speaks, At, Effects, PlaceTyped, Outcomes
  <2>2. QED
    BY <2>1 DEF Begun, OpGranted, SearchInv
<1>2. CASE PlaceNext /\ ~Speaks
  BY <1>2, OnwardStep DEF Onward, OpGranted, SearchInv
<1>3. CASE UNCHANGED placeVars
  BY <1>3 DEF placeVars, OpGranted, SearchInv
<1>4. QED
  BY <1>1, <1>2, <1>3

\* The steps that look at nothing, put nothing in and move nothing
PutsNothing ==
  /\ UNCHANGED <<effect.astray, effect.overwrote, effect.guarded, focus, chosen, stale,
                 op.intent, op.available>>
  /\ op'.pc \in Before => op.pc \in Before
  /\ op'.pc \in {"restore", "check", "insert", "type"} =>
       op'.pc = op.pc \/ (op'.pc \in {"restore", "check"} /\ ~Replaces)

LEMMA QuietStep ==
  PlaceTyped /\ PlaceNext =>
    \/ PutsNothing
    \/ Speaks \/ Recaptures \/ RestoresFocus \/ ChecksTarget \/ Inserts \/ PutsIt \/ Moves
<1> SUFFICES ASSUME PlaceTyped, PlaceNext, ~Speaks, ~Recaptures, ~RestoresFocus, ~ChecksTarget,
                    ~Inserts, ~PutsIt, ~Moves
             PROVE  PutsNothing
  OBVIOUS
<1>1. CASE Searches
   BY <1>1 DEF Searches, Done, Effects, To, Ops, Outcomes, At, PutsNothing, Before, Replaces,
     PlaceTyped, user
<1>2. CASE Answers
   BY <1>2 DEF Answers, Done, Effects, To, Ops, Outcomes, At, PutsNothing, Before, Replaces,
     PlaceTyped, user
<1>3. CASE DraftBegins
   BY <1>3 DEF DraftBegins, Done, Effects, To, Ops, Outcomes, At, PutsNothing, Before, Replaces,
     PlaceTyped, user
<1>4. CASE WithoutModel
   BY <1>4 DEF WithoutModel, Done, Effects, To, Ops, Outcomes, At, PutsNothing, Before, Replaces,
     PlaceTyped, user
<1>5. CASE AsksModel
  BY <1>5 DEF AsksModel, To, Ops, At, PutsNothing, Before, Replaces, PlaceTyped, user
<1>6. CASE ModelSends
  BY <1>6 DEF ModelSends, At, PutsNothing, Before, Replaces, PlaceTyped, user
<1>7. CASE ModelEnds
  BY <1>7 DEF ModelEnds, To, Ops, At, PutsNothing, Before, Replaces, PlaceTyped, user
<1>8. CASE Joins
   BY <1>8 DEF Joins, Done, Effects, To, Ops, Outcomes, Recovery, At, PutsNothing, Before, Replaces,
     PlaceTyped, user
<1>9. CASE JoinsEmpty
  <2>1. \A h \in {"none", "fallback", "copied", "partial"} :
          LET e == [effect EXCEPT !.history = h]
          IN  /\ e \in Outcomes /\ e.astray = effect.astray
              /\ e.overwrote = effect.overwrote /\ e.guarded = effect.guarded
    BY DEF PlaceTyped, Outcomes
  <2>2. \A e \in Outcomes : EndsEarly(e) =>
          /\ effect'.astray = e.astray
          /\ effect'.overwrote = e.overwrote /\ effect'.guarded = e.guarded
    BY DEF EndsEarly, Done, Effects, Outcomes
  <2>3. UNCHANGED <<effect.astray, effect.overwrote, effect.guarded>>
    BY <1>9, <2>1, <2>2 DEF JoinsEmpty, Effects, PlaceTyped
  <2>4. QED
     BY <1>9, <2>3 DEF JoinsEmpty, EndsEarly, Done, To, Ops, At, PutsNothing, Before, Replaces,
       PlaceTyped,
                    user
<1>10. CASE Suffix
   BY <1>10 DEF Suffix, Done, Effects, To, Ops, Outcomes, At, PutsNothing, Before, Replaces,
     PlaceTyped, user
<1>11. CASE CopiesOnly
   BY <1>11 DEF CopiesOnly, Done, Effects, To, Ops, Outcomes, At, PutsNothing, Before, Replaces,
     PlaceTyped, user
<1>12. CASE WorkerTakes
  BY <1>12 DEF WorkerTakes, At, Worker, PutsNothing, Before, Replaces, PlaceTyped, user
<1>13. CASE WorkerChecks
  BY <1>13 DEF WorkerChecks, At, Worker, PutsNothing, Before, Replaces, PlaceTyped, user
<1>14. CASE WorkerTypes
  BY <1>14 DEF WorkerTypes, At, Worker, PutsNothing, Before, Replaces, PlaceTyped, user
<1>15. CASE WorkerEnds
  BY <1>15 DEF WorkerEnds, At, Worker, PutsNothing, Before, Replaces, PlaceTyped, user
<1>16. CASE CopiesBlindly
   BY <1>16 DEF CopiesBlindly, Effects, To, Ops, Outcomes, At, PutsNothing, Before, Replaces,
     PlaceTyped, user
<1>17. CASE Inserted
  BY <1>17 DEF Inserted, To, Ops, At, PutsNothing, Before, Replaces, PlaceTyped, user
<1>18. CASE PopsUp
  BY <1>18 DEF PopsUp, Effects, To, Ops, Outcomes, At, PutsNothing, Before, Replaces, PlaceTyped, user
<1>19. CASE Copies
  BY <1>19 DEF Copies, Effects, To, Ops, Outcomes, At, PutsNothing, Before, Replaces, PlaceTyped, user
<1>20. CASE Copied
  BY <1>20 DEF Copied, Effects, To, Ops, Outcomes, At, PutsNothing, Before, Replaces, PlaceTyped, user
<1>21. CASE OutputsRaw
   BY <1>21 DEF OutputsRaw, Done, Effects, To, Ops, Outcomes, At, PutsNothing, Before, Replaces,
     PlaceTyped, user
<1>22. CASE Finishes
   BY <1>22 DEF Finishes, Done, Effects, To, Ops, Outcomes, At, PutsNothing, Before, Replaces,
     PlaceTyped, user
<1>23. CASE Aborts
  BY <1>23 DEF Aborts, PutsNothing, Before, Replaces, PlaceTyped, user
<1>24. QED
   BY <1>1, <1>2, <1>3, <1>4, <1>5, <1>6, <1>7, <1>8, <1>9, <1>10, <1>11, <1>12, <1>13, <1>14,
     <1>15, <1>16, <1>17, <1>18, <1>19, <1>20, <1>21, <1>22, <1>23
     DEF PlaceNext, ModelStep, WorkerStep, ExecutionStep

LEMMA LookStep == PlaceTyped /\ LookInv /\ [PlaceNext]_placeVars => LookInv'
<1> SUFFICES ASSUME PlaceTyped, LookInv, [PlaceNext]_placeVars PROVE LookInv'
  OBVIOUS
<1>1. CASE PutsNothing
  BY <1>1 DEF PutsNothing, LookInv, Replaces, Before
<1>2. CASE Speaks
  <2>1. /\ op.pc = "idle" /\ UNCHANGED <<effect.astray, effect.overwrote, stale>>
        /\ op'.pc \in {"begin", "draft", "ask", "search"}
    BY <1>2, MeaningsBegun DEF Speaks, Begun, At, Effects, PlaceTyped, Outcomes
  <2>2. QED
    BY <2>1 DEF LookInv, Before
<1>3. CASE Recaptures
  <2>1. /\ op.pc = "recapture" /\ op'.pc = "check" /\ UNCHANGED <<op.intent, effect, focus, chosen>>
        /\ op'.available => chosen = "same"
    BY <1>3 DEF Recaptures, At, PlaceTyped, Ops, user
  <2>2. QED
    BY <2>1 DEF LookInv, Before
<1>4. CASE RestoresFocus
  <2>1. /\ op.pc = "restore" /\ op'.pc \in {"check", "copyBlind"}
        /\ UNCHANGED <<op.intent, op.available, effect, chosen, stale>>
    BY <1>4 DEF RestoresFocus, At, To, PlaceTyped, Ops
  <2>2. QED
    BY <2>1 DEF LookInv, Before, Replaces
<1>5. CASE ChecksTarget
  <2>1. /\ op.pc = "check" /\ op'.pc \in {"copyBlind", "popupInstead", "insert"}
        /\ op'.pc = "insert" /\ Replaces => op.available
        /\ UNCHANGED <<op.intent, op.available, effect, focus, chosen, stale>>
    BY <1>5 DEF ChecksTarget, At, To, PlaceTyped, Ops, user
  <2>2. QED
    BY <2>1 DEF LookInv, Before, Replaces
<1>6. CASE Inserts
  <2>1. /\ op.pc = "insert" /\ op'.pc \in {"type", "inserted"}
        /\ op'.pc = "type" => focus = "target" \/ ~effect.guarded
        /\ UNCHANGED <<op.intent, op.available, focus, chosen>>
        /\ UNCHANGED <<effect.astray, effect.overwrote, effect.guarded>>
        /\ stale \ {"focus"} \subseteq stale'
    BY <1>6 DEF Inserts, Sees, At, To, Effects, PlaceTyped, Ops, Outcomes, user
  <2>2. QED
    BY <2>1 DEF LookInv, Before, Replaces
<1>7. CASE PutsIt
  <2>1. /\ op.pc = "type" /\ op'.pc = "inserted"
        /\ UNCHANGED <<op.intent, op.available, focus, chosen, stale, effect.guarded>>
        /\ \/ effect'.astray = (focus # "target")
              /\ effect'.overwrote = IF Replaces THEN chosen ELSE "none"
           \/ UNCHANGED <<effect.astray, effect.overwrote>>
    BY <1>7 DEF PutsIt, At, To, Effects, PlaceTyped, Ops, Outcomes, user
  <2>2. QED
    BY <2>1 DEF LookInv, Before, Replaces
<1>8. CASE Moves
  <2>1. UNCHANGED <<op, effect>> /\ stale \subseteq stale'
    BY <1>8 DEF Moves
  <2>2. /\ focus' # focus => "focus" \in stale'
        /\ chosen' # chosen => "selection" \in stale'
    BY <1>8 DEF Moves
  <2>3. QED
    BY <2>1, <2>2 DEF LookInv, Before, Replaces, PlaceTyped
<1>9. CASE UNCHANGED placeVars
  BY <1>9 DEF placeVars, LookInv, Replaces
<1>10. QED
  BY <1>1, <1>2, <1>3, <1>4, <1>5, <1>6, <1>7, <1>8, <1>9, QuietStep

LEMMA EndStep == PlaceTyped /\ EndInv /\ [PlaceNext]_placeVars => EndInv'
<1> SUFFICES ASSUME PlaceTyped, EndInv, [PlaceNext]_placeVars PROVE EndInv'
  OBVIOUS
<1> USE DEF EndInv, NothingLost, Arrived, At
<1>1. CASE Speaks
  <2>1. op'.pc \in {"begin", "draft", "ask", "search"} /\ text' = text /\ op.pc = "idle"
    BY <1>1, MeaningsBegun DEF Speaks, Begun
  <2>2. QED
    BY <2>1
<1>2. CASE Searches
  BY <1>2 DEF Searches, Done, Effects, To, Ops, Outcomes, PlaceTyped, user
<1>3. CASE Answers
  BY <1>3 DEF Answers, Done, Effects, To, Ops, Outcomes, PlaceTyped, user
<1>4. CASE DraftBegins
  BY <1>4 DEF DraftBegins, Done, Effects, To, Ops, Outcomes, PlaceTyped, user
<1>5. CASE WithoutModel
  BY <1>5 DEF WithoutModel, Done, Effects, To, Ops, Outcomes, PlaceTyped, user
<1>6. CASE AsksModel
  BY <1>6 DEF AsksModel, To, Ops, PlaceTyped, user
<1>7. CASE ModelSends
  BY <1>7 DEF ModelSends, PlaceTyped, user
<1>8. CASE ModelEnds
  BY <1>8 DEF ModelEnds, To, Ops, PlaceTyped, user
<1>9. CASE Joins
  <2>1. /\ UNCHANGED text
        /\ \/ op'.pc = "done" /\ effect'.target = "whole"
           \/ op'.pc = "suffix" /\ text = "streamed"
           \/ op'.pc = "copyOnly" /\ effect'.history = "copied"
           \/ op'.pc = "copyOnly" /\ effect'.history = "partial" /\ text = "none"
    <3>1. CASE Recovery = "complete"
      <4>1. effect' = [effect EXCEPT !.target = "whole"] /\ To("done") /\ UNCHANGED text
        BY <1>9, <3>1 DEF Joins, Recovery, Done, Effects
      <4>2. QED
        BY <4>1 DEF To, Ops, Outcomes, PlaceTyped
    <3>2. CASE Recovery = "suffix"
      BY <1>9, <3>2 DEF Joins, Recovery, To, Ops, PlaceTyped
    <3>3. CASE Recovery = "copyFull"
      BY <1>9, <3>3 DEF Joins, Recovery, Effects, To, Ops, Outcomes, PlaceTyped
    <3>4. CASE Recovery = "copyPart"
      BY <1>9, <3>4 DEF Joins, Recovery, Effects, To, Ops, Outcomes, PlaceTyped
    <3>5. QED
      BY <3>1, <3>2, <3>3, <3>4 DEF Recovery
  <2>2. QED
    BY <2>1
<1>10. CASE JoinsEmpty
  BY <1>10 DEF JoinsEmpty, EndsEarly, Done, Effects, To, Ops, Outcomes, PlaceTyped, user
<1>11. CASE Suffix
  <2>1. /\ UNCHANGED text
        /\ \/ op'.pc = "done" /\ effect'.target = "whole"
           \/ op'.pc = "copyOnly" /\ effect'.history = "copied"
    BY <1>11 DEF Suffix, Done, Effects, To, Ops, Outcomes, PlaceTyped
  <2>2. QED
    BY <2>1
<1>12. CASE CopiesOnly
  BY <1>12 DEF CopiesOnly, Done, Effects, To, Ops, Outcomes, PlaceTyped, user
<1>13. CASE WorkerTakes
  BY <1>13 DEF WorkerTakes, Worker, PlaceTyped, user
<1>14. CASE WorkerChecks
  BY <1>14 DEF WorkerChecks, Worker, PlaceTyped, user
<1>15. CASE WorkerTypes
  BY <1>15 DEF WorkerTypes, Worker, PlaceTyped, user
<1>16. CASE WorkerEnds
  BY <1>16 DEF WorkerEnds, Worker, PlaceTyped, user
<1>17. CASE Recaptures
  BY <1>17 DEF Recaptures, To, Ops, PlaceTyped, user
<1>18. CASE RestoresFocus
  BY <1>18 DEF RestoresFocus, To, Ops, PlaceTyped, user
<1>19. CASE ChecksTarget
  BY <1>19 DEF ChecksTarget, To, Ops, PlaceTyped, user
<1>20. CASE CopiesBlindly
  BY <1>20 DEF CopiesBlindly, Effects, To, Ops, Outcomes, PlaceTyped, user
<1>21. CASE Inserts
  BY <1>21 DEF Inserts, Effects, To, Ops, Outcomes, PlaceTyped, user
<1>22. CASE PutsIt
  BY <1>22 DEF PutsIt, Effects, To, Ops, Outcomes, PlaceTyped, user
<1>23. CASE Inserted
  BY <1>23 DEF Inserted, To, Ops, PlaceTyped, user
<1>24. CASE PopsUp
  BY <1>24 DEF PopsUp, Effects, To, Ops, Outcomes, PlaceTyped, user
<1>25. CASE Copies
  BY <1>25 DEF Copies, Effects, To, Ops, Outcomes, PlaceTyped, user
<1>26. CASE Copied
  BY <1>26 DEF Copied, Effects, To, Ops, Outcomes, PlaceTyped, user
<1>27. CASE OutputsRaw
  BY <1>27 DEF OutputsRaw, Done, Effects, To, Ops, Outcomes, PlaceTyped, user
<1>28. CASE Finishes
  BY <1>28 DEF Finishes, Done, Effects, To, Ops, Outcomes, PlaceTyped, user
<1>29. CASE Moves
  BY <1>29 DEF Moves, PlaceTyped, user
<1>30. CASE Aborts
  BY <1>30 DEF Aborts, PlaceTyped, user
<1>31. CASE UNCHANGED placeVars
  BY <1>31 DEF placeVars
<1>32. QED
   BY <1>1, <1>2, <1>3, <1>4, <1>5, <1>6, <1>7, <1>8, <1>9, <1>10, <1>11, <1>12, <1>13, <1>14,
     <1>15, <1>16, <1>17, <1>18, <1>19, <1>20, <1>21, <1>22, <1>23, <1>24, <1>25, <1>26, <1>27,
     <1>28, <1>29, <1>30, <1>31
     DEF PlaceNext, ModelStep, WorkerStep, ExecutionStep

PlaceInv == PlaceTyped /\ StreamInv /\ OpGranted /\ SearchInv /\ LookInv /\ EndInv

LEMMA PlaceInvInit == PlaceInit => PlaceInv
<1> SUFFICES ASSUME PlaceInit PROVE PlaceInv
  OBVIOUS
<1>1. Chunks \in Nat
  BY PlacementAssumption
<1>2. StreamInv
  BY <1>1 DEF PlaceInit, NoStream, StreamInv
<1>3. OpGranted
  BY DEF PlaceInit, NoOp, Intent, OpGranted, Granted
<1>4. SearchInv /\ LookInv /\ EndInv
   BY DEF PlaceInit, NoOp, NoEffect, Intent, PlacementOf, SearchInv, LookInv, EndInv,
     NothingLost, At,
         Replaces
<1>5. QED
  BY <1>2, <1>3, <1>4, PlaceTypedInit DEF PlaceInv

LEMMA PlaceInvStep == PlaceInv /\ [PlaceNext]_placeVars => PlaceInv'
<1> SUFFICES ASSUME PlaceInv, [PlaceNext]_placeVars PROVE PlaceInv'
  OBVIOUS
<1>1. PlaceTyped /\ StreamInv /\ OpGranted /\ SearchInv /\ LookInv /\ EndInv
  BY DEF PlaceInv
<1>2. PlaceTyped'
  BY <1>1, PlaceTypedStep
<1>3. StreamInv'
  BY <1>1, StreamStep
<1>4. OpGranted' /\ SearchInv'
  BY <1>1, MeaningStep
<1>5. LookInv'
  BY <1>1, LookStep
<1>6. EndInv'
  BY <1>1, EndStep
<1>7. QED
  BY <1>2, <1>3, <1>4, <1>5, <1>6 DEF PlaceInv

LEMMA PlaceInvHolds == PlaceSpec => []PlaceInv
  BY PlaceInvInit, PlaceInvStep, PTL DEF PlaceSpec

\* A selection is overwritten, a search opened and a draft written only for what
\* was meant so and is on; and a text goes astray only if the user has moved
\* since the last look, whatever is said, however it is cut, and however often
\* the user moves (VoiceIntentRouter::route, execute_voice_intent).
THEOREM PlacedRight == PlaceSpec => []PlacedWhereAllowed
<1>1. PlaceInv => PlacedWhereAllowed
  <2> SUFFICES ASSUME PlaceInv PROVE PlacedWhereAllowed
    OBVIOUS
  <2>1. PlaceTyped /\ OpGranted /\ SearchInv /\ LookInv
    BY DEF PlaceInv
  <2>2. Replaces => op.intent.kind \in {"RewriteSelection", "TranslateSelection"}
    BY <2>1 DEF Replaces, OpGranted, PlacementOf, PlaceTyped, Ops, Intents, IntentKinds
  <2>3. effect.overwrote # "none" =>
          /\ Granted(op.mode, op.selected, op.flags, op.intent.kind, op.may)
          /\ op.intent.kind \in {"RewriteSelection", "TranslateSelection"}
    BY <2>1, <2>2 DEF LookInv, OpGranted
  <2>4. effect.popup = "searched" => Granted(op.mode, op.selected, op.flags, "Search", op.may)
    BY <2>1 DEF SearchInv, OpGranted
  <2>5. op.intent.kind = "DraftInsert" => op.may \cap {"draft", "maybe"} # {}
    BY <2>1 DEF OpGranted, Granted
  <2>6. /\ effect.astray => "focus" \in stale \/ ~effect.guarded
        /\ effect.overwrote = "else" => "selection" \in stale
    BY <2>1 DEF LookInv
  <2>7. QED
    BY <2>3, <2>4, <2>5, <2>6 DEF PlacedWhereAllowed, Granted
<1>2. QED
  BY <1>1, PlaceInvHolds, PTL

\* What the model has written is in the application, on the clipboard or in a
\* window when the operation ends, unless the user aborted or a copy failed
\* (streaming_recovery_action, popup_or_copy, from_draft_execution).
THEOREM TextArrives == PlaceSpec => []NothingLost
<1>1. PlaceInv => NothingLost
  BY DEF PlaceInv, EndInv
<1>2. QED
  BY <1>1, PlaceInvHolds, PTL

\* The operation, the worker's counters and the effects keep their types.
THEOREM PlaceTypes == PlaceSpec => []PlaceTypeOK
<1>1. PlaceInv => PlaceTypeOK
  <2> SUFFICES ASSUME PlaceInv PROVE PlaceTypeOK
    OBVIOUS
  <2>1. /\ stream.sent \in Nat /\ stream.taken \in Nat /\ stream.placed \in Nat
        /\ stream.part \in BOOLEAN /\ Chunks \in Nat
    BY PlacementAssumption DEF PlaceInv, PlaceTyped, Streams
  <2>2. stream.taken \in 0..stream.sent /\ stream.placed \in 0..stream.taken
        /\ stream.sent \in 0..Chunks
    BY <2>1 DEF PlaceInv, StreamInv
  <2>3. QED
    BY <2>1, <2>2 DEF PlaceInv, PlaceTyped, PlaceTypeOK, Ops, Modes, Drafts, Outcomes, OpTargets
<1>2. QED
  BY <1>1, PlaceInvHolds, PTL

-----------------------------------------------------------------------------
(* SttSession                                                                *)

Listening == sttPc # "over"

MessageTypes == {"partial", "final", "finished", "error", "close", "broken"}
Messages == [type : MessageTypes, upTo : Nat]

SttTyped ==
  /\ kind \in Kinds /\ sttPc \in {"connect", "loop", "drain", "over"}
  /\ attempt \in 1..MaxAttempts /\ line \in {"open", "closing", "closed"}
  /\ recorded \in Nat /\ taken \in Nat /\ held \in Nat /\ got \in Nat /\ told \in Nat
  /\ recording \in BOOLEAN /\ asked \in BOOLEAN /\ late \in BOOLEAN
  /\ outcome \in {"none", "ok", "error", "aborted"}
  /\ inbox \in Seq(Messages) /\ heard \in Seq(Nat) /\ rest \in Seq(Nat)

\* Chunks are with the microphone, the task, the provider or the server.
Counters ==
  /\ told <= got /\ got + held <= taken /\ taken <= recorded /\ recorded <= MaxChunks
  /\ held <= (IF kind = "file" THEN MaxBuffer ELSE Block)
  /\ Listening => got + held = taken
  /\ kind = "cumulative" => held = 0
  /\ sttPc = "drain" => taken = recorded /\ held = 0 /\ kind # "stream"
  /\ sttPc = "connect" => recorded = 0

\* A file has no connection, and nobody is asked for the rest before the end.
LineInv ==
  /\ kind = "file" => line = "closed" /\ inbox = <<>> /\ told = 0
  /\ kind = "file" /\ sttPc \in {"connect", "loop"} => got = 0
  /\ sttPc = "connect" => line = "closed" /\ inbox = <<>>
  /\ asked /\ Listening => sttPc = "drain"
  /\ sttPc = "drain" /\ kind # "file" => asked

Known == Len(heard) + Len(rest)

CountsFrom(k, s) == \A i \in DOMAIN s : s[i] = k + i

\* What is heard, with what disconnect() has heard, are the first segments.
HeardInv ==
  /\ CountsFrom(0, heard) /\ Len(heard) <= got
  /\ Listening => CountsFrom(Len(heard), rest) /\ Known <= got
  /\ sttPc \in {"connect", "loop"} => rest = <<>>
  /\ Listening /\ kind \in {"cumulative", "file"} => heard = <<>>
  /\ kind = "file" => rest = <<>>
  /\ Listening => outcome = "none" /\ ~late
  /\ outcome = "ok" /\ ~late /\ kind # "stream" => Len(heard) = recorded

FinalAt(i) == inbox[i].type = "final"

\* The finals on their way are those that are not known, in their order; with
\* items, some that are known may come again.
Ordered == kind \in {"stream", "items"} =>
  /\ Known <= told
  /\ \A i \in DOMAIN inbox : inbox[i].type # "partial"
  /\ \A i \in DOMAIN inbox : FinalAt(i) => inbox[i].upTo \in 1..told
  /\ \A i, j \in DOMAIN inbox : i < j /\ FinalAt(i) /\ FinalAt(j) =>
       inbox[i].upTo <= inbox[j].upTo /\ (kind = "stream" => inbox[i].upTo # inbox[j].upTo)
  /\ \A n \in (Known + 1)..told : \E i \in DOMAIN inbox : FinalAt(i) /\ inbox[i].upTo = n
  /\ kind = "stream" => \A i \in DOMAIN inbox : FinalAt(i) => inbox[i].upTo > Known
  /\ kind = "items" => seen = 1..Known

\* Only the answer to the last frame is final, and it holds all.
Whole == kind = "cumulative" =>
  \A i \in DOMAIN inbox :
    /\ FinalAt(i) => asked /\ inbox[i].upTo = got
    /\ inbox[i].type = "partial" => inbox[i].upTo <= got

\* Nothing comes after the end of a session.
FinishedLast ==
  \A i \in DOMAIN inbox : inbox[i].type = "finished" =>
    kind = "items" /\ i = Len(inbox) /\ asked /\ told = got /\ line # "open"

InboxInv == Listening => Ordered /\ Whole /\ FinishedLast

SttInv == SttTyped /\ Counters /\ LineInv /\ HeardInv /\ InboxInv
-----------------------------------------------------------------------------
(* Counting sequences, and the messages *)

LEMMA CountsOneMore ==
  ASSUME NEW k \in Nat, NEW s \in Seq(Nat), CountsFrom(k, s)
  PROVE  /\ s \o <<k + Len(s) + 1>> \in Seq(Nat) /\ CountsFrom(k, s \o <<k + Len(s) + 1>>)
         /\ Len(s \o <<k + Len(s) + 1>>) = Len(s) + 1
<1> DEFINE more == s \o <<k + Len(s) + 1>>
<1>1. more \in Seq(Nat) /\ Len(more) = Len(s) + 1
  OBVIOUS
<1>2. ASSUME NEW i \in 1..(Len(s) + 1) PROVE more[i] = k + i
  <2>1. CASE i \in 1..Len(s)
    <3>1. more[i] = s[i] /\ i \in DOMAIN s
      BY <2>1
    <3>2. QED
      BY <3>1 DEF CountsFrom
  <2>2. CASE i = Len(s) + 1
    <3>1. more[Len(s) + 1] = k + Len(s) + 1
      OBVIOUS
    <3>2. QED
      BY <2>2, <3>1
  <2>3. QED
    BY <1>2, <2>1, <2>2
<1>3. CountsFrom(k, more)
  BY <1>1, <1>2 DEF CountsFrom
<1>4. QED
  BY <1>1, <1>3

LEMMA CountsTogether ==
  ASSUME NEW s \in Seq(Nat), NEW t \in Seq(Nat), CountsFrom(0, s), CountsFrom(Len(s), t)
  PROVE  s \o t \in Seq(Nat) /\ CountsFrom(0, s \o t) /\ Len(s \o t) = Len(s) + Len(t)
<1>1. Len(s \o t) = Len(s) + Len(t) /\ s \o t \in Seq(Nat)
  OBVIOUS
<1>2. ASSUME NEW i \in 1..(Len(s) + Len(t)) PROVE (s \o t)[i] = i
  <2>1. CASE i <= Len(s)
    BY <2>1 DEF CountsFrom
  <2>2. CASE i > Len(s)
    <3>1. i - Len(s) \in DOMAIN t /\ (s \o t)[i] = t[i - Len(s)]
      BY <2>2
    <3>2. QED
      BY <2>2, <3>1 DEF CountsFrom
  <2>3. QED
    BY <2>1, <2>2
<1>3. QED
  BY <1>1, <1>2 DEF CountsFrom

LEMMA CountsAll ==
  ASSUME NEW n \in Nat
  PROVE  LET s == [i \in 1..n |-> i]
         IN  s \in Seq(Nat) /\ CountsFrom(0, s) /\ Len(s) = n
  BY DEF CountsFrom

LEMMA MessagesAre ==
  /\ \A n \in Nat : Partial(n) \in Messages /\ Final(n) \in Messages
  /\ {Finished, ErrorSent, Closing, Broken} \subseteq Messages
  BY DEF Messages, MessageTypes, Partial, Final, Finished, ErrorSent, Closing, Broken

\* What is received is the first message, and the others move up.
LEMMA ReceivedIs ==
  ASSUME inbox \in Seq(Messages), NEW m, Receives(m)
  PROVE  /\ 1 \in DOMAIN inbox /\ m = inbox[1] /\ m \in Messages
         /\ inbox' \in Seq(Messages) /\ Len(inbox') = Len(inbox) - 1
         /\ \A i \in DOMAIN inbox' : i + 1 \in DOMAIN inbox /\ inbox'[i] = inbox[i + 1]
         /\ \A i \in DOMAIN inbox : i # 1 => i - 1 \in DOMAIN inbox' /\ inbox'[i - 1] = inbox[i]
  BY DEF Receives

LEMMA ServedIs ==
  ASSUME inbox \in Seq(Messages), NEW m \in Messages, Serves(m)
  PROVE  /\ inbox' \in Seq(Messages) /\ Len(inbox') = Len(inbox) + 1 /\ line = "open"
         /\ inbox'[Len(inbox')] = m
         /\ \A i \in DOMAIN inbox : i \in DOMAIN inbox' /\ inbox'[i] = inbox[i] /\ i < Len(inbox')
         /\ \A i \in DOMAIN inbox' : i \in DOMAIN inbox \/ i = Len(inbox')
         /\ Len(inbox') \in DOMAIN inbox'
  BY DEF Serves
-----------------------------------------------------------------------------
(* Types and counters *)

LEMMA SttInitially == SttInit => SttInv
<1> SUFFICES ASSUME SttInit PROVE SttInv
  OBVIOUS
<1>1. MaxChunks \in Nat /\ MaxBuffer \in Nat /\ Block \in Nat
  BY SttAssumption
<1>2. SttTyped
  <2>1. recording = TRUE /\ asked = FALSE /\ late = FALSE
    BY DEF SttInit
  <2>2. inbox \in Seq(Messages) /\ heard \in Seq(Nat) /\ rest \in Seq(Nat)
    BY DEF SttInit
  <2>3. recording \in BOOLEAN /\ asked \in BOOLEAN /\ late \in BOOLEAN
    BY <2>1
  <2>4. /\ attempt \in 1..MaxAttempts
        /\ recorded \in Nat /\ taken \in Nat /\ held \in Nat /\ got \in Nat /\ told \in Nat
    BY DEF SttInit, MaxAttempts
  <2>5. QED
    BY <2>2, <2>3, <2>4 DEF SttInit, SttTyped
<1>3. Counters /\ LineInv
  BY <1>1, <1>2 DEF SttInit, Counters, LineInv, SttTyped
<1>4. HeardInv /\ InboxInv
   BY <1>2 DEF SttInit, HeardInv, InboxInv, Known, CountsFrom, Ordered, Whole, FinishedLast,
     SttTyped, FinalAt
<1>5. QED
  BY <1>2, <1>3, <1>4 DEF SttInv

LEMMA HearTyped ==
  ASSUME SttTyped, NEW m \in Messages
  PROVE  Segments(m) \in Seq(Nat) /\ (heard \o Segments(m)) \in Seq(Nat)
<1>1. m.upTo \in Nat
  BY DEF Messages
<1>2. [n \in 1..m.upTo |-> n] \in Seq(Nat) /\ <<m.upTo>> \in Seq(Nat)
  BY <1>1
<1>3. QED
  BY <1>2 DEF Segments, SttTyped

LEMMA SttTypedStep == SttTyped /\ [SttNext]_sttVars => SttTyped'
<1> SUFFICES ASSUME SttTyped, [SttNext]_sttVars PROVE SttTyped'
  OBVIOUS
<1>1. CASE Connects \/ \E permanent \in BOOLEAN : ConnectFails(permanent)
  BY <1>1 DEF Connects, ConnectFails, Retries, Ends, MaxAttempts, audio, server, SttTyped
<1>2. CASE Records \/ RecordingStops
  <2>1. recorded' \in Nat /\ recording' \in BOOLEAN
    <3>1. recorded' \in Nat
      BY <1>2 DEF Records, RecordingStops, SttTyped
    <3>2. recording' = recording \/ recording' = FALSE
      BY <1>2 DEF Records, RecordingStops
    <3>3. QED
      BY <3>1, <3>2 DEF SttTyped
  <2>2. QED
    BY <1>2, <2>1 DEF Records, RecordingStops, server, SttTyped
<1>3. CASE ServerAnswers \/ ServerFails
  <2>1. \E m \in Messages : Serves(m)
    BY <1>3, MessagesAre DEF ServerAnswers, ServerFails, SttTyped
  <2>2. inbox' \in Seq(Messages)
    BY <2>1, ServedIs DEF SttTyped
  <2>3. told' \in Nat /\ line' \in {"open", "closing", "closed"}
    BY <1>3 DEF ServerAnswers, ServerFails, SttTyped
  <2>4. QED
    BY <2>1, <2>2, <2>3 DEF Serves, audio, SttTyped
<1>4. CASE TaskSends \/ TaskCannotSend
  BY <1>4 DEF TaskSends, TaskCannotSend, Sends, Ends, server, SttTyped
<1>5. CASE TaskHears
  <2>1. PICK m \in ToSet(inbox) :
          /\ Receives(m)
          /\ IF m.type \in {"error", "broken"}
             THEN Ends("error") /\ UNCHANGED <<seen, rest, heard>>
             ELSE Hears(m) /\ UNCHANGED <<sttPc, outcome>>
          /\ line' = IF m.type \in {"close", "broken"} THEN "closed" ELSE line
          /\ UNCHANGED <<kind, attempt, audio, got, told, asked, rest, late>>
    BY <1>5 DEF TaskHears
  <2>2. m \in Messages /\ inbox' \in Seq(Messages)
    BY <2>1, ReceivedIs DEF SttTyped
  <2>3. heard' \in Seq(Nat)
    BY <2>1, <2>2, HearTyped DEF Hears, SttTyped
  <2>4. QED
    BY <2>1, <2>2, <2>3 DEF Ends, audio, SttTyped
<1>6. CASE TaskAborts \/ ClosesAtOnce \/ AsksForRest \/ Uploads
  <2>1. CASE TaskAborts
    BY <2>1 DEF TaskAborts, Ends, audio, server, SttTyped
  <2>2. CASE ClosesAtOnce
    BY <2>2 DEF ClosesAtOnce, Ends, audio, SttTyped
  <2>3. CASE AsksForRest
    <3>1. asked' \in BOOLEAN /\ held' \in Nat /\ got' \in Nat
      <4>1. held' \in Nat /\ got' \in Nat
        BY <2>3 DEF AsksForRest, Sends, SttTyped
      <4>2. asked' = TRUE \/ asked' = asked
        BY <2>3 DEF AsksForRest
      <4>3. QED
        BY <4>1, <4>2 DEF SttTyped
    <3>2. QED
      BY <2>3, <3>1 DEF AsksForRest, Ends, SttTyped
  <2>4. CASE Uploads
    BY <2>4 DEF Uploads, SttTyped
  <2>5. QED
    BY <1>6, <2>1, <2>2, <2>3, <2>4
<1>7. CASE DrainHears
  <2>1. PICK m \in ToSet(inbox) :
          /\ Receives(m)
          /\ rest' = IF m.type \notin {"partial", "final"} THEN rest
                     ELSE IF kind = "cumulative" THEN Segments(m)
                     ELSE IF IsNews(m) THEN rest \o Segments(m) ELSE rest
          /\ CASE m.type \in {"error", "broken"} -> Ends("error") /\ UNCHANGED heard
               [] m.type \in {"close", "finished"} \/ (m.type = "final" /\ kind = "cumulative")
                    -> Ends("ok") /\ heard' = heard \o rest'
               [] OTHER -> UNCHANGED <<sttPc, outcome, heard>>
          /\ late' = (late \/ m.type = "close")
          /\ UNCHANGED <<kind, attempt, audio, got, told, asked, line>>
    BY <1>7 DEF DrainHears
  <2>2. m \in Messages /\ inbox' \in Seq(Messages)
    BY <2>1, ReceivedIs DEF SttTyped
  <2>3. rest' \in Seq(Nat)
    BY <2>1, <2>2, HearTyped DEF SttTyped
  <2>4. heard' \in Seq(Nat)
    <3>1. heard \in Seq(Nat) /\ heard \o rest' \in Seq(Nat)
      BY <2>3 DEF SttTyped
    <3>2. heard' \in {heard, heard \o rest'}
      BY <2>1
    <3>3. QED
      BY <3>1, <3>2
  <2>5. QED
    BY <2>1, <2>2, <2>3, <2>4 DEF Ends, audio, SttTyped
<1>8. CASE DrainTimesOut \/ UploadAnswers
  <2>1. CASE DrainTimesOut
    <3>1. heard \o rest \in Seq(Nat)
      BY DEF SttTyped
    <3>2. QED
      BY <2>1, <3>1 DEF DrainTimesOut, Ends, audio, server, SttTyped
  <2>2. CASE UploadAnswers
    <3>1. got \in Nat /\ [n \in 1..got |-> n] \in Seq(Nat)
      BY CountsAll DEF SttTyped
    <3>2. heard' \in Seq(Nat) /\ attempt' \in 1..MaxAttempts
      BY <2>2, <3>1 DEF UploadAnswers, SttTyped, MaxAttempts
    <3>3. QED
      BY <2>2, <3>2 DEF UploadAnswers, Ends, audio, server, SttTyped
  <2>3. QED
    BY <1>8, <2>1, <2>2
<1>9. CASE UNCHANGED sttVars
  BY <1>9 DEF sttVars, SttTyped
<1>10. QED
  BY <1>1, <1>2, <1>3, <1>4, <1>5, <1>6, <1>7, <1>8, <1>9 DEF SttNext, Disconnect
-----------------------------------------------------------------------------
(* The counters, and the line *)

LEMMA CountersStep ==
  SttTyped /\ Counters /\ LineInv /\ [SttNext]_sttVars => Counters'
<1> SUFFICES ASSUME SttTyped, Counters, LineInv, [SttNext]_sttVars PROVE Counters'
  OBVIOUS
<1>1. /\ recorded \in Nat /\ taken \in Nat /\ held \in Nat /\ got \in Nat /\ told \in Nat
      /\ MaxChunks \in Nat /\ MaxBuffer \in Nat /\ Block \in Nat /\ Block > 0
  BY SttAssumption DEF SttTyped
<1> USE DEF Counters, Listening
<1>2. CASE Connects \/ \E permanent \in BOOLEAN : ConnectFails(permanent)
  BY <1>2 DEF Connects, ConnectFails, Ends, audio, server
<1>3. CASE Records
  BY <1>1, <1>3 DEF Records, server
<1>4. CASE RecordingStops
  BY <1>4 DEF RecordingStops, server
<1>5. CASE ServerAnswers \/ ServerFails
  <2>1. UNCHANGED <<kind, sttPc, audio, got>> /\ told' \in {told, told + 1, got}
        /\ (told' # told => told < got)
    BY <1>5 DEF ServerAnswers, ServerFails, Serves
  <2>2. QED
    BY <1>1, <2>1 DEF audio
<1>6. CASE TaskSends
  <2>1. /\ sttPc = "loop" /\ taken < recorded /\ taken' = taken + 1
        /\ UNCHANGED <<kind, sttPc, recorded, told>>
    BY <1>6 DEF TaskSends, AudioWaits
  <2>2. \/ kind = "file" /\ held < MaxBuffer /\ held' = held + 1 /\ got' = got
        \/ kind = "items" /\ held + 1 < Block /\ held' = held + 1 /\ got' = got
        \/ held' = 0 /\ got' = got + held + 1
    BY <1>1, <1>6 DEF TaskSends, Sends
  <2>3. got + held = taken
    BY <2>1
  <2>4. CASE kind = "file" /\ held < MaxBuffer /\ held' = held + 1 /\ got' = got
    BY <1>1, <2>1, <2>3, <2>4
  <2>5. CASE kind = "items" /\ held + 1 < Block /\ held' = held + 1 /\ got' = got
    BY <1>1, <2>1, <2>3, <2>5
  <2>6. CASE held' = 0 /\ got' = got + held + 1
    BY <1>1, <2>1, <2>3, <2>6
  <2>7. QED
    BY <2>2, <2>4, <2>5, <2>6
<1>7. CASE TaskCannotSend
  BY <1>1, <1>7 DEF TaskCannotSend, Ends, AudioWaits, server
<1>8. CASE TaskHears
  <2>1. UNCHANGED <<kind, audio, got, told>> /\ sttPc' \in {sttPc, "over"} /\ sttPc = "loop"
    BY <1>8 DEF TaskHears, Ends
  <2>2. QED
    BY <2>1 DEF audio
<1>9. CASE TaskAborts \/ ClosesAtOnce \/ DrainTimesOut
  BY <1>9 DEF TaskAborts, ClosesAtOnce, DrainTimesOut, Ends, audio, server
<1>10. CASE AsksForRest
  <2>1. /\ sttPc = "loop" /\ kind \in {"cumulative", "items"} /\ taken = recorded
        /\ UNCHANGED <<kind, recorded, taken, told>>
    BY <1>1, <1>10 DEF AsksForRest, AudioEnds, AudioWaits, Counters
  <2>2. \/ sttPc' = "drain" /\ got' = got + held /\ held' = 0
        \/ sttPc' = "over" /\ UNCHANGED <<held, got>>
    BY <1>10 DEF AsksForRest, Sends, Ends
  <2>3. QED
    BY <1>1, <2>1, <2>2
<1>11. CASE DrainHears
  <2>1. UNCHANGED <<kind, audio, got, told>> /\ sttPc' \in {sttPc, "over"} /\ sttPc = "drain"
    BY <1>11 DEF DrainHears, Ends
  <2>2. QED
    BY <2>1 DEF audio
<1>12. CASE Uploads
  <2>1. /\ sttPc = "loop" /\ kind = "file" /\ taken = recorded /\ got = 0 /\ told = 0
        /\ UNCHANGED <<kind, recorded, taken, told>> /\ got' = held /\ held' = 0 /\ sttPc' = "drain"
    BY <1>1, <1>12 DEF Uploads, AudioEnds, AudioWaits, Counters, LineInv
  <2>2. QED
    BY <1>1, <2>1
<1>13. CASE UploadAnswers
  BY <1>13 DEF UploadAnswers, Ends, audio, server
<1>14. CASE UNCHANGED sttVars
  BY <1>14 DEF sttVars
<1>15. QED
  BY <1>2, <1>3, <1>4, <1>5, <1>6, <1>7, <1>8, <1>9, <1>10, <1>11, <1>12, <1>13, <1>14
     DEF SttNext, Disconnect

LEMMA LineStep == SttTyped /\ LineInv /\ [SttNext]_sttVars => LineInv'
<1> SUFFICES ASSUME SttTyped, LineInv, [SttNext]_sttVars PROVE LineInv'
  OBVIOUS
<1> USE DEF LineInv, Listening
<1>1. CASE Connects \/ \E permanent \in BOOLEAN : ConnectFails(permanent)
  BY <1>1 DEF Connects, ConnectFails, Ends, audio, server, SttTyped
<1>2. CASE Records \/ RecordingStops
  BY <1>2 DEF Records, RecordingStops, server, SttTyped
<1>3. CASE ServerAnswers \/ ServerFails
  <2>1. line = "open" /\ UNCHANGED <<kind, sttPc, asked>>
    BY <1>3 DEF ServerAnswers, ServerFails, Serves
  <2>2. kind # "file" /\ sttPc # "connect"
    BY <2>1
  <2>3. QED
    BY <2>1, <2>2
<1>4. CASE TaskSends
  BY <1>4 DEF TaskSends, Sends
<1>5. CASE TaskCannotSend
  BY <1>5 DEF TaskCannotSend, Ends, server
<1>6. CASE TaskHears
  <2>1. /\ UNCHANGED <<kind, asked, got, told>> /\ sttPc = "loop" /\ sttPc' \in {sttPc, "over"}
        /\ \E m \in ToSet(inbox) : inbox # <<>>
    BY <1>6 DEF TaskHears, Receives, Ends
  <2>2. kind # "file"
    BY <2>1
  <2>3. QED
    BY <2>1, <2>2
<1>7. CASE TaskAborts \/ ClosesAtOnce \/ DrainTimesOut
  BY <1>7 DEF TaskAborts, ClosesAtOnce, DrainTimesOut, AudioEnds, Ends, audio, server
<1>8. CASE AsksForRest
  <2>1. /\ UNCHANGED <<kind, line, inbox, told>> /\ sttPc = "loop" /\ kind # "file"
        /\ \/ sttPc' = "drain" /\ asked' = TRUE
           \/ sttPc' = "over"
    BY <1>8 DEF AsksForRest, AudioEnds, Ends
  <2>2. QED
    BY <2>1
<1>9. CASE DrainHears
  <2>1. UNCHANGED <<kind, asked, got, told, line>> /\ kind # "file" /\ sttPc = "drain"
        /\ sttPc' \in {sttPc, "over"}
    BY <1>9 DEF DrainHears, Ends
  <2>2. QED
    BY <2>1
<1>10. CASE Uploads
  BY <1>10 DEF Uploads, AudioEnds
<1>11. CASE UploadAnswers
  BY <1>11 DEF UploadAnswers, Ends, audio, server
<1>12. CASE UNCHANGED sttVars
  BY <1>12 DEF sttVars
<1>13. QED
  BY <1>1, <1>2, <1>3, <1>4, <1>5, <1>6, <1>7, <1>8, <1>9, <1>10, <1>11, <1>12
     DEF SttNext, Disconnect
-----------------------------------------------------------------------------
(* What is received *)

LEMMA NewsIsNext ==
  ASSUME SttTyped, HeardInv, Listening, InboxInv, kind \in {"stream", "items"},
         NEW m, Receives(m), IsNews(m)
  PROVE  /\ m.upTo = Known + 1 /\ m.upTo <= told /\ Segments(m) = <<Known + 1>>
<1>1. /\ 1 \in DOMAIN inbox /\ m = inbox[1] /\ FinalAt(1) /\ m \in Messages
  BY ReceivedIs DEF SttTyped, IsNews, FinalAt
<1>2. Known \in Nat /\ told \in Nat /\ m.upTo \in Nat /\ Ordered
  BY <1>1 DEF SttTyped, Known, Messages, InboxInv
<1>3. m.upTo \in 1..told
  BY <1>1, <1>2 DEF Ordered
<1>4. m.upTo > Known
  BY <1>1, <1>2, <1>3 DEF Ordered, IsNews
<1>5. ASSUME m.upTo > Known + 1 PROVE FALSE
  <2>1. PICK i \in DOMAIN inbox : FinalAt(i) /\ inbox[i].upTo = Known + 1
    BY <1>2, <1>3, <1>5 DEF Ordered
  <2>2. i # 1 /\ 1 < i
    <3>1. i # 1
      BY <1>1, <1>2, <1>5, <2>1
    <3>2. i \in Nat /\ i >= 1
      BY <2>1 DEF SttTyped
    <3>3. QED
      BY <3>1, <3>2
  <2>3. m.upTo <= Known + 1
    BY <1>1, <1>2, <2>1, <2>2 DEF Ordered
  <2>4. QED
    BY <1>2, <1>5, <2>3
<1>6. m.upTo = Known + 1
  BY <1>2, <1>4, <1>5
<1>7. QED
  BY <1>3, <1>6 DEF Segments

LEMMA OrderedWithout ==
  ASSUME SttTyped, Ordered, kind \in {"stream", "items"}, NEW m, Receives(m),
         UNCHANGED <<kind, told>>,
         \/ /\ FinalAt(1) /\ m.upTo = Known + 1 /\ m.upTo <= told /\ Known' = Known + 1
            /\ kind = "items" => seen' = seen \cup {m.upTo}
         \/ /\ FinalAt(1) => kind = "items" /\ m.upTo \in seen
            /\ Known' = Known /\ seen' = seen
  PROVE  Ordered'
<1>1. /\ 1 \in DOMAIN inbox /\ m = inbox[1]
      /\ inbox' \in Seq(Messages)
      /\ \A i \in DOMAIN inbox' : i + 1 \in DOMAIN inbox /\ inbox'[i] = inbox[i + 1]
      /\ \A i \in DOMAIN inbox : i # 1 => i - 1 \in DOMAIN inbox' /\ inbox'[i - 1] = inbox[i]
  BY ReceivedIs DEF SttTyped
<1>2. Known \in Nat /\ told \in Nat /\ Known' \in {Known, Known + 1}
      /\ DOMAIN inbox \subseteq Nat \ {0} /\ DOMAIN inbox' \subseteq Nat \ {0}
  BY <1>1 DEF SttTyped, Known
<1>3. Known' <= told
  BY <1>2 DEF Ordered
<1>4. /\ \A i \in DOMAIN inbox' : inbox'[i].type # "partial"
      /\ \A i \in DOMAIN inbox' : FinalAt(i)' => inbox'[i].upTo \in 1..told
  BY <1>1, <1>2 DEF Ordered, FinalAt
<1>5. ASSUME NEW i \in DOMAIN inbox', NEW j \in DOMAIN inbox', i < j, FinalAt(i)', FinalAt(j)'
      PROVE  inbox'[i].upTo <= inbox'[j].upTo
             /\ (kind = "stream" => inbox'[i].upTo # inbox'[j].upTo)
  <2>1. /\ i + 1 \in DOMAIN inbox /\ j + 1 \in DOMAIN inbox /\ i + 1 < j + 1
        /\ inbox'[i] = inbox[i + 1] /\ inbox'[j] = inbox[j + 1]
        /\ FinalAt(i + 1) /\ FinalAt(j + 1)
    BY <1>1, <1>2, <1>5 DEF FinalAt
  <2>2. QED
    BY <2>1 DEF Ordered
<1>6. ASSUME NEW n \in (Known' + 1)..told
      PROVE  \E i \in DOMAIN inbox' : FinalAt(i)' /\ inbox'[i].upTo = n
  <2>1. n \in (Known + 1)..told /\ n > Known'
    <3>1. Known' \in Nat /\ Known <= Known'
      BY <1>2
    <3>2. \A a, b, c \in Nat : \A k \in (b + 1)..c : a <= b => k \in (a + 1)..c /\ k > b
      OBVIOUS
    <3>3. QED
      BY <1>2, <1>6, <3>1, <3>2
  <2>2. PICK i \in DOMAIN inbox : FinalAt(i) /\ inbox[i].upTo = n
    BY <2>1 DEF Ordered
  <2>3. i # 1
    BY <1>1, <1>2, <2>1, <2>2 DEF Ordered
  <2>4. i - 1 \in DOMAIN inbox' /\ inbox'[i - 1] = inbox[i]
    BY <1>1, <2>3
  <2>5. QED
    BY <2>2, <2>4 DEF FinalAt
<1>7. ASSUME kind = "stream", NEW i \in DOMAIN inbox', FinalAt(i)' PROVE inbox'[i].upTo > Known'
  <2>1. i + 1 \in DOMAIN inbox /\ FinalAt(i + 1) /\ inbox'[i] = inbox[i + 1] /\ i + 1 > 1
    BY <1>1, <1>2, <1>7 DEF FinalAt
  <2>2. inbox[i + 1].upTo > Known /\ inbox[i + 1].upTo \in Nat
    BY <1>2, <1>7, <2>1 DEF Ordered
  <2>3. FinalAt(1) => inbox[1].upTo <= inbox[i + 1].upTo /\ inbox[1].upTo # inbox[i + 1].upTo
    BY <1>1, <1>2, <1>7, <2>1 DEF Ordered
  <2>4. QED
    BY <1>1, <1>2, <1>7, <2>1, <2>2, <2>3
<1>8. kind = "items" => seen' = 1..Known'
  <2>1. CASE Known' = Known /\ seen' = seen
    BY <2>1 DEF Ordered
  <2>2. CASE /\ m.upTo = Known + 1 /\ Known' = Known + 1
             /\ kind = "items" => seen' = seen \cup {m.upTo}
    <3>1. (1..Known) \cup {Known + 1} = 1..(Known + 1)
      BY <1>2
    <3>2. QED
      BY <2>2, <3>1 DEF Ordered
  <2>3. QED
    BY <2>1, <2>2
<1>9. QED
  BY <1>3, <1>4, <1>5, <1>6, <1>7, <1>8 DEF Ordered

LEMMA WholeWithout ==
  ASSUME SttTyped, Whole, FinishedLast, NEW m, Receives(m),
         UNCHANGED <<kind, asked, got, told>>, line' = "open" => line = "open"
  PROVE  Whole' /\ FinishedLast'
<1>1. /\ inbox' \in Seq(Messages) /\ Len(inbox') = Len(inbox) - 1 /\ Len(inbox) \in Nat
      /\ \A i \in DOMAIN inbox' : i + 1 \in DOMAIN inbox /\ inbox'[i] = inbox[i + 1]
      /\ DOMAIN inbox' \subseteq Nat
  BY ReceivedIs DEF SttTyped
<1>2. Whole'
  BY <1>1 DEF Whole, FinalAt
<1>3. FinishedLast'
  BY <1>1 DEF FinishedLast
<1>4. QED
  BY <1>2, <1>3

\* TaskHears and DrainHears, for the message that they receive
Hearing(m) ==
  /\ sttPc = "loop" /\ Receives(m)
  /\ IF m.type \in {"error", "broken"}
     THEN Ends("error") /\ UNCHANGED <<seen, rest, heard>>
     ELSE Hears(m) /\ UNCHANGED <<sttPc, outcome>>
  /\ line' = IF m.type \in {"close", "broken"} THEN "closed" ELSE line
  /\ UNCHANGED <<kind, attempt, audio, got, told, asked, rest, late>>

Draining(m) ==
  /\ sttPc = "drain" /\ kind # "file" /\ Receives(m)
  /\ rest' = IF m.type \notin {"partial", "final"} THEN rest
             ELSE IF kind = "cumulative" THEN Segments(m)
             ELSE IF IsNews(m) THEN rest \o Segments(m) ELSE rest
  /\ seen' = IF m.type = "final" THEN seen \cup {m.upTo} ELSE seen
  /\ CASE m.type \in {"error", "broken"} -> Ends("error") /\ UNCHANGED heard
       [] m.type \in {"close", "finished"} \/ (m.type = "final" /\ kind = "cumulative")
            -> Ends("ok") /\ heard' = heard \o rest'
       [] OTHER -> UNCHANGED <<sttPc, outcome, heard>>
  /\ late' = (late \/ m.type = "close")
  /\ UNCHANGED <<kind, attempt, audio, got, told, asked, line>>

LEMMA HearingIs ==
  ASSUME SttTyped
  PROVE  /\ TaskHears => \E m \in Messages : Hearing(m)
         /\ DrainHears => \E m \in Messages : Draining(m)
<1>1. \A m : Receives(m) => m \in Messages
  BY ReceivedIs DEF SttTyped
<1>2. TaskHears => \E m \in Messages : Hearing(m)
  BY <1>1 DEF TaskHears, Hearing
<1>3. DrainHears => \E m \in Messages : Draining(m)
  BY <1>1 DEF DrainHears, Draining
<1>4. QED
  BY <1>2, <1>3
-----------------------------------------------------------------------------
(* What is heard *)

\* A session that is finished has told all, and all of it is known.
LEMMA FinishedKnowsAll ==
  ASSUME SttTyped, Counters, HeardInv, InboxInv, Listening,
         NEW m, Receives(m), m.type = "finished"
  PROVE  kind = "items" /\ asked /\ Known = got
<1>1. 1 \in DOMAIN inbox /\ m = inbox[1] /\ Len(inbox) \in Nat /\ Known \in Nat
  BY ReceivedIs DEF SttTyped, Known
<1>2. kind = "items" /\ Len(inbox) = 1 /\ asked /\ told = got
  BY <1>1 DEF InboxInv, FinishedLast
<1>3. ~FinalAt(1) /\ DOMAIN inbox = {1}
  BY <1>1, <1>2 DEF FinalAt, SttTyped
<1>4. (Known + 1)..told = {}
  BY <1>2, <1>3 DEF InboxInv, Ordered
<1>5. told \in Nat /\ Known <= told
  BY <1>2 DEF InboxInv, Ordered, SttTyped
<1>6. ASSUME Known < told PROVE FALSE
  BY <1>1, <1>4, <1>5, <1>6
<1>7. QED
  BY <1>1, <1>2, <1>5, <1>6

LEMMA HeardStep ==
  ASSUME SttTyped, Counters, LineInv, HeardInv, InboxInv, [SttNext]_sttVars
  PROVE  HeardInv'
<1>1. /\ recorded \in Nat /\ taken \in Nat /\ held \in Nat /\ got \in Nat /\ told \in Nat
      /\ heard \in Seq(Nat) /\ rest \in Seq(Nat) /\ Len(heard) \in Nat /\ Len(rest) \in Nat
  BY DEF SttTyped
<1>2. CASE Connects \/ \E permanent \in BOOLEAN : ConnectFails(permanent)
  BY <1>2 DEF Connects, ConnectFails, Ends, audio, server, HeardInv, Listening, Known
<1>3. CASE Records \/ RecordingStops
  BY <1>3 DEF Records, RecordingStops, server, HeardInv, Listening, Known
<1>4. CASE ServerAnswers \/ ServerFails
  <2>1. UNCHANGED <<kind, sttPc, recorded, got, rest, heard, outcome, late>>
    BY <1>4 DEF ServerAnswers, ServerFails, Serves, audio
  <2>2. QED
    BY <2>1 DEF HeardInv, Listening, Known
<1>5. CASE TaskSends
  <2>1. /\ UNCHANGED <<kind, sttPc, recorded, rest, heard, outcome, late>>
        /\ got' \in Nat /\ got' >= got
    BY <1>1, <1>5, SMTT(30) DEF TaskSends, Sends
  <2>2. QED
    BY <1>1, <2>1 DEF HeardInv, Listening, Known
<1>6. CASE TaskCannotSend \/ TaskAborts
  BY <1>6 DEF TaskCannotSend, TaskAborts, Ends, server, audio, HeardInv, Listening
<1>7. CASE TaskHears
  <2>1. PICK m \in Messages : Hearing(m)
    BY <1>7, HearingIs
  <2>2. /\ sttPc = "loop" /\ Receives(m) /\ rest = <<>> /\ Listening /\ kind # "file"
        /\ UNCHANGED <<kind, recorded, got, told, rest, late>>
    BY <2>1, ReceivedIs DEF Hearing, HeardInv, LineInv, Listening, audio, SttTyped
  <2>3. CASE heard' = heard
    BY <2>1, <2>2, <2>3 DEF Hearing, Ends, HeardInv, Listening, Known
  <2>4. CASE heard' # heard
    <3>1. IsNews(m) /\ heard' = heard \o Segments(m) /\ sttPc' = sttPc /\ outcome' = outcome
      BY <2>1, <2>4 DEF Hearing, Hears
    <3>2. kind \in {"stream", "items"}
      <4>1. kind # "cumulative"
        <5>1. ~asked
          BY <2>2 DEF LineInv, Listening
        <5>2. kind = "cumulative" => ~FinalAt(1)
          BY <2>2, <5>1, ReceivedIs DEF InboxInv, Whole, SttTyped
        <5>3. FinalAt(1)
          BY <2>2, <3>1, ReceivedIs DEF IsNews, FinalAt, SttTyped
        <5>4. QED
          BY <5>2, <5>3
      <4>2. QED
        BY <2>2, <4>1 DEF SttTyped, Kinds
    <3>3. Segments(m) = <<0 + Len(heard) + 1>> /\ Known + 1 <= told /\ Known = Len(heard)
      BY <1>1, <2>2, <3>1, <3>2, NewsIsNext DEF Known
    <3>4. CountsFrom(0, heard') /\ Len(heard') = Len(heard) + 1
      BY <1>1, <3>1, <3>3, CountsOneMore DEF HeardInv
    <3>5. QED
      BY <1>1, <2>2, <3>1, <3>2, <3>3, <3>4 DEF HeardInv, Listening, Known, Counters, CountsFrom
  <2>5. QED
    BY <2>3, <2>4
<1>8. CASE ClosesAtOnce
  <2>1. /\ sttPc = "loop" /\ sttPc' = "over" /\ outcome' = "ok" /\ taken = recorded
        /\ UNCHANGED <<kind, recorded, got, heard, rest, late>>
        /\ kind \in {"stream", "cumulative", "file"}
        /\ kind = "cumulative" => got = 0
        /\ kind = "file" => held = 0
    <3>1. kind \in Kinds
      BY DEF SttTyped
    <3>2. sttPc = "loop" /\ taken = recorded
      BY <1>1, <1>8 DEF ClosesAtOnce, AudioEnds, AudioWaits, Counters
    <3>3. sttPc' = "over" /\ outcome' = "ok" /\ UNCHANGED <<kind, recorded, got, heard, rest, late>>
      BY <1>8 DEF ClosesAtOnce, Ends, audio
    <3>4. /\ kind = "items" => FALSE
          /\ kind = "cumulative" => got = 0
          /\ kind = "file" => held = 0
      BY <1>8 DEF ClosesAtOnce
    <3>5. QED
      BY <3>1, <3>2, <3>3, <3>4 DEF Kinds
  <2>2. kind # "stream" => recorded = 0 /\ Len(heard) = 0
    BY <1>1, <2>1 DEF Counters, LineInv, HeardInv, Listening
  <2>3. QED
    BY <2>1, <2>2 DEF HeardInv, Listening
<1>9. CASE AsksForRest
  <2>1. /\ sttPc = "loop" /\ UNCHANGED <<kind, recorded, rest, heard, late>>
        /\ got' \in Nat /\ got' >= got
        /\ \/ sttPc' = "drain" /\ UNCHANGED outcome
           \/ sttPc' = "over" /\ outcome' = "error"
    BY <1>1, <1>9 DEF AsksForRest, AudioEnds, Sends, Ends
  <2>2. QED
    BY <1>1, <2>1 DEF HeardInv, Listening, Known
<1>10. CASE DrainHears
  <2>1. PICK m \in Messages : Draining(m)
    BY <1>10, HearingIs
  <2>2. /\ sttPc = "drain" /\ Listening /\ kind \in {"items", "cumulative"} /\ Receives(m)
        /\ UNCHANGED <<kind, recorded, got, told>> /\ ~late /\ outcome = "none"
        /\ got = recorded
    BY <1>1, <2>1 DEF Draining, Counters, HeardInv, Listening, audio, SttTyped, Kinds
  <2>3. /\ rest' \in Seq(Nat) /\ CountsFrom(Len(heard), rest')
        /\ Len(heard) + Len(rest') <= got
        /\ kind = "items" /\ m.type # "final" => rest' = rest
        /\ kind = "cumulative" /\ m.type = "final" => Len(heard) + Len(rest') = got
    <3>1. CASE rest' = rest /\ ~(kind = "cumulative" /\ m.type = "final")
      BY <1>1, <2>2, <3>1 DEF HeardInv, Known
    <3>2. CASE kind = "cumulative" /\ m.type \in {"partial", "final"}
      <4>1. heard = <<>> /\ Len(heard) = 0 /\ rest' = Segments(m) /\ m.upTo \in Nat
        BY <2>1, <2>2, <3>2 DEF HeardInv, Draining, Messages
      <4>2. rest' = [n \in 1..m.upTo |-> n]
        BY <3>2, <4>1 DEF Segments
      <4>3. rest' \in Seq(Nat) /\ CountsFrom(0, rest') /\ Len(rest') = m.upTo
        BY <4>1, <4>2, CountsAll
      <4>4. m.upTo <= got /\ (m.type = "final" => m.upTo = got)
        BY <1>1, <2>2, <3>2, ReceivedIs DEF InboxInv, Whole, FinalAt, SttTyped
      <4>5. QED
        BY <1>1, <3>2, <4>1, <4>3, <4>4
    <3>3. CASE kind = "items" /\ IsNews(m)
      <4>1. Segments(m) = <<Len(heard) + Len(rest) + 1>> /\ Known + 1 <= told
        BY <2>2, <3>3, NewsIsNext DEF Known
      <4>2. rest' = rest \o <<Len(heard) + Len(rest) + 1>>
        BY <2>1, <3>3, <4>1 DEF Draining, IsNews
      <4>3. rest' \in Seq(Nat) /\ CountsFrom(Len(heard), rest') /\ Len(rest') = Len(rest) + 1
        BY <1>1, <2>2, <4>2, CountsOneMore DEF HeardInv
      <4>4. QED
        BY <1>1, <2>2, <3>3, <4>1, <4>3 DEF Counters, Known, IsNews
    <3>4. QED
      BY <2>1, <2>2, <3>1, <3>2, <3>3 DEF Draining
  <2>4. /\ heard \o rest' \in Seq(Nat) /\ CountsFrom(0, heard \o rest')
        /\ Len(heard \o rest') = Len(heard) + Len(rest')
    BY <1>1, <2>3, CountsTogether DEF HeardInv
  <2>5. CASE m.type \in {"error", "broken"}
    <3>1. sttPc' = "over" /\ outcome' = "error" /\ heard' = heard
      BY <2>1, <2>5 DEF Draining, Ends
    <3>2. QED
      BY <1>1, <2>2, <3>1 DEF HeardInv, Listening
  <2>6. CASE m.type \in {"close", "finished"} \/ (m.type = "final" /\ kind = "cumulative")
    <3>1. sttPc' = "over" /\ outcome' = "ok" /\ heard' = heard \o rest'
          /\ (m.type = "close" => late')
      BY <2>1, <2>6 DEF Draining, Ends
    <3>2. m.type # "close" => Len(heard') = recorded
      <4>1. CASE m.type = "finished"
        <5>1. kind = "items" /\ Known = got
          BY <2>2, <4>1, FinishedKnowsAll
        <5>2. rest' = rest
          BY <2>3, <4>1, <5>1
        <5>3. QED
          BY <2>2, <2>4, <3>1, <5>1, <5>2 DEF Known
      <4>2. CASE m.type = "final" /\ kind = "cumulative"
        BY <2>2, <2>3, <2>4, <3>1, <4>2
      <4>3. QED
        BY <2>6, <4>1, <4>2
    <3>3. QED
      BY <1>1, <2>2, <2>3, <2>4, <3>1, <3>2 DEF HeardInv, Listening
  <2>7. CASE m.type = "partial" \/ (m.type = "final" /\ kind # "cumulative")
    <3>1. UNCHANGED <<sttPc, outcome, heard>> /\ ~late'
      BY <2>1, <2>2, <2>7 DEF Draining
    <3>2. QED
      BY <1>1, <2>2, <2>3, <3>1 DEF HeardInv, Listening, Known
  <2>8. QED
    BY <2>5, <2>6, <2>7 DEF Messages, MessageTypes
<1>11. CASE DrainTimesOut
  <2>1. /\ sttPc' = "over" /\ late' = TRUE /\ heard' = heard \o rest /\ Listening
        /\ UNCHANGED <<kind, recorded, got, rest>>
    BY <1>11 DEF DrainTimesOut, Ends, audio, server, Listening
  <2>2. CountsFrom(0, heard \o rest) /\ Len(heard \o rest) = Len(heard) + Len(rest)
    BY <1>1, <2>1, CountsTogether DEF HeardInv
  <2>3. QED
    BY <1>1, <2>1, <2>2 DEF HeardInv, Listening, Known
<1>12. CASE Uploads
  <2>1. /\ kind = "file" /\ sttPc = "loop" /\ sttPc' = "drain"
        /\ UNCHANGED <<kind, recorded, rest, heard, outcome, late>> /\ got' \in Nat
    BY <1>1, <1>12 DEF Uploads, AudioEnds
  <2>2. heard = <<>> /\ rest = <<>>
    BY <2>1 DEF HeardInv, Listening
  <2>3. QED
    BY <2>1, <2>2 DEF HeardInv, Listening, Known, CountsFrom
<1>13. CASE UploadAnswers
  <2>1. /\ kind = "file" /\ sttPc = "drain" /\ Listening /\ got = recorded
        /\ UNCHANGED <<kind, recorded, got, rest, late>>
    BY <1>1, <1>13 DEF UploadAnswers, Counters, Listening, audio, server
  <2>2. CASE heard' = [n \in 1..got |-> n] /\ Ends("ok")
    <3>1. CountsFrom(0, heard') /\ Len(heard') = got
      BY <1>1, <2>2, CountsAll
    <3>2. QED
      BY <1>1, <2>1, <2>2, <3>1 DEF HeardInv, Listening, Ends
  <2>3. CASE heard' = heard /\ (UNCHANGED <<sttPc, outcome>> \/ Ends("error"))
    BY <2>1, <2>3 DEF HeardInv, Listening, Ends, Known
  <2>4. QED
    BY <1>13, <2>2, <2>3 DEF UploadAnswers
<1>14. CASE UNCHANGED sttVars
  BY <1>14 DEF sttVars, HeardInv, Listening, Known
<1>15. QED
  BY <1>2, <1>3, <1>4, <1>5, <1>6, <1>7, <1>8, <1>9, <1>10, <1>11, <1>12, <1>13, <1>14
     DEF SttNext, Disconnect
-----------------------------------------------------------------------------
(* What is on its way *)

LEMMA ServedInOrder ==
  ASSUME SttTyped, Counters, LineInv, HeardInv, Listening, InboxInv, ServerAnswers \/ ServerFails
  PROVE  InboxInv'
<1>1. /\ got \in Nat /\ told \in Nat /\ Known \in Nat /\ told <= got /\ kind \in Kinds
      /\ Ordered /\ Whole /\ FinishedLast /\ inbox \in Seq(Messages)
  BY DEF SttTyped, Known, Counters, InboxInv
<1>2. PICK m \in Messages :
        /\ Serves(m)
        /\ \/ /\ m = Final(told + 1) /\ told < got /\ kind # "cumulative"
              /\ told' = told + 1 /\ line' = line
           \/ m = Final(told) /\ told > 0 /\ kind = "items" /\ told' = told /\ line' = line
           \/ m = Partial(got) /\ kind = "cumulative" /\ told' = told /\ line' = line
           \/ m = Final(got) /\ kind = "cumulative" /\ asked /\ told' = got /\ line' = line
           \/ /\ m = Finished /\ kind = "items" /\ asked /\ told = got
              /\ told' = told /\ line' = "closing"
           \/ m \in {ErrorSent, Closing, Broken} /\ told' = told
  BY <1>1, MessagesAre DEF ServerAnswers, ServerFails
<1>3. /\ inbox' \in Seq(Messages) /\ line = "open"
      /\ inbox'[Len(inbox')] = m /\ Len(inbox') \in DOMAIN inbox' /\ Len(inbox') \in Nat
      /\ \A i \in DOMAIN inbox : i \in DOMAIN inbox' /\ inbox'[i] = inbox[i] /\ i < Len(inbox')
      /\ \A i \in DOMAIN inbox' : i \in DOMAIN inbox \/ i = Len(inbox')
      /\ Len(inbox') = Len(inbox) + 1
  BY <1>1, <1>2, ServedIs
<1>4. UNCHANGED <<kind, sttPc, got, asked, seen, rest, heard>> /\ Known' = Known
  BY <1>2 DEF Serves, Known
<1>5. told' \in Nat /\ told <= told'
  BY <1>1, <1>2
<1>6. Whole'
  <2>1. SUFFICES ASSUME kind = "cumulative", NEW i \in DOMAIN inbox'
                 PROVE  /\ FinalAt(i)' => asked /\ inbox'[i].upTo = got
                        /\ inbox'[i].type = "partial" => inbox'[i].upTo <= got
    BY <1>4 DEF Whole
  <2>2. CASE i \in DOMAIN inbox
    BY <1>1, <1>3, <2>1, <2>2 DEF Whole, FinalAt
  <2>3. CASE i = Len(inbox')
    BY <1>1, <1>2, <1>3, <2>1, <2>3
       DEF FinalAt, Final, Partial, Finished, ErrorSent, Closing, Broken
  <2>4. QED
    BY <1>3, <2>2, <2>3
<1>7. FinishedLast'
  <2>1. SUFFICES ASSUME NEW i \in DOMAIN inbox', inbox'[i].type = "finished"
                 PROVE  kind = "items" /\ i = Len(inbox') /\ asked /\ told' = got /\ line' # "open"
    BY <1>4 DEF FinishedLast
  <2>2. i \notin DOMAIN inbox
    BY <1>1, <1>3, <2>1 DEF FinishedLast
  <2>3. QED
    BY <1>2, <1>3, <2>1, <2>2
       DEF Final, Partial, Finished, ErrorSent, Closing, Broken
<1>8. Ordered'
  <2> SUFFICES ASSUME kind \in {"stream", "items"} PROVE Ordered'
    BY <1>4 DEF Ordered
  <2>1. \/ m = Final(told + 1) /\ told' = told + 1
        \/ m = Final(told) /\ told > 0 /\ kind = "items" /\ told' = told
        \/ m.type \notin {"final", "partial"} /\ told' = told
    BY <1>2 DEF Finished, ErrorSent, Closing, Broken
  <2>2. m.type # "partial" /\ (m.type = "final" => m.upTo = told' /\ told' > 0)
    BY <1>1, <2>1 DEF Final
  <2>3. \A i \in DOMAIN inbox' : inbox'[i].type # "partial"
    BY <1>1, <1>3, <2>2 DEF Ordered
  <2>4. \A i \in DOMAIN inbox' : FinalAt(i)' => inbox'[i].upTo \in 1..told'
    <3>1. ASSUME NEW i \in DOMAIN inbox, FinalAt(i)' PROVE inbox'[i].upTo \in 1..told'
      BY <1>1, <1>3, <1>5, <3>1 DEF Ordered, FinalAt
    <3>2. ASSUME NEW i \in DOMAIN inbox', i = Len(inbox'), FinalAt(i)'
          PROVE  inbox'[i].upTo \in 1..told'
      BY <1>3, <1>5, <2>2, <3>2 DEF FinalAt
    <3>3. QED
      BY <1>3, <3>1, <3>2
  <2>5. ASSUME NEW i \in DOMAIN inbox', NEW j \in DOMAIN inbox', i < j, FinalAt(i)', FinalAt(j)'
        PROVE  inbox'[i].upTo <= inbox'[j].upTo
               /\ (kind = "stream" => inbox'[i].upTo # inbox'[j].upTo)
    <3>1. i \in DOMAIN inbox
      BY <1>3, <2>5
    <3>2. CASE j \in DOMAIN inbox
      BY <1>1, <1>3, <2>5, <3>1, <3>2 DEF Ordered, FinalAt
    <3>3. CASE j = Len(inbox')
      <4>1. inbox'[j] = m /\ m.type = "final" /\ inbox'[i].upTo \in 1..told
        BY <1>1, <1>3, <2>5, <3>1, <3>3 DEF Ordered, FinalAt
      <4>2. inbox'[j].upTo = told' /\ (kind = "stream" => told' = told + 1)
        BY <2>1, <2>2, <4>1
      <4>3. QED
        BY <1>1, <1>5, <4>1, <4>2
    <3>4. QED
      BY <1>3, <3>2, <3>3
  <2>6. ASSUME NEW n \in (Known + 1)..told'
        PROVE  \E i \in DOMAIN inbox' : FinalAt(i)' /\ inbox'[i].upTo = n
    <3>1. CASE n \in (Known + 1)..told
      <4>1. PICK i \in DOMAIN inbox : FinalAt(i) /\ inbox[i].upTo = n
        BY <1>1, <3>1 DEF Ordered
      <4>2. QED
        BY <1>3, <4>1 DEF FinalAt
    <3>2. CASE n \notin (Known + 1)..told
      <4>1. m = Final(told + 1) /\ n = told + 1
        BY <1>1, <1>5, <2>1, <2>6, <3>2
      <4>2. PICK i \in DOMAIN inbox' : i = Len(inbox')
        BY <1>3
      <4>3. FinalAt(i)' /\ inbox'[i].upTo = n
        BY <1>3, <4>1, <4>2 DEF FinalAt, Final
      <4>4. QED
        BY <4>3
    <3>3. QED
      BY <3>1, <3>2
  <2>7. ASSUME kind = "stream", NEW i \in DOMAIN inbox', FinalAt(i)' PROVE inbox'[i].upTo > Known
    <3>1. CASE i \in DOMAIN inbox
      BY <1>1, <1>3, <2>7, <3>1 DEF Ordered, FinalAt
    <3>2. CASE i = Len(inbox')
      <4>1. inbox'[i].upTo = told + 1
        BY <1>3, <2>1, <2>7, <3>2 DEF FinalAt, Final
      <4>2. Known <= told
        BY <1>1 DEF Ordered
      <4>3. QED
        BY <1>1, <4>1, <4>2
    <3>3. QED
      BY <1>3, <3>1, <3>2
  <2>8. Known <= told' /\ (kind = "items" => seen' = 1..Known)
    <3>1. Known <= told /\ (kind = "items" => seen = 1..Known)
      BY <1>1 DEF Ordered
    <3>2. QED
      BY <1>1, <1>4, <1>5, <3>1
  <2>9. QED
    BY <1>4, <2>3, <2>4, <2>5, <2>6, <2>7, <2>8 DEF Ordered
<1>9. QED
  BY <1>6, <1>7, <1>8 DEF InboxInv

LEMMA InboxStep ==
  ASSUME SttTyped, Counters, LineInv, HeardInv, InboxInv, [SttNext]_sttVars
  PROVE  InboxInv'
<1> SUFFICES ASSUME Listening' PROVE InboxInv'
  BY DEF InboxInv
<1>1. /\ recorded \in Nat /\ taken \in Nat /\ held \in Nat /\ got \in Nat /\ told \in Nat
      /\ heard \in Seq(Nat) /\ rest \in Seq(Nat) /\ Len(heard) \in Nat /\ Len(rest) \in Nat
      /\ inbox \in Seq(Messages) /\ kind \in Kinds
  BY DEF SttTyped
<1>2. CASE Connects
  <2>1. inbox = <<>> /\ Listening /\ UNCHANGED <<kind, inbox, told, seen, rest, heard>>
    BY <1>2 DEF Connects, LineInv, Listening
  <2>2. QED
    BY <2>1 DEF InboxInv, Ordered, Whole, FinishedLast, Known, FinalAt
<1>3. CASE UNCHANGED <<kind, inbox, told, seen, rest, heard, got, asked, line>> /\ Listening
  BY <1>3 DEF InboxInv, Ordered, Whole, FinishedLast, Known, FinalAt
<1>4. CASE ServerAnswers \/ ServerFails
  <2>1. Listening
    BY <1>4 DEF ServerAnswers, ServerFails, Serves, Listening
  <2>2. QED
    BY <1>4, <2>1, ServedInOrder
<1>5. CASE TaskSends \/ AsksForRest
  <2>1. /\ sttPc = "loop" /\ Listening /\ UNCHANGED <<kind, inbox, told, seen, rest, heard, line>>
        /\ got' \in Nat /\ got' >= got
    <3>1. CASE TaskSends
      <4>1. /\ sttPc = "loop" /\ sttPc' = sttPc
            /\ UNCHANGED <<kind, inbox, told, seen, rest, heard, line>>
        BY <3>1 DEF TaskSends
      <4>2. got' = got \/ got' = got + held + 1
        BY <1>1, <3>1, SMTT(30) DEF TaskSends, Sends
      <4>3. QED
        BY <1>1, <4>1, <4>2 DEF Listening
    <3>2. CASE AsksForRest
      <4>1. /\ sttPc = "loop" /\ Sends(held, 0)
            /\ UNCHANGED <<kind, inbox, told, seen, rest, heard, line>>
        BY <3>2 DEF AsksForRest, AudioEnds, Listening, Ends
      <4>2. QED
        BY <1>1, <4>1 DEF Sends, Listening
    <3>3. QED
      BY <1>5, <3>1, <3>2
  <2>2. ~asked
    BY <2>1 DEF LineInv
  <2>3. Ordered'
    BY <2>1 DEF InboxInv, Ordered, Known, FinalAt
  <2>4. Whole'
    <3>1. SUFFICES ASSUME kind = "cumulative", NEW i \in DOMAIN inbox
                   PROVE  ~FinalAt(i) /\ (inbox[i].type = "partial" => inbox[i].upTo <= got')
      BY <2>1 DEF Whole, FinalAt
    <3>2. ~FinalAt(i) /\ (inbox[i].type = "partial" => inbox[i].upTo <= got)
      BY <2>1, <2>2, <3>1 DEF InboxInv, Whole
    <3>3. inbox[i] \in Messages
      BY <1>1
    <3>4. inbox[i].upTo \in Nat
      BY <3>3 DEF Messages
    <3>5. QED
      BY <1>1, <2>1, <3>2, <3>4
  <2>5. FinishedLast'
    BY <2>1, <2>2 DEF InboxInv, FinishedLast
  <2>6. QED
    BY <2>3, <2>4, <2>5 DEF InboxInv
<1>6. CASE TaskHears
  <2>1. PICK m \in Messages : Hearing(m)
    BY <1>6, HearingIs
  <2>2. /\ sttPc = "loop" /\ Listening /\ Receives(m) /\ Hears(m) /\ ~asked
        /\ UNCHANGED <<kind, got, told, rest, asked>> /\ line' \in {line, "closed"}
    BY <2>1 DEF Hearing, Ends, Listening, LineInv, audio
  <2>3. Whole' /\ FinishedLast'
    BY <2>2, WholeWithout DEF InboxInv
  <2>4. CASE kind \in {"stream", "items"}
    <3>1. 1 \in DOMAIN inbox /\ m = inbox[1] /\ Ordered
      BY <1>1, <2>2, ReceivedIs DEF InboxInv
    <3>2. CASE IsNews(m)
      <4>1. m.upTo = Known + 1 /\ m.upTo <= told /\ Segments(m) = <<Known + 1>> /\ FinalAt(1)
        BY <2>2, <2>4, <3>1, <3>2, NewsIsNext DEF IsNews, FinalAt
      <4>2. Len(heard') = Len(heard) + 1
        BY <1>1, <2>2, <3>2, <4>1 DEF Hears
      <4>3. Known' = Known + 1
        BY <1>1, <2>2, <4>2 DEF Known
      <4>4. kind = "items" => seen' = seen \cup {m.upTo}
        BY <2>2, <3>2 DEF Hears, IsNews
      <4>5. QED
        BY <2>2, <2>3, <2>4, <3>1, <4>1, <4>3, <4>4, OrderedWithout DEF InboxInv
    <3>3. CASE ~IsNews(m)
      <4>1. FinalAt(1) => kind = "items" /\ m.upTo \in seen
        BY <2>4, <3>1, <3>3 DEF IsNews, FinalAt
      <4>2. Known' = Known /\ seen' = seen
        BY <2>2, <3>1, <3>3, <4>1 DEF Hears, Known, IsNews
      <4>3. QED
        BY <2>2, <2>3, <2>4, <3>1, <4>1, <4>2, OrderedWithout DEF InboxInv
    <3>4. QED
      BY <3>2, <3>3
  <2>5. CASE kind \notin {"stream", "items"}
    BY <2>2, <2>3, <2>5 DEF InboxInv, Ordered
  <2>6. QED
    BY <2>4, <2>5
<1>7. CASE DrainHears
  <2>1. PICK m \in Messages : Draining(m)
    BY <1>7, HearingIs
  <2>2. /\ sttPc = "drain" /\ Listening /\ Receives(m) /\ kind \in {"items", "cumulative"}
        /\ UNCHANGED <<kind, got, told, asked, line, heard>>
    BY <1>1, <2>1 DEF Draining, Ends, Listening, Counters, Kinds
  <2>3. Whole' /\ FinishedLast'
    BY <2>2, WholeWithout DEF InboxInv
  <2>4. CASE kind = "items"
    <3>1. 1 \in DOMAIN inbox /\ m = inbox[1] /\ Ordered
      BY <1>1, <2>2, ReceivedIs DEF InboxInv
    <3>2. CASE IsNews(m)
      <4>1. m.upTo = Known + 1 /\ m.upTo <= told /\ Segments(m) = <<Known + 1>> /\ FinalAt(1)
        BY <2>2, <2>4, <3>1, <3>2, NewsIsNext DEF IsNews, FinalAt
      <4>2. rest' = rest \o <<Known + 1>> /\ seen' = seen \cup {m.upTo}
        BY <2>1, <2>4, <3>2, <4>1 DEF Draining, IsNews
      <4>3. Known' = Known + 1
        BY <1>1, <2>2, <4>2 DEF Known
      <4>4. QED
        BY <2>2, <2>3, <2>4, <3>1, <4>1, <4>2, <4>3, OrderedWithout DEF InboxInv
    <3>3. CASE ~IsNews(m)
      <4>1. FinalAt(1) => m.upTo \in seen
        BY <2>4, <3>1, <3>3 DEF IsNews, FinalAt
      <4>2. Known' = Known /\ seen' = seen
        BY <2>1, <2>2, <2>4, <3>1, <3>3, <4>1 DEF Draining, Known, FinalAt
      <4>3. QED
        BY <2>2, <2>3, <2>4, <3>1, <4>1, <4>2, OrderedWithout DEF InboxInv
    <3>4. QED
      BY <3>2, <3>3
  <2>5. CASE kind # "items"
    BY <2>2, <2>3, <2>5 DEF InboxInv, Ordered
  <2>6. QED
    BY <2>4, <2>5
<1>8. CASE Uploads
  <2>1. kind = "file" /\ Listening /\ inbox = <<>> /\ UNCHANGED <<kind, inbox>>
    BY <1>8 DEF Uploads, AudioEnds, LineInv, Listening
  <2>2. QED
    BY <2>1 DEF InboxInv, Ordered, Whole, FinishedLast
<1>9. QED
  <2>1. \/ Connects \/ ServerAnswers \/ ServerFails \/ TaskSends \/ AsksForRest \/ TaskHears
        \/ DrainHears \/ Uploads
        \/ UNCHANGED <<kind, inbox, told, seen, rest, heard, got, asked, line>> /\ Listening
     BY DEF SttNext, Disconnect, ConnectFails, Records, RecordingStops, TaskCannotSend,
       TaskAborts,
           ClosesAtOnce, DrainTimesOut, UploadAnswers, Ends, Listening, sttVars, server, audio
  <2>2. QED
    BY <1>2, <1>3, <1>4, <1>5, <1>6, <1>7, <1>8, <2>1

LEMMA SttInvHolds == SttSpec => []SttInv
<1>1. SttInv /\ [SttNext]_sttVars => SttInv'
  BY SttTypedStep, CountersStep, LineStep, HeardStep, InboxStep DEF SttInv
<1>2. QED
  BY <1>1, SttInitially, PTL DEF SttSpec

\* A recording is heard once and in order, whatever comes again or crosses its
\* end; and all of it, if the task ends well and the server was in time, for
\* every number of chunks and every size of the blocks (the STT loop, and
\* disconnect() of the providers).
THEOREM HeardRight == SttSpec => []HeardOnceInFull
<1>1. SttInv => HeardOnceInFull
  <2> SUFFICES ASSUME SttInv PROVE HeardOnceInFull
    OBVIOUS
  <2>1. heard \in Seq(Nat) /\ \A i \in DOMAIN heard : heard[i] = i
    BY DEF SttInv, SttTyped, HeardInv, CountsFrom
  <2>2. heard = [n \in 1..Len(heard) |-> n]
    BY <2>1
  <2>3. outcome = "ok" /\ ~late /\ kind # "stream" => Len(heard) = recorded
    BY DEF SttInv, HeardInv
  <2>4. QED
    BY <2>1, <2>2, <2>3 DEF HeardOnceInFull
<1>2. QED
  BY <1>1, SttInvHolds, PTL

\* The variables keep their types: what is held is at most a block, or the
\* buffer of a file (AUDIO_CHUNK_BYTES, MAX_AUDIO_BYTES), and no chunk is with
\* two of task, provider and server.
THEOREM SttTypes == SttSpec => []SttTypeOK
<1>1. SttInv => SttTypeOK
  <2> SUFFICES ASSUME SttInv PROVE SttTypeOK
    OBVIOUS
  <2>1. SttTyped /\ Counters /\ CountsFrom(0, heard) /\ Len(heard) <= got
    BY DEF SttInv, HeardInv
  <2>2. /\ MaxChunks \in Nat /\ MaxBuffer \in Nat /\ Block \in Nat
        /\ recorded \in Nat /\ taken \in Nat /\ held \in Nat /\ got \in Nat /\ told \in Nat
        /\ heard \in Seq(Nat) /\ Len(heard) \in Nat
    BY <2>1, SttAssumption DEF SttTyped
  <2>3. got <= MaxChunks /\ Len(heard) <= MaxChunks
    BY <2>1, <2>2 DEF Counters
  <2>4. heard \in [1..Len(heard) -> 1..MaxChunks]
    <3>1. \A i \in 1..Len(heard) : heard[i] \in 1..MaxChunks
      BY <2>1, <2>2, <2>3 DEF CountsFrom
    <3>2. heard = [i \in 1..Len(heard) |-> heard[i]]
      BY <2>2, SMTT(30)
    <3>3. QED
      BY <3>1, <3>2
  <2>5. heard \in BoundedSeq(1..MaxChunks, MaxChunks)
    <3>1. Len(heard) \in 0..MaxChunks
      BY <2>2, <2>3
    <3>2. \E n \in 0..MaxChunks : heard \in [1..n -> 1..MaxChunks]
      BY <2>4, <3>1, Zenon
    <3>3. heard \in UNION {[1..n -> 1..MaxChunks] : n \in 0..MaxChunks}
      BY <3>2, Zenon
    <3>4. QED
      BY <3>3 DEF BoundedSeq, SeqOf
  <2>6. /\ held \in 0..(IF kind = "file" THEN MaxBuffer ELSE Block)
        /\ taken \in 0..recorded /\ recorded \in 0..MaxChunks
        /\ told \in 0..got /\ got + held <= taken
    BY <2>1, <2>2 DEF Counters
  <2>7. QED
    BY <2>1, <2>5, <2>6 DEF SttTyped, SttTypeOK
<1>2. QED
  BY <1>1, SttInvHolds, PTL

-----------------------------------------------------------------------------
(* Parts: all of them, side by side                                          *)

\* A part of the composition runs as it does alone: each of its steps is one that
\* the part may take, and the steps of the others leave it as it is.
THEOREM EachPartRuns ==
  PartsSpec => /\ TextSpec /\ PlaceSpec /\ SettingsSpec /\ SttSpec
               /\ DetectorSpec /\ LibrarySpec /\ KeyboardSpec
<1>1. PartsInit => /\ TextInit /\ PlaceInit /\ SettingsInit /\ SttInit
                   /\ DetectorInit /\ LibraryInit /\ KeyboardInit
  BY DEF PartsInit
<1>2. [PartsNext]_partsVars => /\ [TextNext]_textVars /\ [PlaceNext]_placeVars /\ [SettingsNext]_settingsVars
                               /\ [SttNext]_sttVars /\ [DetectorNext]_detectorVars /\ [LibraryNext]_libraryVars
                               /\ [KeyboardNext]_voiceKeyboardVars
  BY Zenon DEF PartsNext, partsVars, otherVars
<1> QED  BY <1>1, <1>2, PTL DEF PartsSpec, TextSpec, PlaceSpec, SettingsSpec, SttSpec,
                                DetectorSpec, LibrarySpec, KeyboardSpec

\* In every state of the composition the part that runs has its types.
THEOREM PartsTypes == PartsSpec => []PartsTypeOK
<1>1. PartsInit => part \in PartNames
  BY DEF PartsInit
<1>2. part \in PartNames /\ [PartsNext]_partsVars => (part \in PartNames)'
  BY DEF PartsNext, partsVars
<1>3. part \in PartNames /\ TextTypeOK /\ PlaceTypeOK /\ SettingsTypeOK /\ SttTypeOK /\ DetectorTypeOK
        /\ LibraryTypeOK /\ KeyboardTypeOK => PartsTypeOK
  BY Zenon DEF PartsTypeOK, PartNames
<1> QED  BY <1>1, <1>2, <1>3, EachPartRuns, TextTypes, PlaceTypes, SettingsTypes, SttTypes,
            DetectorTypes, LibraryTypes, KeyboardTypes, PTL DEF PartsSpec

\* What holds of each part alone holds of the composition, in all its states at
\* once: a text is put in once and the clipboard comes back, an operation places
\* its text where it may and loses none, a recording is heard once and in full,
\* the settings keep keys and edits, no context is of another application, the
\* data base stays whole, and the keyboard inserts where it listened, when asked.
\* (With no key left over from before the custom provider: SecretsStayKept.)
THEOREM PartsStayRight ==
  ASSUME NoLeftover
  PROVE  PartsSpec => [](/\ ClipboardComesBack /\ NeverTwice /\ PlacedWhereAllowed /\ NothingLost
                         /\ SecretsKept /\ EditSurvives /\ HeardOnceInFull /\ NothingOfAnotherApp
                         /\ LibraryIsWhole /\ SpokenTextStaysInItsField /\ NothingListensUnasked)
<1>1. SettingsSpec => []SecretsKept
  BY SecretsStayKept
<1> QED  BY <1>1, EachPartRuns, ComesBack, NothingTwice, PlacedRight, TextArrives, EditsSurvive,
            HeardRight, NothingOfAnother, LibraryStaysWhole, SpokenStays, NothingListens, PTL
=============================================================================
