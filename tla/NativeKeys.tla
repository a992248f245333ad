----------------------------- MODULE NativeKeys -----------------------------
(***************************************************************************)
(* The native hotkeys (src-tauri/src/native_hotkey.rs): a base key (Fn on  *)
(* macOS, right Alt on Windows) and two combinations of it are recognised  *)
(* in the stream of raw key events, and become "pressed" and "released"    *)
(* events of a binding.                                                    *)
(*                                                                         *)
(* The keyboard is modelled with what it can do: a held key repeats, the   *)
(* other Shift has a bit in common with the left one, and the monitor may  *)
(* be replaced, or miss an event, while keys are down.                     *)
(***************************************************************************)
EXTENDS Naturals, FiniteSets

CONSTANT MaxUpsets  \* bound on the monitors replaced, the events missed

ASSUME KeysAssumption == MaxUpsets \in Nat

\* NativeHotkeyTrigger: the base, and the base with the key of the combination.
Base     == "base"
Combos   == {"space", "shift"}
Triggers == Combos \cup {Base}
Keyboard == Triggers \cup {"rightShift"}

VARIABLES
  mac,           \* macOS: modifiers do not repeat, Shift is known by a flag
  bound,         \* the triggers the running monitor has bindings for
  basePressed, pendingBase, comboUsed,     \* NativeComboState
  held,          \* NativeHeldState of the bindings of each trigger
  \* the keyboard
  down,          \* keys that are down
  repeating,     \* the one that repeats
  \* what happened, for the properties only
  told,          \* triggers whose last event, over all monitors, is Pressed
  fired,         \* triggers pressed since the base went down
  upsets

keyVars == <<mac, bound, basePressed, pendingBase, comboUsed, held, down,
             repeating, told, fired, upsets>>

combo    == <<basePressed, pendingBase, comboUsed>>
keyboard == <<down, repeating>>

KeysInit ==
  /\ mac \in BOOLEAN
  /\ bound = {}
  /\ basePressed = FALSE /\ pendingBase = FALSE /\ comboUsed = FALSE
  /\ held = {}
  /\ down = {} /\ repeating = "none"
  /\ told = {} /\ fired = {} /\ upsets = 0

-----------------------------------------------------------------------------
(* dispatch_matching_bindings: the edges of a set of triggers; a binding     *)
(* whose held state does not change sends nothing.                           *)

Emits(pressed, released) ==
  LET heard == (pressed \cap bound) \ held
  IN  /\ held' = (held \cup heard) \ released
      /\ told' = (told \cup heard) \ (released \cap (held \cup heard))
      /\ fired' = (IF Base \in down THEN fired ELSE {}) \cup heard

EmitsNothing == Emits({}, {})

HasCombos == bound \cap Combos # {}

\* dispatch_native_base_edge(pressed): with combinations bound, the base waits.
BasePress ==
  /\ basePressed' = TRUE
  /\ comboUsed' = FALSE
  /\ pendingBase' = HasCombos
  /\ IF HasCombos THEN EmitsNothing ELSE Emits({Base}, {})

BaseReleaseKeepsCombos ==                                             \* mutant
  /\ basePressed' = FALSE /\ pendingBase' = FALSE /\ comboUsed' = FALSE
  /\ IF pendingBase /\ ~comboUsed THEN Emits({Base}, {Base})
     ELSE IF comboUsed THEN EmitsNothing ELSE Emits({}, {Base})

\* dispatch_native_base_edge(released): a base that stood alone is pressed and
\* released now; the combinations that were used are released with it.
BaseRelease ==
  /\ basePressed' = FALSE
  /\ IF pendingBase /\ ~comboUsed
     THEN Emits({Base}, {Base}) /\ pendingBase' = FALSE /\ UNCHANGED comboUsed
     ELSE IF comboUsed
          THEN Emits({}, Combos) /\ pendingBase' = FALSE /\ comboUsed' = FALSE
          ELSE Emits({}, {Base}) /\ UNCHANGED <<pendingBase, comboUsed>>

\* dispatch_native_combo_edge: only with the base down, only if it is bound.
ComboEdge(k, pressed) ==
  IF basePressed /\ k \in bound
  THEN /\ IF pressed
          THEN comboUsed' = TRUE /\ pendingBase' = FALSE /\ Emits({k}, {})
          ELSE UNCHANGED <<comboUsed, pendingBase>> /\ Emits({}, {k})
       /\ UNCHANGED basePressed
  ELSE UNCHANGED combo /\ EmitsNothing

-----------------------------------------------------------------------------
(* handle_flags_changed and handle_key_event, dispatch_keyboard_event        *)

\* On macOS the flag of a Shift event is set while either Shift is down.
Reads(k, pressed) ==
  pressed \/ (mac /\ k = "shift" /\ "rightShift" \in down)

\* Without bindings no monitor runs.
Delivers(k, pressed) ==
  IF bound = {} \/ k \notin Triggers THEN UNCHANGED combo /\ EmitsNothing
  ELSE IF k = Base /\ pressed THEN BasePress
  ELSE IF k = Base /\ ~pressed THEN BaseRelease
  ELSE ComboEdge(k, Reads(k, pressed))

KeyDown(k) ==
  /\ k \notin down
  /\ down' = down \cup {k}
  /\ repeating' = k
  /\ Delivers(k, TRUE)
  /\ UNCHANGED <<mac, bound, upsets>>

KeyUp(k) ==
  /\ k \in down
  /\ down' = down \ {k}
  /\ repeating' = IF repeating = k THEN "none" ELSE repeating
  /\ Delivers(k, FALSE)
  /\ UNCHANGED <<mac, bound, upsets>>

\* Modifiers do not repeat on macOS.
KeyRepeats ==
  /\ repeating # "none" /\ (mac => repeating = "space")
  /\ Delivers(repeating, TRUE)
  /\ UNCHANGED <<mac, bound, keyboard, upsets>>

-----------------------------------------------------------------------------
(* NativeHotkeyRuntime::install() and pause() put a new monitor, with a new   *)
(* state, in place of the old one, whatever keys are down.  The macOS tap     *)
(* misses what happens until it is enabled again.                             *)

Replaces(b) ==
  /\ down = {} \/ upsets < MaxUpsets
  /\ upsets' = IF down = {} THEN upsets ELSE upsets + 1
  /\ bound' = b
  /\ basePressed' = FALSE /\ pendingBase' = FALSE /\ comboUsed' = FALSE
  /\ held' = {}
  /\ UNCHANGED <<mac, keyboard, told, fired>>

Misses(k) ==
  /\ upsets < MaxUpsets
  /\ upsets' = upsets + 1
  /\ down' = IF k \in down THEN down \ {k} ELSE down \cup {k}
  /\ repeating' = IF k \in down THEN "none" ELSE k
  /\ UNCHANGED <<mac, bound, combo, held, told, fired>>

KeysNext ==
  \/ \E k \in Keyboard : KeyDown(k) \/ KeyUp(k) \/ Misses(k)
  \/ KeyRepeats
  \/ \E b \in SUBSET Triggers : Replaces(b)

KeysSpec == KeysInit /\ [][KeysNext]_keyVars

-----------------------------------------------------------------------------
(* Properties *)

KeysTypeOK ==
  /\ bound \subseteq Triggers /\ held \subseteq bound
  /\ {mac, basePressed, pendingBase, comboUsed} \subseteq BOOLEAN
  /\ down \subseteq Keyboard /\ repeating \in Keyboard \cup {"none"}
  /\ told \subseteq Triggers /\ fired \subseteq Triggers
  /\ upsets \in 0..MaxUpsets

\* When every key is up, every press that was sent has been followed by its
\* release, in whatever order the keys of a combination came and went, as long
\* as no monitor was replaced, and no event missed, while a key was down.
ReleasedWhenUp == down = {} /\ upsets = 0 => told = {} /\ held = {}

\* One hold of the base key means the base alone or combinations of it, never
\* both: a combination does not also start the recording the base is for
\* (unless the monitor was replaced, or missed an event, meanwhile).
AloneOrCombined ==
  upsets = 0 => ~(Base \in fired /\ fired \cap Combos # {})

\* A hold of keys is told as it was: what began ends, and it is one thing.
HoldsAreKept == ReleasedWhenUp /\ AloneOrCombined
=============================================================================
