---------------------------- MODULE HotkeyProofs ----------------------------
(***************************************************************************)
(* Theorems about NativeKeys, HotkeyRegistration and Shortcuts: how a hold *)
(* of keys is told, for every order of the keys; what the generations of   *)
(* the supervisor protect and what is installed in the end, for every set  *)
(* of configurations and number of commands and retries; and what the      *)
(* shortcuts start and end, for every number of tasks and questions. Then  *)
(* Input, which puts these, the monitor and the recognition service side   *)
(* by side.                                                                *)
(***************************************************************************)
EXTENDS Input, FoldLemmas, RecognitionProofs, TLAPS

-----------------------------------------------------------------------------
(* NativeKeys *)

KeysTyped ==
  /\ bound \subseteq Triggers /\ held \subseteq bound
  /\ mac \in BOOLEAN /\ basePressed \in BOOLEAN /\ pendingBase \in BOOLEAN
  /\ comboUsed \in BOOLEAN
  /\ down \subseteq Keyboard /\ repeating \in Keyboard \cup {"none"}
  /\ told \subseteq Triggers /\ fired \subseteq Triggers
  /\ upsets \in 0..MaxUpsets

\* The monitor has seen every key that is down: it knows the base, it waits for
\* a combination or has used one, and what it holds is what it has told.
Followed ==
  /\ told = held /\ repeating \in down \cup {"none"}
  /\ Base \notin down \/ bound = {} =>
       ~basePressed /\ ~pendingBase /\ ~comboUsed /\ held = {}
  /\ Base \in down /\ bound # {} => basePressed
  /\ ~(pendingBase /\ comboUsed) /\ (pendingBase \/ comboUsed => HasCombos)
  /\ repeating = Base /\ ~mac => ~comboUsed

\* A base that is held, or has been told, has no combinations; a combination
\* that is held, or has been told while the base is down, has been used.
OneThing ==
  /\ Base \in held => ~HasCombos
  /\ held \cap Combos # {} => comboUsed
  /\ Base \in down /\ Base \in fired => ~HasCombos
  /\ Base \in down /\ fired \cap Combos # {} => comboUsed
  /\ ~(Base \in fired /\ fired \cap Combos # {})

KeysInv == KeysTyped /\ (upsets = 0 => Followed /\ OneThing)

LEMMA KeysInitially == KeysInit => KeysInv
<1> SUFFICES ASSUME KeysInit PROVE KeysInv
  OBVIOUS
<1>1. 0 \in 0..MaxUpsets
  BY KeysAssumption
<1>2. KeysTyped
  BY <1>1 DEF KeysInit, KeysTyped
<1>3. ~basePressed /\ ~pendingBase /\ ~comboUsed
  BY DEF KeysInit
<1>4. Followed /\ OneThing
  BY <1>3 DEF KeysInit, Followed, OneThing
<1>5. QED
  BY <1>2, <1>4 DEF KeysInv

LEMMA EmitsTyped ==
  ASSUME KeysTyped, NEW pressed \in SUBSET Triggers, NEW released \in SUBSET Triggers,
         Emits(pressed, released)
  PROVE  held' \subseteq bound /\ told' \subseteq Triggers /\ fired' \subseteq Triggers
  BY DEF KeysTyped, Emits

LEMMA DeliversTyped ==
  ASSUME KeysTyped, NEW k \in Keyboard, NEW pressed \in BOOLEAN, Delivers(k, pressed)
  PROVE  /\ held' \subseteq bound /\ told' \subseteq Triggers /\ fired' \subseteq Triggers
         /\ basePressed' \in BOOLEAN /\ pendingBase' \in BOOLEAN /\ comboUsed' \in BOOLEAN
<1>1. \E p, r \in SUBSET Triggers : Emits(p, r)
  BY DEF Delivers, BasePress, BaseRelease, ComboEdge, EmitsNothing, Triggers, Combos
<1>2. basePressed' \in BOOLEAN /\ pendingBase' \in BOOLEAN /\ comboUsed' \in BOOLEAN
  BY DEF KeysTyped, Delivers, BasePress, BaseRelease, ComboEdge, HasCombos, combo
<1>3. QED
  BY <1>1, <1>2, EmitsTyped

LEMMA KeysTypedStep == KeysTyped /\ [KeysNext]_keyVars => KeysTyped'
<1> SUFFICES ASSUME KeysTyped, [KeysNext]_keyVars PROVE KeysTyped'
  OBVIOUS
<1>1. ASSUME NEW k \in Keyboard, KeyDown(k) \/ KeyUp(k) PROVE KeysTyped'
  <2>1. \E pressed \in BOOLEAN : Delivers(k, pressed)
    BY <1>1 DEF KeyDown, KeyUp
  <2>2. QED
    BY <1>1, <2>1, DeliversTyped DEF KeyDown, KeyUp, KeysTyped
<1>2. ASSUME KeyRepeats PROVE KeysTyped'
  <2>1. repeating \in Keyboard /\ Delivers(repeating, TRUE)
    BY <1>2 DEF KeyRepeats, KeysTyped
  <2>2. QED
    BY <1>2, <2>1, DeliversTyped DEF KeyRepeats, KeysTyped, keyboard
<1>3. ASSUME NEW k \in Keyboard, Misses(k) PROVE KeysTyped'
  BY <1>3, KeysAssumption DEF Misses, KeysTyped, combo
<1>4. ASSUME NEW b \in SUBSET Triggers, Replaces(b) PROVE KeysTyped'
  <2>1. upsets' \in 0..MaxUpsets
    BY <1>4, KeysAssumption DEF Replaces, KeysTyped
  <2>2. ~basePressed' /\ ~pendingBase' /\ ~comboUsed'
    BY <1>4 DEF Replaces
  <2>3. QED
    BY <1>4, <2>1, <2>2 DEF Replaces, KeysTyped, keyboard
<1>5. ASSUME UNCHANGED keyVars PROVE KeysTyped'
  BY <1>5 DEF keyVars, KeysTyped
<1>6. QED
  BY <1>1, <1>2, <1>3, <1>4, <1>5 DEF KeysNext

\* What is delivered keeps the monitor's knowledge, whichever keys are down
\* afterwards.
LEMMA ToldIsHeld ==
  ASSUME told = held, NEW k, NEW pressed, Delivers(k, pressed)
  PROVE  told' = held'
<1>1. \A p, r : Emits(p, r) => told' = held'
  BY DEF Emits
<1>2. QED
  BY <1>1 DEF Delivers, BasePress, BaseRelease, ComboEdge, EmitsNothing

LEMMA DownStep ==
  ASSUME KeysTyped, Followed, OneThing, NEW k \in Keyboard, KeyDown(k)
  PROVE  Followed' /\ OneThing'
<1>1. told' = held' /\ bound' = bound /\ mac' = mac /\ HasCombos' = HasCombos
  BY ToldIsHeld DEF KeyDown, Followed, HasCombos
<1>2. CASE bound = {} \/ k \notin Triggers
   BY <1>1, <1>2 DEF KeyDown, Delivers, combo, EmitsNothing, Emits, Followed, OneThing,
     KeysTyped,
     Triggers, HasCombos
<1>3. CASE bound # {} /\ k = Base
   BY <1>1, <1>3 DEF KeyDown, Delivers, BasePress, EmitsNothing, Emits, Followed, OneThing,
     KeysTyped,
     Triggers, HasCombos, Base, Combos
<1>4. CASE bound # {} /\ k \in Combos
   BY <1>1, <1>4 DEF KeyDown, Delivers, ComboEdge, Reads, combo, EmitsNothing, Emits, Followed,
     OneThing,
     KeysTyped, Triggers, HasCombos, Base, Combos
<1>5. QED
  BY <1>2, <1>3, <1>4 DEF Triggers

LEMMA UpStep ==
  ASSUME KeysTyped, Followed, OneThing, NEW k \in Keyboard, KeyUp(k)
  PROVE  Followed' /\ OneThing'
<1>1. told' = held' /\ bound' = bound /\ mac' = mac /\ HasCombos' = HasCombos
  BY ToldIsHeld DEF KeyUp, Followed, HasCombos
<1>2. /\ repeating' \in down' \cup {"none"}
      /\ repeating' = Base => repeating = Base
      /\ k # Base => (Base \in down' <=> Base \in down)
  BY DEF KeyUp, Followed, Base
<1>3. CASE bound = {} \/ k \notin Triggers
  <2>1. k # Base \/ bound = {}
    BY <1>3 DEF Triggers
  <2>2. UNCHANGED <<basePressed, pendingBase, comboUsed>> /\ held' = held
        /\ fired' = (IF Base \in down THEN fired ELSE {})
    BY <1>3 DEF KeyUp, Delivers, combo, EmitsNothing, Emits
  <2>3. QED
    BY <1>1, <1>2, <2>1, <2>2 DEF Followed, OneThing, KeyUp
<1>4. CASE bound # {} /\ k = Base
   BY <1>1, <1>4 DEF KeyUp, Delivers, BaseRelease, EmitsNothing, Emits, Followed, OneThing,
     KeysTyped,
     Triggers, HasCombos, Base, Combos
<1>5. CASE bound # {} /\ k \in Combos
  <2>1. k # Base /\ k \in Triggers
    BY <1>5 DEF Combos, Base, Triggers
  <2>2. ComboEdge(k, Reads(k, FALSE))
    BY <1>5, <2>1 DEF KeyUp, Delivers
  <2>3. CASE ~(basePressed /\ k \in bound)
    <3>1. UNCHANGED <<basePressed, pendingBase, comboUsed>> /\ held' = held
          /\ fired' = (IF Base \in down THEN fired ELSE {})
      BY <2>2, <2>3 DEF ComboEdge, combo, EmitsNothing, Emits
    <3>2. Followed'
      BY <1>1, <1>2, <2>1, <3>1 DEF Followed, KeysTyped, HasCombos, Combos, Base
    <3>3. OneThing'
      BY <1>1, <1>2, <2>1, <3>1 DEF Followed, OneThing, KeysTyped, HasCombos, Combos, Base
    <3>4. QED
      BY <3>2, <3>3
  <2>4. CASE basePressed /\ k \in bound /\ ~Reads(k, FALSE)
    <3>1. UNCHANGED <<basePressed, pendingBase, comboUsed, fired>> /\ held' = held \ {k}
      BY <2>2, <2>4 DEF ComboEdge, Emits, Followed
    <3>2. Followed'
      BY <1>1, <1>2, <2>1, <3>1 DEF Followed, KeysTyped, HasCombos, Combos, Base
    <3>3. OneThing'
      BY <1>1, <1>2, <2>1, <3>1 DEF Followed, OneThing, KeysTyped, HasCombos, Combos, Base
    <3>4. QED
      BY <3>2, <3>3
  <2>5. CASE basePressed /\ k \in bound /\ Reads(k, FALSE)
    <3>1. /\ UNCHANGED basePressed /\ comboUsed' /\ ~pendingBase' /\ mac /\ HasCombos
          /\ held' = held \cup {k} /\ fired' \subseteq fired \cup {k} /\ Base \in down
      BY <1>5, <2>2, <2>5 DEF ComboEdge, Emits, Followed, Reads, HasCombos
    <3>2. Followed'
      BY <1>1, <1>2, <1>5, <2>1, <3>1 DEF Followed, KeysTyped, HasCombos, Combos, Base
    <3>3. OneThing'
      BY <1>1, <1>2, <1>5, <2>1, <3>1 DEF Followed, OneThing, KeysTyped, HasCombos, Combos, Base
    <3>4. QED
      BY <3>2, <3>3
  <2>6. QED
    BY <2>3, <2>4, <2>5
<1>6. QED
  BY <1>3, <1>4, <1>5 DEF Triggers

LEMMA RepeatStep ==
  ASSUME KeysTyped, Followed, OneThing, KeyRepeats
  PROVE  Followed' /\ OneThing'
<1> DEFINE k == repeating
<1>1. told' = held' /\ bound' = bound /\ mac' = mac /\ HasCombos' = HasCombos
  BY ToldIsHeld DEF KeyRepeats, Followed, HasCombos
<1>2. CASE bound = {} \/ k \notin Triggers
   BY <1>1, <1>2 DEF KeyRepeats, Delivers, combo, EmitsNothing, Emits, Followed, OneThing,
     KeysTyped,
     Triggers, HasCombos, keyboard
<1>3. CASE bound # {} /\ k = Base
   BY <1>1, <1>3 DEF KeyRepeats, Delivers, BasePress, EmitsNothing, Emits, Followed, OneThing,
     KeysTyped,
     Triggers, HasCombos, Base, Combos, keyboard
<1>4. CASE bound # {} /\ k \in Combos
   BY <1>1, <1>4 DEF KeyRepeats, Delivers, ComboEdge, Reads, combo, EmitsNothing, Emits,
     Followed,
     OneThing, KeysTyped, Triggers, HasCombos, Base, Combos, keyboard
<1>5. QED
  BY <1>2, <1>3, <1>4 DEF Triggers

LEMMA KeysInvStep == KeysInv /\ [KeysNext]_keyVars => KeysInv'
<1> SUFFICES ASSUME KeysInv, [KeysNext]_keyVars, upsets' = 0 PROVE Followed' /\ OneThing'
  BY KeysTypedStep DEF KeysInv
<1>1. KeysTyped /\ upsets \in Nat
  BY KeysAssumption DEF KeysInv, KeysTyped
<1>2. ASSUME NEW k \in Keyboard, KeyDown(k) PROVE Followed' /\ OneThing'
  BY <1>1, <1>2, DownStep DEF KeysInv, KeyDown
<1>3. ASSUME NEW k \in Keyboard, KeyUp(k) PROVE Followed' /\ OneThing'
  BY <1>1, <1>3, UpStep DEF KeysInv, KeyUp
<1>4. ASSUME KeyRepeats PROVE Followed' /\ OneThing'
  BY <1>1, <1>4, RepeatStep DEF KeysInv, KeyRepeats
<1>5. ASSUME NEW k \in Keyboard, Misses(k) PROVE Followed' /\ OneThing'
  BY <1>1, <1>5 DEF Misses
<1>6. ASSUME NEW b \in SUBSET Triggers, Replaces(b) PROVE Followed' /\ OneThing'
  <2>1. upsets = 0 /\ down = {}
    BY <1>1, <1>6 DEF Replaces
  <2>2. Followed /\ OneThing
    BY <2>1 DEF KeysInv
  <2>3. QED
    BY <1>6, <2>1, <2>2 DEF Replaces, Followed, OneThing, HasCombos, keyboard
<1>7. ASSUME UNCHANGED keyVars PROVE Followed' /\ OneThing'
  BY <1>7 DEF keyVars, KeysInv, Followed, OneThing, HasCombos
<1>8. QED
  BY <1>2, <1>3, <1>4, <1>5, <1>6, <1>7 DEF KeysNext

LEMMA KeysInvHolds == KeysSpec => []KeysInv
  BY KeysInitially, KeysInvStep, PTL DEF KeysSpec

\* What a hold of keys began ends when every key is up, and it is the base alone
\* or combinations of it, whatever the order of the keys, as long as no monitor
\* is replaced and no event missed meanwhile (dispatch_native_base_edge,
\* dispatch_native_combo_edge).
THEOREM HoldsEnd == KeysSpec => []HoldsAreKept
<1>1. KeysInv => HoldsAreKept
  BY DEF KeysInv, Followed, OneThing, HoldsAreKept, ReleasedWhenUp, AloneOrCombined
<1>2. QED
  BY <1>1, KeysInvHolds, PTL

\* The state of the combination keeps its types, and a binding that is held is
\* bound, also when monitors are replaced and events missed.
THEOREM KeysTypes == KeysSpec => []KeysTypeOK
<1>1. KeysInv => KeysTypeOK
  BY DEF KeysInv, KeysTyped, KeysTypeOK
<1>2. QED
  BY <1>1, KeysInvHolds, PTL
-----------------------------------------------------------------------------
(* HotkeyRegistration *)

CmdPc   == {"startup", "none", "loaded", "woken", "saving", "unsaved", "refused", "resuming"}
RetryPc == {"sleep", "load", "register", "record", "show"}

RegTyped ==
  /\ saved \in Configs /\ cached \in Configs /\ strayed \in BOOLEAN
  /\ generation \in Nat /\ attempts \in Nat
  /\ supervisor \in SupervisorState /\ overlapped \in BOOLEAN
  /\ cmd \in [pc : CmdPc, previous : Configs, next : Configs]
  /\ retry \in [pc : RetryPc, gen : Nat, config : Configs, ok : BOOLEAN]

\* What the system and the monitor hold is what the configuration says.
Holds(c) ==
  /\ os = Keys(Plan(c).global) /\ monitor = Keys(Plan(c).native)
  /\ roleCache = Plan(c) /\ Plan(c).ok

\* The retry loop is in an attempt that has not been superseded.
RetryStands == retry.pc # "sleep" /\ retry.gen = generation

\* Such an attempt has the supervisor to itself, but for resume_hotkey.
RetryKnown ==
  /\ retry.pc # "sleep" => retry.gen <= generation
  /\ RetryStands =>
       /\ supervisor # "Disabled"
       /\ cmd.pc \notin {"startup", "woken", "saving", "unsaved", "refused"}
       /\ retry.pc \in {"register", "record", "show"} => retry.config = cached
       /\ ~overlapped /\ retry.pc # "show" => supervisor = "Starting"
       /\ ~overlapped /\ retry.pc = "record" /\ retry.ok => Holds(cached)

\* A command goes back to the configuration it found, and saves what is registered;
\* only a save that fails leaves another one in the cache.
CommandKnown ==
  /\ cmd.pc \in {"startup", "woken", "refused"} => supervisor = "Starting"
  /\ cmd.pc = "saving" => supervisor = "Installed" /\ Holds(cmd.next)
  /\ cmd.pc = "unsaved" => supervisor = "Installed"
  /\ cmd.pc \in {"loaded", "woken", "saving"} => cmd.previous = cached
  /\ cmd.pc \in {"unsaved", "refused"} /\ ~strayed => cmd.previous = cached
  /\ cmd.pc = "resuming" => cmd.next = cached
  /\ ~strayed => cached = saved

InstalledKnown ==
  cmd.pc \in {"none", "loaded", "resuming"} /\ ~overlapped /\ supervisor = "Installed" =>
    \E c \in Configs : Holds(c) /\ (~strayed => c = saved)

RegInv == RegTyped /\ RetryKnown /\ CommandKnown /\ InstalledKnown

USE RegAssumption
USE DEF regVars, stored, installed, numbers
-----------------------------------------------------------------------------
LEMMA RegInitially == RegInit => RegInv
  <1> SUFFICES ASSUME RegInit PROVE RegInv
    OBVIOUS
  <1>1. cmd = [pc |-> "startup", previous |-> FirstConfig, next |-> FirstConfig]
    BY DEF RegInit, NoCmd
  <1>2. retry.pc = "sleep" /\ supervisor = "Starting" /\ cached = saved
    BY DEF RegInit, Asleep
  <1>3. RegTyped
    <2>1. saved \in Configs /\ cached \in Configs /\ strayed \in BOOLEAN
          /\ generation \in Nat /\ attempts \in Nat /\ supervisor \in SupervisorState
      BY DEF RegInit, SupervisorState
    <2>2. cmd \in [pc : CmdPc, previous : Configs, next : Configs]
      BY <1>1 DEF CmdPc
    <2>3. retry \in [pc : RetryPc, gen : Nat, config : Configs, ok : BOOLEAN]
      BY DEF RegInit, RetryPc, Asleep
    <2>4. QED
      BY <2>1, <2>2, <2>3 DEF RegInit, RegTyped
  <1>4. QED
    BY <1>1, <1>2, <1>3 DEF RegInv, RetryKnown, CommandKnown, InstalledKnown, RetryStands

LEMMA RegStep ==
  ASSUME RegInv, RegNext
  PROVE  RegInv'
<1> USE DEF RegInv, RegTyped, RetryKnown, CommandKnown, InstalledKnown, RetryStands, Holds,
            SupervisorState, CmdPc, RetryPc
<1>1. CASE RetryBegins
  <2>1. supervisor = "Failed" /\ supervisor' = "Starting" /\ retry' = [retry EXCEPT !.pc = "load", !.gen = generation]
        /\ UNCHANGED <<saved, cached, strayed, os, monitor, roleCache, generation, attempts, cmd, overlapped>>
    BY <1>1 DEF RetryBegins, RetryMayBegin
  <2>2. RegTyped'
    BY <2>1
  <2>3. retry'.pc = "load" /\ retry'.gen = generation
    BY <2>1
  <2>4. cmd.pc \notin {"startup", "woken", "saving", "unsaved", "refused"}
    BY <2>1
  <2>5. RetryKnown'
    BY <2>1, <2>3, <2>4
  <2>6. CommandKnown' /\ InstalledKnown'
    BY <2>1, <2>4
  <2>7. QED
    BY <2>2, <2>5, <2>6
<1>2. CASE RetryLoads
  BY <1>2 DEF RetryLoads
<1>3. CASE RetryLoadFails
  BY <1>3 DEF RetryLoadFails, Records, Asleep
<1>4. ASSUME NEW ok \in BOOLEAN, RetryRegisters(ok) PROVE RegInv'
  <2>1. CASE RetryStands
    <3>1. retry.pc = "register" /\ retry' = [retry EXCEPT !.pc = "record", !.ok = ok]
          /\ UNCHANGED <<saved, cached, strayed, generation, supervisor, attempts, cmd, overlapped>>
      BY <1>4, <2>1 DEF RetryRegisters, IsCurrent
    <3>2. ok => Holds(cached)'
      BY <1>4, <2>1, <3>1 DEF RetryRegisters, IsCurrent, Registers
    <3>3. retry'.pc = "record" /\ retry'.gen = generation /\ retry'.config = cached /\ retry'.ok = ok
      BY <2>1, <3>1
    <3>4. RegTyped'
      BY <3>1
    <3>5. RetryKnown'
      BY <2>1, <3>1, <3>2, <3>3
    <3>6. CommandKnown' /\ InstalledKnown'
      BY <2>1, <3>1
    <3>7. QED
      BY <3>4, <3>5, <3>6
  <2>2. CASE ~RetryStands
    <3>1. retry' = Asleep /\ UNCHANGED <<saved, cached, strayed, os, monitor, roleCache, generation, supervisor, attempts, cmd, overlapped>>
      BY <1>4, <2>2 DEF RetryRegisters, IsCurrent
    <3>2. RegTyped'
      BY <3>1 DEF Asleep
    <3>3. retry'.pc = "sleep"
      BY <3>1 DEF Asleep
    <3>4. QED
      BY <3>1, <3>2, <3>3
  <2>3. QED
    BY <2>1, <2>2
<1>5. CASE RetryRecords
  BY <1>5 DEF RetryRecords, Records, Asleep
<1>6. CASE RetryShows
  BY <1>6 DEF RetryShows, Asleep
<1>7. CASE UpdateWakes
  BY <1>7 DEF UpdateWakes, Wakes
<1>8. CASE UpdateSaves
  BY <1>8 DEF UpdateSaves, NoCmd
<1>9. CASE UpdateSaveFails
  BY <1>9 DEF UpdateSaveFails
<1>10. ASSUME NEW ok \in BOOLEAN, Startup(ok) PROVE RegInv'
  BY <1>10 DEF Startup, Registers, Records, NoCmd
<1>11. ASSUME NEW ok \in BOOLEAN, UpdateRegisters(ok) PROVE RegInv'
  BY <1>11 DEF UpdateRegisters, Registers, Records
<1>12. ASSUME NEW ok \in BOOLEAN, UpdateRollsBack(ok) PROVE RegInv'
  BY <1>12 DEF UpdateRollsBack, Registers, Records, NoCmd
<1>13. ASSUME NEW ok \in BOOLEAN, ResumeRegisters(ok) PROVE RegInv'
  <2>1. cmd.pc = "resuming" /\ cmd.next = cached /\ cmd' = NoCmd
        /\ overlapped' = (overlapped \/ retry.pc # "sleep")
        /\ UNCHANGED <<saved, cached, strayed, generation, retry>>
    BY <1>13 DEF ResumeRegisters, Records
  <2>2. supervisor' = IF ok THEN "Installed" ELSE "Failed"
    BY <1>13 DEF ResumeRegisters, Records
  <2>3. ok => Holds(cached)'
    BY <1>13, <2>1 DEF ResumeRegisters, Registers
  <2>4. RegTyped'
    BY <1>13, <2>1, <2>2 DEF ResumeRegisters, Records, NoCmd
  <2>5. cmd'.pc = "none"
    BY <2>1 DEF NoCmd
  <2>6. RetryKnown'
    BY <2>1, <2>2, <2>5
  <2>7. CommandKnown' /\ InstalledKnown'
    BY <2>1, <2>2, <2>3, <2>5
  <2>8. QED
    BY <2>4, <2>6, <2>7
<1>14. ASSUME NEW c \in Configs, UpdateCall(c) PROVE RegInv'
  BY <1>14 DEF UpdateCall, Calls
<1>15. ASSUME NEW ok \in BOOLEAN, Pause(ok) PROVE RegInv'
  BY <1>15 DEF Pause
<1>16. CASE ResumeCall
  BY <1>16 DEF ResumeCall, Calls, NoCmd
<1>17. CASE UpdateUndoes
  BY <1>17 DEF UpdateUndoes, Wakes
<1>18. CASE EditSaves
  <2>1. cmd.pc = "none" /\ strayed /\ saved' = cached
        /\ UNCHANGED <<cached, strayed, os, monitor, roleCache, generation, supervisor, attempts, cmd, retry, overlapped>>
    BY <1>18 DEF EditSaves
  <2>2. QED
    BY <2>1
<1>19. QED
  BY <1>1, <1>2, <1>3, <1>4, <1>5, <1>6, <1>7, <1>8, <1>9, <1>10, <1>11, <1>12, <1>13, <1>14,
     <1>15, <1>16, <1>17, <1>18 DEF RegNext, RetryStep, CommandStep, UserStep
-----------------------------------------------------------------------------
\* The registration keeps the invariant, whatever is assumed of its fairness.
LEMMA RegAlways == RegInit /\ [][RegNext]_regVars => []RegInv
  <1>1. RegInv /\ [RegNext]_regVars => RegInv'
    <2>1. ASSUME RegInv, UNCHANGED regVars PROVE RegInv'
      BY <2>1 DEF RegInv, RegTyped, RetryKnown, CommandKnown, InstalledKnown, RetryStands, Holds
    <2>2. QED
      BY <2>1, RegStep
  <1>2. QED
    BY <1>1, RegInitially, PTL

\* Only the attempt of the current generation registers, and each leaves the
\* supervisor, the settings and what is registered in agreement; what a command
\* goes back to is what it found in the cache.
THEOREM GenerationsProtect == RegSpec => []RegInv
  BY RegAlways, PTL DEF RegSpec

\* When the supervisor reports the shortcuts installed and no command runs, the
\* system, the monitor and the role cache hold the plan of one configuration as a
\* whole, whatever failed and was retried before; and it is the saved one, unless
\* a save has failed after it filled the cache.
THEOREM InstalledIsPlanned ==
    RegSpec => [](cmd.pc = "none" /\ ~overlapped /\ supervisor = "Installed" =>
                    \E c \in Configs : Holds(c) /\ (~strayed => c = saved))
  <1>1. RegInv => (cmd.pc = "none" /\ ~overlapped /\ supervisor = "Installed" =>
                     \E c \in Configs : Holds(c) /\ (~strayed => c = saved))
    BY DEF RegInv, InstalledKnown
  <1>2. QED
    BY <1>1, GenerationsProtect, PTL

\* While the shortcuts are paused nothing is registered: an attempt that began
\* before has another generation, and a command in progress has woken the
\* supervisor.
LEMMA RegPaused == RegInit /\ [][RegNext]_regVars => PausedRegistersNothing
  <1> DEFINE Quiet == supervisor = "Disabled" /\ supervisor' = "Disabled" =>
                        os' \subseteq os /\ monitor' \subseteq monitor
  <1>1. RegInv /\ [RegNext]_regVars => [Quiet]_regVars
    <2> SUFFICES ASSUME RegInv, RegNext, supervisor = "Disabled", supervisor' = "Disabled"
                 PROVE  os' \subseteq os /\ monitor' \subseteq monitor
      OBVIOUS
    <2> USE DEF RegInv, RegTyped, RetryKnown, CommandKnown, RetryStands
    <2>1. CASE RetryStep
      <3>1. ASSUME NEW ok \in BOOLEAN, RetryRegisters(ok) PROVE UNCHANGED <<os, monitor>>
        BY <3>1 DEF RetryRegisters, IsCurrent
      <3>2. QED
         BY <2>1, <3>1 DEF RetryStep, RetryBegins, RetryLoads, RetryLoadFails, RetryRecords,
           RetryShows
    <2>2. CASE CommandStep
       BY <2>2 DEF CommandStep, UpdateWakes, UpdateSaves, UpdateSaveFails, Startup,
         UpdateRegisters,
                  UpdateUndoes, Wakes, UpdateRollsBack, ResumeRegisters, Records
    <2>3. CASE UserStep
      BY <2>3 DEF UserStep, UpdateCall, Calls, Pause, ResumeCall, EditSaves
    <2>4. QED
      BY <2>1, <2>2, <2>3 DEF RegNext
  <1>2. QED
    BY <1>1, RegAlways, PTL DEF PausedRegistersNothing

\* The same of the registration with its fairness.
THEOREM PauseIsKept == RegSpec => PausedRegistersNothing
  BY RegPaused, PTL DEF RegSpec

-----------------------------------------------------------------------------
(* The plan of a configuration *)

BindingsIn(c) == UNION { ToSet(c[r]) : r \in Roles }

WantedSet(c) == [role : Roles, binding : BindingsIn(c)]

Listed(c, r) == [i \in DOMAIN c[r] |-> [role |-> r, binding |-> c[r][i]]]

IsConfig(c) == \A r \in Roles : c[r] \in Seq(ToSet(c[r]))

LEMMA ListedIs ==
  ASSUME NEW c, IsConfig(c), NEW r \in Roles
  PROVE  /\ Listed(c, r) \in Seq(WantedSet(c)) /\ DOMAIN Listed(c, r) = DOMAIN c[r]
         /\ \A i \in DOMAIN c[r] : Listed(c, r)[i] = [role |-> r, binding |-> c[r][i]]
<1>1. c[r] \in Seq(ToSet(c[r]))
  BY DEF IsConfig
<1>2. DOMAIN c[r] = 1 .. Len(c[r]) /\ Len(c[r]) \in Nat
  BY <1>1
<1>3. \A i \in DOMAIN c[r] : [role |-> r, binding |-> c[r][i]] \in WantedSet(c)
  BY DEF WantedSet, BindingsIn, ToSet
<1> QED  BY <1>2, <1>3 DEF Listed

LEMMA OrderIs ==
  /\ Order \in Seq(Roles) /\ Len(Order) = 6 /\ DOMAIN Order = 1 .. Len(Order)
  /\ \A k \in 1 .. Len(Order) : Order[k] \in Roles
  /\ \A r \in Roles : \E k \in 1 .. Len(Order) : Order[k] = r
BY DEF Order, Roles

\* What the plan is built from, after each of the roles.
LEMMA WantedRuns ==
  ASSUME NEW c, IsConfig(c)
  PROVE  \E run \in [0 .. Len(Order) -> Seq(WantedSet(c))] :
           /\ run[0] = <<>>
           /\ \A n \in 1 .. Len(Order) : run[n] = run[n - 1] \o Listed(c, Order[n])
           /\ Wanted(c) = run[Len(Order)]
<1> DEFINE A    == Seq(WantedSet(c))
           step == [p \in A \X Roles |-> p[1] \o Listed(c, p[2])]
           iter == CHOOSE f : f = [s \in SUBSET DOMAIN Order |->
                     IF s = {} THEN <<>> ELSE f[s \ {Max(s)}] \o Listed(c, Order[Max(s)])]
<1>1. step \in [A \X Roles -> A] /\ <<>> \in A
  <2>1. \A a \in A, r \in Roles : a \o Listed(c, r) \in A
    BY ListedIs
  <2> QED  BY <2>1
<1>2. \A a \in A, r \in Roles : step[<<a, r>>] = a \o Listed(c, r)
  OBVIOUS
<1> HIDE DEF step
<1>3. \A s \in SUBSET DOMAIN Order : s # {} => Order[Max(s)] \in Roles
  <2>1. DOMAIN Order = 1 .. Len(Order) /\ Len(Order) \in Nat
    BY OrderIs
  <2>2. \A i \in DOMAIN Order : Order[i] \in Roles
    BY OrderIs
  <2>3. \A s \in SUBSET (1 .. Len(Order)) : s # {} => Max(s) \in s
    BY <2>1, MaxIn
  <2> QED  BY <2>1, <2>2, <2>3
<1>4. PICK f \in [SUBSET DOMAIN Order -> A] : IsFold(f, step, <<>>, Order, DOMAIN Order)
  BY <1>1, OrderIs, FoldExists
<1>5. f = [s \in SUBSET DOMAIN Order |->
             IF s = {} THEN <<>> ELSE f[s \ {Max(s)}] \o Listed(c, Order[Max(s)])]
  <2>1. \A s \in SUBSET DOMAIN Order : s # {} =>
          step[<<f[s \ {Max(s)}], Order[Max(s)]>>] = f[s \ {Max(s)}] \o Listed(c, Order[Max(s)])
    BY <1>2, <1>3
  <2> QED  BY <1>4, <2>1 DEF IsFold
<1>6. iter = [s \in SUBSET DOMAIN Order |->
                IF s = {} THEN <<>> ELSE iter[s \ {Max(s)}] \o Listed(c, Order[Max(s)])]
  <2>1. \E g : g = [s \in SUBSET DOMAIN Order |->
                    IF s = {} THEN <<>> ELSE g[s \ {Max(s)}] \o Listed(c, Order[Max(s)])]
    BY <1>5, Zenon
  <2> QED  BY <2>1, Zenon
<1>7. Wanted(c) = iter[DOMAIN Order]
  BY DEF Wanted, FoldLeft, MapThenFoldSet, Listed
<1> HIDE DEF iter, A
<1>8. iter[{}] = <<>>
  BY <1>6
<1>9. IsFolding(iter, step, <<>>, Order, A)
  BY <1>2, <1>3, <1>6, <1>8 DEF IsFolding
<1>10. PICK run \in [0 .. Len(Order) -> A] :
         IsRun(run, step, <<>>, Order) /\ iter[DOMAIN Order] = run[Len(Order)]
  <2>1. FoldedTo(iter[DOMAIN Order], step, <<>>, Order, A)
    BY <1>1, <1>9, OrderIs, FoldSteps
  <2> QED  BY <2>1 DEF FoldedTo
<1>11. \A n \in 1 .. Len(Order) : run[n - 1] \in A /\ Order[n] \in Roles
  BY <1>10, OrderIs
<1>12. \A n \in 1 .. Len(Order) : run[n] = run[n - 1] \o Listed(c, Order[n])
  BY <1>2, <1>10, <1>11 DEF IsRun
<1> QED  BY <1>7, <1>10, <1>12 DEF A, IsRun

\* Every binding of the configuration is wanted for its role, and no other.
LEMMA WantedAre ==
  ASSUME NEW c, IsConfig(c)
  PROVE  /\ Wanted(c) \in Seq(WantedSet(c))
         /\ \A i \in DOMAIN Wanted(c) : Wanted(c)[i].binding \in ToSet(c[Wanted(c)[i].role])
         /\ \A r \in Roles : \A b \in ToSet(c[r]) :
              \E i \in DOMAIN Wanted(c) : Wanted(c)[i] = [role |-> r, binding |-> b]
<1>1. PICK run \in [0 .. Len(Order) -> Seq(WantedSet(c))] :
           /\ run[0] = <<>>
           /\ \A n \in 1 .. Len(Order) : run[n] = run[n - 1] \o Listed(c, Order[n])
           /\ Wanted(c) = run[Len(Order)]
  BY WantedRuns
<1> DEFINE Own(w)    == \A i \in DOMAIN w : w[i].binding \in ToSet(c[w[i].role])
           All(w, r) == \A b \in ToSet(c[r]) : \E i \in DOMAIN w : w[i] = [role |-> r, binding |-> b]
           Good == { n \in 0 .. Len(Order) : Own(run[n]) /\ \A k \in 1 .. n : All(run[n], Order[k]) }
<1>2. 0 \in Good
  <2>1. 0 \in 0 .. Len(Order) /\ 1 .. 0 = {} /\ DOMAIN run[0] = {}
    BY <1>1, OrderIs
  <2> QED  BY <2>1
<1>3. ASSUME NEW n \in 0 .. Len(Order) - 1, n \in Good
      PROVE  n + 1 \in Good
  <2> DEFINE w == run[n]
             v == run[n + 1]
             r == Order[n + 1]
             l == Listed(c, r)
  <2>1. n + 1 \in 1 .. Len(Order) /\ (n + 1) - 1 = n /\ n \in 0 .. Len(Order) /\ n + 1 \in 0 .. Len(Order)
    BY OrderIs
  <2>2. v = w \o l /\ w \in Seq(WantedSet(c)) /\ r \in Roles
    <3>1. run[n + 1] = run[(n + 1) - 1] \o Listed(c, Order[n + 1])
      BY <1>1, <2>1
    <3>2. Order[n + 1] \in Roles
      BY <2>1, OrderIs
    <3> QED  BY <2>1, <3>1, <3>2
  <2>3. /\ l \in Seq(WantedSet(c)) /\ DOMAIN l = DOMAIN c[r]
        /\ \A i \in DOMAIN c[r] : l[i] = [role |-> r, binding |-> c[r][i]]
    BY <2>2, ListedIs
  <2>4. Own(w) /\ \A k \in 1 .. n : All(w, Order[k])
    BY <1>3
  <2> HIDE DEF w, v, l, r
  <2>5. /\ DOMAIN v = 1 .. Len(w) + Len(l) /\ Len(w) \in Nat /\ Len(l) \in Nat
        /\ DOMAIN w = 1 .. Len(w) /\ DOMAIN l = 1 .. Len(l)
    BY <2>2, <2>3
  <2>6. \A i \in 1 .. Len(w) : v[i] = w[i]
    BY <2>2, <2>3
  <2>7. \A i \in 1 .. Len(l) : v[Len(w) + i] = l[i]
    BY <2>2, <2>3
  <2>8. \A i \in 1 .. Len(w) + Len(l) : i \notin 1 .. Len(w) => i - Len(w) \in 1 .. Len(l) /\ Len(w) + (i - Len(w)) = i
    BY <2>5
  <2>9. Own(v)
    <3>1. \A i \in DOMAIN l : l[i].binding \in ToSet(c[l[i].role])
      <4>1. \A i \in DOMAIN c[r] : c[r][i] \in ToSet(c[r])
        BY DEF ToSet
      <4> SUFFICES ASSUME NEW i \in DOMAIN l
                   PROVE  l[i].binding \in ToSet(c[l[i].role])
        OBVIOUS
      <4>2. i \in DOMAIN c[r]
        BY <2>3
      <4>3. l[i] = [role |-> r, binding |-> c[r][i]]
        BY <2>3, <4>2
      <4>4. l[i].role = r /\ l[i].binding = c[r][i]
        BY <4>3
      <4> QED  BY <4>1, <4>2, <4>4
    <3>2. ASSUME NEW i \in DOMAIN v
          PROVE  v[i] \in { w[j] : j \in DOMAIN w } \cup { l[j] : j \in DOMAIN l }
      <4>1. CASE i \in 1 .. Len(w)
        BY <2>5, <2>6, <4>1
      <4>2. CASE i \notin 1 .. Len(w)
        <5>1. i - Len(w) \in DOMAIN l /\ Len(w) + (i - Len(w)) = i
          BY <2>5, <2>8, <4>2
        <5>2. v[i] = l[i - Len(w)]
          BY <2>5, <2>7, <5>1
        <5> QED  BY <5>1, <5>2
      <4> QED  BY <4>1, <4>2
    <3> QED  BY <2>4, <3>1, <3>2
  <2>10. ASSUME NEW k \in 1 .. n + 1
         PROVE  All(v, Order[k])
    <3>1. CASE k \in 1 .. n
      <4>1. All(w, Order[k])
        BY <2>4, <3>1
      <4>2. DOMAIN w \subseteq DOMAIN v
        BY <2>5
      <4> QED  BY <2>5, <2>6, <4>1, <4>2
    <3>2. CASE k = n + 1
      <4>1. Order[k] = r
        BY <3>2 DEF r
      <4> SUFFICES ASSUME NEW b \in ToSet(c[r])
                   PROVE  \E i \in DOMAIN v : v[i] = [role |-> r, binding |-> b]
        BY <4>1
      <4>2. PICK i \in DOMAIN c[r] : c[r][i] = b
        BY DEF ToSet
      <4>3. l[i] = [role |-> r, binding |-> b] /\ i \in 1 .. Len(l)
        BY <2>3, <2>5, <4>2
      <4>4. Len(w) + i \in DOMAIN v
        BY <2>5, <4>3
      <4> QED  BY <2>7, <4>3, <4>4
    <3> QED  BY <2>1, <3>1, <3>2
  <2>11. Own(run[n + 1]) /\ \A k \in 1 .. n + 1 : All(run[n + 1], Order[k])
    BY <2>9, <2>10 DEF v
  <2> QED  BY <2>1, <2>11
<1>4. Len(Order) \in Good
  <2>1. \A n \in 0 .. Len(Order) - 1 : n \in Good => n + 1 \in Good
    BY <1>3
  <2>2. Len(Order) \in Nat
    BY OrderIs
  <2> HIDE DEF Good
  <2>3. 0 .. Len(Order) \subseteq Good
    BY <1>2, <2>1, <2>2, Climbs
  <2> QED  BY <2>2, <2>3
<1>5. Own(Wanted(c)) /\ \A k \in 1 .. Len(Order) : All(Wanted(c), Order[k])
  BY <1>1, <1>4
<1>6. Wanted(c) \in Seq(WantedSet(c))
  BY <1>1, OrderIs
<1>7. \A r \in Roles : All(Wanted(c), r)
  <2> HIDE DEF All
  <2> QED  BY <1>5, OrderIs
<1> QED  BY <1>5, <1>6, <1>7

-----------------------------------------------------------------------------
EntryKey(b) == IF IsNative(b) THEN NativeOf[b] ELSE Shortcut(b)

EntrySet(c) == [role : Roles, key : { EntryKey(b) : b \in BindingsIn(c) }]

PlanSet(c) == [ok : BOOLEAN, global : Seq(EntrySet(c)), native : Seq(EntrySet(c))]

EntryOf(w) == [role |-> w.role, key |-> EntryKey(w.binding)]

\* A refused plan stays refused; otherwise an entry goes to one of the lists.
Pushed(plan, w, next) ==
  \/ ~next.ok
  \/ /\ plan.ok /\ next.ok /\ IsValid(w.binding)
     /\ IF IsNative(w.binding)
        THEN /\ next.global = plan.global /\ next.native = Append(plan.native, EntryOf(w))
             /\ \A i \in DOMAIN plan.native : plan.native[i].key # EntryKey(w.binding)
        ELSE /\ next.native = plan.native /\ next.global = Append(plan.global, EntryOf(w))
             /\ \A i \in DOMAIN plan.global : plan.global[i].key # EntryKey(w.binding)

LEMMA PushIs ==
  ASSUME NEW c, NEW plan \in PlanSet(c), NEW w \in WantedSet(c)
  PROVE  Push(plan, w) \in PlanSet(c) /\ Pushed(plan, w, Push(plan, w))
<1> DEFINE native == IsNative(w.binding)
           key    == EntryKey(w.binding)
           list   == IF native THEN plan.native ELSE plan.global
           bad    == ~IsValid(w.binding) \/ (\E i \in DOMAIN list : list[i].key = key)
           next   == Push(plan, w)
<1>1. EntryOf(w) \in EntrySet(c)
  BY DEF WantedSet, EntrySet, EntryOf
<1>2. EntryOf(w) = [role |-> w.role, key |-> key]
  BY DEF EntryOf
<1>3. next = IF ~plan.ok THEN plan
             ELSE IF bad THEN [plan EXCEPT !.ok = FALSE]
             ELSE IF native THEN [plan EXCEPT !.native = Append(list, EntryOf(w))]
             ELSE [plan EXCEPT !.global = Append(list, EntryOf(w))]
  BY <1>2 DEF Push, EntryKey
<1> HIDE DEF native, key, next
<1>4. CASE ~plan.ok
  BY <1>3, <1>4 DEF Pushed, next
<1>7. CASE plan.ok /\ bad
  <2>1. next = [plan EXCEPT !.ok = FALSE]
    BY <1>3, <1>7
  <2>2. next \in PlanSet(c) /\ ~next.ok
    BY <2>1 DEF PlanSet
  <2> QED  BY <2>2 DEF Pushed, next
<1>5. CASE plan.ok /\ ~bad /\ native
  <2>1. next = [plan EXCEPT !.native = Append(plan.native, EntryOf(w))]
    BY <1>3, <1>5
  <2>2. Append(plan.native, EntryOf(w)) \in Seq(EntrySet(c))
    BY <1>1 DEF PlanSet
  <2>3. next \in PlanSet(c)
    BY <2>1, <2>2 DEF PlanSet
  <2>4. next.ok = plan.ok /\ next.global = plan.global /\ next.native = Append(plan.native, EntryOf(w))
    BY <2>1 DEF PlanSet
  <2>5. IsValid(w.binding) /\ \A i \in DOMAIN plan.native : plan.native[i].key # key
    BY <1>5
  <2> QED  BY <1>5, <2>3, <2>4, <2>5 DEF Pushed, native, key, next
<1>6. CASE plan.ok /\ ~bad /\ ~native
  <2>1. next = [plan EXCEPT !.global = Append(plan.global, EntryOf(w))]
    BY <1>3, <1>6
  <2>2. Append(plan.global, EntryOf(w)) \in Seq(EntrySet(c))
    BY <1>1 DEF PlanSet
  <2>3. next \in PlanSet(c)
    BY <2>1, <2>2 DEF PlanSet
  <2>4. next.ok = plan.ok /\ next.native = plan.native /\ next.global = Append(plan.global, EntryOf(w))
    BY <2>1 DEF PlanSet
  <2>5. IsValid(w.binding) /\ \A i \in DOMAIN plan.global : plan.global[i].key # key
    BY <1>6
  <2> QED  BY <1>6, <2>3, <2>4, <2>5 DEF Pushed, native, key, next
<1> QED  BY <1>4, <1>5, <1>6, <1>7 DEF next

\* The plan after each of the wanted bindings.
LEMMA PlanRuns ==
  ASSUME NEW c, IsConfig(c)
  PROVE  \E run \in [0 .. Len(Wanted(c)) -> PlanSet(c)] :
           /\ run[0] = NoPlan
           /\ \A n \in 1 .. Len(Wanted(c)) : Pushed(run[n - 1], Wanted(c)[n], run[n])
           /\ Plan(c) = run[Len(Wanted(c))]
<1> DEFINE A    == PlanSet(c)
           E    == WantedSet(c)
           w    == Wanted(c)
           step == [p \in A \X E |-> Push(p[1], p[2])]
           iter == CHOOSE f : f = [s \in SUBSET DOMAIN w |->
                     IF s = {} THEN NoPlan ELSE Push(f[s \ {Max(s)}], w[Max(s)])]
<1>1. step \in [A \X E -> A] /\ NoPlan \in A
  <2>1. \A a \in A, e \in E : Push(a, e) \in A
    BY PushIs
  <2>2. NoPlan \in A
    BY DEF NoPlan, PlanSet
  <2> QED  BY <2>1, <2>2
<1>2. \A a \in A, e \in E : step[<<a, e>>] = Push(a, e)
  OBVIOUS
<1> HIDE DEF step
<1>3. w \in Seq(E)
  BY WantedAre
<1>4. Plan(c) = iter[DOMAIN w]
  BY DEF Plan, FoldLeft, MapThenFoldSet
<1> HIDE DEF w, E, A
<1>5. \A s \in SUBSET DOMAIN w : s # {} => w[Max(s)] \in E
  <2>1. DOMAIN w = 1 .. Len(w) /\ Len(w) \in Nat
    BY <1>3
  <2>2. \A i \in DOMAIN w : w[i] \in E
    BY <1>3
  <2>3. \A s \in SUBSET (1 .. Len(w)) : s # {} => Max(s) \in s
    BY <2>1, MaxIn
  <2> QED  BY <2>1, <2>2, <2>3
<1>6. PICK f \in [SUBSET DOMAIN w -> A] : IsFold(f, step, NoPlan, w, DOMAIN w)
  BY <1>1, <1>3, FoldExists
<1>7. f = [s \in SUBSET DOMAIN w |-> IF s = {} THEN NoPlan ELSE Push(f[s \ {Max(s)}], w[Max(s)])]
  <2>1. \A s \in SUBSET DOMAIN w : s # {} =>
          step[<<f[s \ {Max(s)}], w[Max(s)]>>] = Push(f[s \ {Max(s)}], w[Max(s)])
    BY <1>2, <1>5
  <2> QED  BY <1>6, <2>1 DEF IsFold
<1>8. iter = [s \in SUBSET DOMAIN w |-> IF s = {} THEN NoPlan ELSE Push(iter[s \ {Max(s)}], w[Max(s)])]
  <2>1. \E g : g = [s \in SUBSET DOMAIN w |-> IF s = {} THEN NoPlan ELSE Push(g[s \ {Max(s)}], w[Max(s)])]
    BY <1>7, Zenon
  <2> QED  BY <2>1, Zenon
<1> HIDE DEF iter
<1>9. IsFolding(iter, step, NoPlan, w, A)
  <2>1. iter[{}] = NoPlan
    BY <1>8
  <2> QED  BY <1>2, <1>5, <1>8, <2>1 DEF IsFolding
<1>10. PICK run \in [0 .. Len(w) -> A] : IsRun(run, step, NoPlan, w) /\ iter[DOMAIN w] = run[Len(w)]
  <2>1. FoldedTo(iter[DOMAIN w], step, NoPlan, w, A)
    BY <1>1, <1>3, <1>9, FoldSteps
  <2> QED  BY <2>1 DEF FoldedTo
<1>11. ASSUME NEW n \in 1 .. Len(w)
       PROVE  Pushed(run[n - 1], w[n], run[n])
  <2>1. run[n - 1] \in A /\ w[n] \in E
    BY <1>3, <1>10
  <2>2. run[n] = Push(run[n - 1], w[n])
    BY <1>2, <1>10, <2>1 DEF IsRun
  <2> QED  BY <2>1, <2>2, PushIs DEF A, E
<1>12. run[0] = NoPlan
  BY <1>10 DEF IsRun
<1> QED  BY <1>4, <1>10, <1>11, <1>12 DEF A, w


\* The entries of the first n wanted bindings, of either kind.
NativeUpTo(w, n) == { EntryOf(w[i]) : i \in { j \in 1 .. n : IsNative(w[j].binding) } }

GlobalUpTo(w, n) == { EntryOf(w[i]) : i \in { j \in 1 .. n : ~IsNative(w[j].binding) } }

\* No two of the first n bindings are the same trigger.
Distinct(w, n) ==
  \A i, j \in 1 .. n :
    i # j /\ (IsNative(w[i].binding) <=> IsNative(w[j].binding)) =>
      EntryKey(w[i].binding) # EntryKey(w[j].binding)

PlannedTo(w, n, plan) ==
  plan.ok =>
    /\ ToSet(plan.native) = NativeUpTo(w, n)
    /\ ToSet(plan.global) = GlobalUpTo(w, n)
    /\ \A i \in 1 .. n : IsValid(w[i].binding)
    /\ Distinct(w, n)

LEMMA AppendedIs ==
  ASSUME NEW E, NEW s \in Seq(E), NEW e \in E
  PROVE  ToSet(Append(s, e)) = ToSet(s) \cup {e}
<1>1. DOMAIN Append(s, e) = 1 .. Len(s) + 1 /\ DOMAIN s = 1 .. Len(s) /\ Len(s) \in Nat
  OBVIOUS
<1>2. \A i \in 1 .. Len(s) : Append(s, e)[i] = s[i]
  OBVIOUS
<1>3. Append(s, e)[Len(s) + 1] = e
  OBVIOUS
<1>4. \A i \in 1 .. Len(s) + 1 : i \in 1 .. Len(s) \/ i = Len(s) + 1
  BY <1>1
<1>5. \A i \in 1 .. Len(s) : i \in 1 .. Len(s) + 1
  BY <1>1
<1>6. Len(s) + 1 \in 1 .. Len(s) + 1
  BY <1>1
<1> QED  BY <1>1, <1>2, <1>3, <1>4, <1>5, <1>6 DEF ToSet

\* One more wanted binding.
LEMMA OnePlanned ==
  ASSUME NEW c, NEW w \in Seq(WantedSet(c)), NEW n \in 0 .. Len(w) - 1,
         NEW plan \in PlanSet(c), NEW next \in PlanSet(c),
         Pushed(plan, w[n + 1], next), PlannedTo(w, n, plan)
  PROVE  PlannedTo(w, n + 1, next)
<1> SUFFICES ASSUME next.ok PROVE PlannedTo(w, n + 1, next)
  BY DEF PlannedTo
<1> DEFINE m == n + 1
           b == w[m].binding
           e == EntryOf(w[m])
<1>1. plan.ok /\ IsValid(b)
  BY DEF Pushed
<1>2. /\ ToSet(plan.native) = NativeUpTo(w, n) /\ ToSet(plan.global) = GlobalUpTo(w, n)
      /\ \A i \in 1 .. n : IsValid(w[i].binding)
      /\ Distinct(w, n)
  BY <1>1 DEF PlannedTo
<1>3. /\ n \in Nat /\ m \in 1 .. m /\ \A i \in 1 .. m : i \in 1 .. n \/ i = m
      /\ \A i \in 1 .. n : i \in 1 .. m /\ i # m
  OBVIOUS
<1>4. \A i \in 1 .. m : IsValid(w[i].binding)
  BY <1>1, <1>2, <1>3
<1>5. w[m] \in WantedSet(c) /\ e \in EntrySet(c)
  <2>1. m \in 1 .. Len(w)
    OBVIOUS
  <2>2. w[m] \in WantedSet(c)
    BY <2>1
  <2> QED  BY <2>2 DEF WantedSet, EntrySet, EntryOf
<1>6. plan.native \in Seq(EntrySet(c)) /\ plan.global \in Seq(EntrySet(c))
  BY DEF PlanSet
<1> HIDE DEF m
<1>7. CASE IsNative(b)
  <2>1. /\ next.global = plan.global /\ next.native = Append(plan.native, e)
        /\ \A i \in DOMAIN plan.native : plan.native[i].key # EntryKey(b)
    BY <1>7 DEF Pushed, m
  <2>2. ToSet(next.native) = ToSet(plan.native) \cup {e}
    BY <1>5, <1>6, <2>1, AppendedIs
  <2>3. NativeUpTo(w, m) = NativeUpTo(w, n) \cup {e}
    BY <1>3, <1>7 DEF NativeUpTo
  <2>4. GlobalUpTo(w, m) = GlobalUpTo(w, n)
    BY <1>3, <1>7 DEF GlobalUpTo
  <2>5. ASSUME NEW i \in 1 .. n, IsNative(w[i].binding)
        PROVE  EntryKey(w[i].binding) # EntryKey(b)
    <3>1. EntryOf(w[i]) \in ToSet(plan.native)
      BY <1>2, <2>5 DEF NativeUpTo
    <3>2. PICK k \in DOMAIN plan.native : plan.native[k] = EntryOf(w[i])
      BY <3>1 DEF ToSet
    <3>3. EntryOf(w[i]).key = EntryKey(w[i].binding)
      BY DEF EntryOf
    <3> QED  BY <2>1, <3>2, <3>3
  <2>6. Distinct(w, m)
    BY <1>2, <1>3, <1>7, <2>5 DEF Distinct
  <2> QED  BY <1>2, <1>4, <2>1, <2>2, <2>3, <2>4, <2>6 DEF PlannedTo, m
<1>8. CASE ~IsNative(b)
  <2>1. /\ next.native = plan.native /\ next.global = Append(plan.global, e)
        /\ \A i \in DOMAIN plan.global : plan.global[i].key # EntryKey(b)
    BY <1>8 DEF Pushed, m
  <2>2. ToSet(next.global) = ToSet(plan.global) \cup {e}
    BY <1>5, <1>6, <2>1, AppendedIs
  <2>3. GlobalUpTo(w, m) = GlobalUpTo(w, n) \cup {e}
    BY <1>3, <1>8 DEF GlobalUpTo
  <2>4. NativeUpTo(w, m) = NativeUpTo(w, n)
    BY <1>3, <1>8 DEF NativeUpTo
  <2>5. ASSUME NEW i \in 1 .. n, ~IsNative(w[i].binding)
        PROVE  EntryKey(w[i].binding) # EntryKey(b)
    <3>1. EntryOf(w[i]) \in ToSet(plan.global)
      BY <1>2, <2>5 DEF GlobalUpTo
    <3>2. PICK k \in DOMAIN plan.global : plan.global[k] = EntryOf(w[i])
      BY <3>1 DEF ToSet
    <3>3. EntryOf(w[i]).key = EntryKey(w[i].binding)
      BY DEF EntryOf
    <3> QED  BY <2>1, <3>2, <3>3
  <2>6. Distinct(w, m)
    BY <1>2, <1>3, <1>8, <2>5 DEF Distinct
  <2> QED  BY <1>2, <1>4, <2>1, <2>2, <2>3, <2>4, <2>6 DEF PlannedTo, m
<1> QED  BY <1>7, <1>8

LEMMA AllPlanned ==
  ASSUME NEW c, IsConfig(c)
  PROVE  PlannedTo(Wanted(c), Len(Wanted(c)), Plan(c)) /\ Plan(c) \in PlanSet(c)
<1> DEFINE w == Wanted(c)
<1>1. w \in Seq(WantedSet(c))
  BY WantedAre
<1>2. PICK run \in [0 .. Len(w) -> PlanSet(c)] :
           /\ run[0] = NoPlan
           /\ \A n \in 1 .. Len(w) : Pushed(run[n - 1], w[n], run[n])
           /\ Plan(c) = run[Len(w)]
  BY PlanRuns
<1> HIDE DEF w
<1> DEFINE Good == { n \in 0 .. Len(w) : PlannedTo(w, n, run[n]) }
<1>3. Len(w) \in Nat
  BY <1>1
<1>4. 0 \in Good
  <2>1. 0 \in 0 .. Len(w) /\ 1 .. 0 = {}
    BY <1>3
  <2>2. NativeUpTo(w, 0) = {} /\ GlobalUpTo(w, 0) = {}
    BY <2>1 DEF NativeUpTo, GlobalUpTo
  <2>3. ToSet(NoPlan.native) = {} /\ ToSet(NoPlan.global) = {}
    BY DEF NoPlan, ToSet
  <2>4. Distinct(w, 0)
    BY <2>1 DEF Distinct
  <2>5. PlannedTo(w, 0, NoPlan)
    BY <2>1, <2>2, <2>3, <2>4 DEF PlannedTo
  <2> QED  BY <1>2, <2>1, <2>5
<1>5. ASSUME NEW n \in 0 .. Len(w) - 1, n \in Good
      PROVE  n + 1 \in Good
  <2>1. n + 1 \in 1 .. Len(w) /\ n + 1 \in 0 .. Len(w) /\ (n + 1) - 1 = n /\ n \in 0 .. Len(w)
    BY <1>3
  <2>2. Pushed(run[n], w[n + 1], run[n + 1])
    BY <1>2, <2>1
  <2>3. PlannedTo(w, n, run[n])
    BY <1>5
  <2>4. run[n] \in PlanSet(c) /\ run[n + 1] \in PlanSet(c)
    BY <1>2, <2>1
  <2>5. PlannedTo(w, n + 1, run[n + 1])
    BY <1>1, <2>2, <2>3, <2>4, OnePlanned
  <2> QED  BY <2>1, <2>5
<1>6. Len(w) \in Good
  <2>1. \A n \in 0 .. Len(w) - 1 : n \in Good => n + 1 \in Good
    BY <1>5
  <2> HIDE DEF Good
  <2>2. 0 .. Len(w) \subseteq Good
    BY <1>3, <1>4, <2>1, Climbs
  <2> QED  BY <1>3, <2>2
<1> QED  BY <1>2, <1>3, <1>6 DEF w

RolesIn(list, key) == { list[i].role : i \in { j \in DOMAIN list : list[j].key = key } }

\* A plan that is not refused holds what the configuration says, and no more.
LEMMA PlanIsWhole ==
  ASSUME NEW c, IsConfig(c), Plan(c).ok
  PROVE  /\ Keys(Plan(c).global) = UNION { Globals(c, r) : r \in Roles }
         /\ Keys(Plan(c).native) = UNION { Natives(c, r) : r \in Roles }
         /\ \A r \in Roles : \A key \in Globals(c, r) :
              RolesIn(Plan(c).global, key) = {r}
         /\ \A i \in DOMAIN Wanted(c) : IsValid(Wanted(c)[i].binding) /\ ~ConflictsAt(c, i)
<1> DEFINE w == Wanted(c)
           p == Plan(c)
<1>1. /\ w \in Seq(WantedSet(c))
      /\ \A i \in DOMAIN w : w[i].binding \in ToSet(c[w[i].role])
      /\ \A r \in Roles : \A b \in ToSet(c[r]) :
           \E i \in DOMAIN w : w[i] = [role |-> r, binding |-> b]
  BY WantedAre
<1>2. PlannedTo(w, Len(w), p) /\ p \in PlanSet(c) /\ p.ok
  BY AllPlanned
<1> HIDE DEF w, p
<1>3. DOMAIN w = 1 .. Len(w) /\ \A i \in DOMAIN w : w[i] \in WantedSet(c)
  BY <1>1
<1>4. /\ ToSet(p.native) = NativeUpTo(w, Len(w))
      /\ ToSet(p.global) = GlobalUpTo(w, Len(w))
      /\ \A i \in DOMAIN w : IsValid(w[i].binding)
      /\ Distinct(w, Len(w))
  BY <1>2, <1>3 DEF PlannedTo
<1>5. \A i \in DOMAIN w : w[i].role \in Roles
  BY <1>3 DEF WantedSet
<1>6. \A x : EntryOf(x).key = EntryKey(x.binding) /\ EntryOf(x).role = x.role
  BY DEF EntryOf
<1>7. Keys(p.global) = { x.key : x \in ToSet(p.global) } /\ Keys(p.native) = { x.key : x \in ToSet(p.native) }
  BY DEF Keys, ToSet
<1>8. Keys(p.global) = UNION { Globals(c, r) : r \in Roles }
  <2>1. ASSUME NEW i \in DOMAIN w, ~IsNative(w[i].binding)
        PROVE  EntryOf(w[i]).key \in UNION { Globals(c, r) : r \in Roles }
    <3>1. EntryOf(w[i]).key = Shortcut(w[i].binding)
      BY <1>6, <2>1 DEF EntryKey
    <3>2. Shortcut(w[i].binding) \in Globals(c, w[i].role)
      BY <1>1, <2>1 DEF Globals
    <3> QED  BY <1>5, <3>1, <3>2
  <2>2. ASSUME NEW r \in Roles, NEW b \in ToSet(c[r]), ~IsNative(b)
        PROVE  Shortcut(b) \in Keys(p.global)
    <3>1. PICK i \in DOMAIN w : w[i] = [role |-> r, binding |-> b]
      BY <1>1
    <3>2. w[i].binding = b
      BY <3>1
    <3>3. EntryOf(w[i]) \in ToSet(p.global)
      BY <1>3, <1>4, <2>2, <3>2 DEF GlobalUpTo
    <3>4. EntryOf(w[i]).key = Shortcut(b)
      BY <1>6, <2>2, <3>2 DEF EntryKey
    <3> QED  BY <1>7, <3>3, <3>4
  <2>3. \A k \in Keys(p.global) : k \in UNION { Globals(c, r) : r \in Roles }
    BY <1>3, <1>4, <1>7, <2>1 DEF GlobalUpTo
  <2>4. \A r \in Roles : \A k \in Globals(c, r) : k \in Keys(p.global)
    BY <2>2 DEF Globals
  <2> QED  BY <2>3, <2>4
<1>9. Keys(p.native) = UNION { Natives(c, r) : r \in Roles }
  <2>1. ASSUME NEW i \in DOMAIN w, IsNative(w[i].binding)
        PROVE  EntryOf(w[i]).key \in UNION { Natives(c, r) : r \in Roles }
    <3>1. EntryOf(w[i]).key = NativeOf[w[i].binding]
      BY <1>6, <2>1 DEF EntryKey
    <3>2. NativeOf[w[i].binding] \in Natives(c, w[i].role)
      BY <1>1, <2>1 DEF Natives
    <3> QED  BY <1>5, <3>1, <3>2
  <2>2. ASSUME NEW r \in Roles, NEW b \in ToSet(c[r]), IsNative(b)
        PROVE  NativeOf[b] \in Keys(p.native)
    <3>1. PICK i \in DOMAIN w : w[i] = [role |-> r, binding |-> b]
      BY <1>1
    <3>2. w[i].binding = b
      BY <3>1
    <3>3. EntryOf(w[i]) \in ToSet(p.native)
      BY <1>3, <1>4, <2>2, <3>2 DEF NativeUpTo
    <3>4. EntryOf(w[i]).key = NativeOf[b]
      BY <1>6, <2>2, <3>2 DEF EntryKey
    <3> QED  BY <1>7, <3>3, <3>4
  <2>3. \A k \in Keys(p.native) : k \in UNION { Natives(c, r) : r \in Roles }
    BY <1>3, <1>4, <1>7, <2>1 DEF NativeUpTo
  <2>4. \A r \in Roles : \A k \in Natives(c, r) : k \in Keys(p.native)
    BY <2>2 DEF Natives
  <2> QED  BY <2>3, <2>4
<1>10. ASSUME NEW r \in Roles, NEW key \in Globals(c, r)
       PROVE  RolesIn(p.global, key) = {r}
  <2>1. PICK b \in ToSet(c[r]) : ~IsNative(b) /\ key = Shortcut(b)
    BY DEF Globals
  <2>2. PICK i \in DOMAIN w : w[i] = [role |-> r, binding |-> b]
    BY <1>1, <2>1
  <2>3. w[i].binding = b /\ w[i].role = r
    BY <2>2
  <2>4. EntryOf(w[i]) \in ToSet(p.global) /\ EntryOf(w[i]).key = key /\ EntryOf(w[i]).role = r
    BY <1>3, <1>4, <1>6, <2>1, <2>3 DEF GlobalUpTo, EntryKey
  <2>5. PICK k \in DOMAIN p.global : p.global[k] = EntryOf(w[i])
    BY <2>4 DEF ToSet
  <2>6. ASSUME NEW j \in DOMAIN p.global, p.global[j].key = key
        PROVE  p.global[j].role = r
    <3>1. p.global[j] \in GlobalUpTo(w, Len(w))
      BY <1>4 DEF ToSet
    <3>2. PICK l \in DOMAIN w : p.global[j] = EntryOf(w[l]) /\ ~IsNative(w[l].binding)
      BY <1>3, <3>1 DEF GlobalUpTo
    <3>3. EntryKey(w[l].binding) = EntryKey(w[i].binding)
      BY <1>6, <2>4, <2>6, <3>2
    <3>4. l = i
      BY <1>3, <1>4, <2>1, <2>3, <3>2, <3>3 DEF Distinct
    <3> QED  BY <2>4, <3>2, <3>4
  <2> QED  BY <2>4, <2>5, <2>6 DEF RolesIn
<1>11. ASSUME NEW i \in DOMAIN w
       PROVE  ~ConflictsAt(c, i)
  <2> SUFFICES ASSUME NEW j \in DOMAIN w \ {i},
                      \/ /\ IsNative(w[i].binding) /\ IsNative(w[j].binding)
                         /\ NativeOf[w[i].binding] = NativeOf[w[j].binding]
                      \/ /\ Parses(w[i].binding) /\ Parses(w[j].binding)
                         /\ Shortcut(w[i].binding) = Shortcut(w[j].binding)
               PROVE  FALSE
    BY DEF ConflictsAt, w
  <2>1. \A b : Parses(b) => ~IsNative(b)
    BY NativeAssumption DEF IsNative
  <2>2. /\ IsNative(w[i].binding) <=> IsNative(w[j].binding)
        /\ EntryKey(w[i].binding) = EntryKey(w[j].binding)
    BY <2>1 DEF EntryKey
  <2> QED  BY <1>3, <1>4, <2>2 DEF Distinct
<1> QED  BY <1>4, <1>8, <1>9, <1>10, <1>11 DEF w, p

\* A configuration that is shown as installed is in force, and one that is
\* neither failed nor being checked has been installed or paused.
LEMMA ShownIsInForce ==
  ASSUME RegTyped, CommandKnown, InstalledKnown
  PROVE  InstalledIsSaved
<1> SUFFICES ASSUME cmd.pc = "none", ~overlapped
             PROVE  /\ supervisor = "Installed" =>
                         \E c \in Configs : InForce(c) /\ (~strayed => c = saved)
                    /\ ~strayed => \A i \in DOMAIN Wanted(cached) :
                         RoleStatus(cached, i) = "installed" =>
                           IF IsNative(Wanted(cached)[i].binding)
                           THEN NativeOf[Wanted(cached)[i].binding] \in monitor
                           ELSE Shortcut(Wanted(cached)[i].binding) \in os
                    /\ Diagnosis(cached) = "ok" => supervisor \in {"Installed", "Disabled"}
  BY Zenon DEF InstalledIsSaved
<1>1. IsConfig(cached) /\ cached["dictation"] # << >>
  BY ConfigAssumption DEF RegTyped, IsConfig
<1>2. supervisor \in {"Starting", "Installed", "Failed", "Disabled"}
  BY DEF RegTyped, SupervisorState
<1>3. supervisor = "Installed" => \E c \in Configs : Holds(c) /\ (~strayed => c = saved)
  BY DEF InstalledKnown
<1>4. /\ \A i \in DOMAIN Wanted(cached) :
           Wanted(cached)[i].role \in Roles /\ Wanted(cached)[i].binding \in ToSet(cached[Wanted(cached)[i].role])
      /\ \A r \in Roles : \A b \in ToSet(cached[r]) :
           \E i \in DOMAIN Wanted(cached) : Wanted(cached)[i] = [role |-> r, binding |-> b]
  <2>1. Wanted(cached) \in Seq(WantedSet(cached))
    BY <1>1, WantedAre
  <2>2. \A w \in Seq(WantedSet(cached)) : \A i \in DOMAIN w : w[i] \in WantedSet(cached)
    OBVIOUS
  <2>3. \A w \in WantedSet(cached) : w.role \in Roles
    BY DEF WantedSet
  <2>4. \A i \in DOMAIN Wanted(cached) : Wanted(cached)[i].role \in Roles
    BY <2>1, <2>2, <2>3, Zenon
  <2>5. \A i \in DOMAIN Wanted(cached) : Wanted(cached)[i].binding \in ToSet(cached[Wanted(cached)[i].role])
    BY <1>1, WantedAre, Zenon
  <2>6. \A r \in Roles : \A b \in ToSet(cached[r]) :
          \E i \in DOMAIN Wanted(cached) : Wanted(cached)[i] = [role |-> r, binding |-> b]
    BY <1>1, WantedAre, Zenon
  <2> QED  BY <2>4, <2>5, <2>6, Zenon
<1>5. ASSUME NEW c \in Configs, Holds(c)
      PROVE  InForce(c)
  <2>0. IsConfig(c)
    BY ConfigAssumption DEF IsConfig
  <2>1. Plan(c).ok /\ os = Keys(Plan(c).global) /\ monitor = Keys(Plan(c).native)
        /\ roleCache = Plan(c)
    BY <1>5 DEF Holds
  <2>2. /\ Keys(Plan(c).global) = UNION { Globals(c, r) : r \in Roles }
        /\ Keys(Plan(c).native) = UNION { Natives(c, r) : r \in Roles }
    BY <2>0, <2>1, PlanIsWhole, Zenon
  <2>3. ASSUME NEW r \in Roles, NEW key \in Globals(c, r)
        PROVE  RoleOf(key) = {r}
    <3>1. RolesIn(Plan(c).global, key) = {r}
      BY <2>0, <2>1, PlanIsWhole, Zenon
    <3> QED  BY <2>1, <3>1 DEF RoleOf, RolesIn
  <2> QED  BY <2>1, <2>2, <2>3, Zenon DEF InForce
<1>6. ASSUME ~strayed, NEW i \in DOMAIN Wanted(cached), RoleStatus(cached, i) = "installed"
      PROVE  IF IsNative(Wanted(cached)[i].binding)
             THEN NativeOf[Wanted(cached)[i].binding] \in monitor
             ELSE Shortcut(Wanted(cached)[i].binding) \in os
  <2>1. supervisor = "Installed"
    BY <1>2, <1>6 DEF RoleStatus, ErrorKnown
  <2>2. IsNative(Wanted(cached)[i].binding) =>
          NativeOf[Wanted(cached)[i].binding] \in Natives(cached, Wanted(cached)[i].role)
    BY <1>4 DEF Natives
  <2>3. ~IsNative(Wanted(cached)[i].binding) =>
          Shortcut(Wanted(cached)[i].binding) \in Globals(cached, Wanted(cached)[i].role)
    BY <1>4 DEF Globals
  <2>4. cached = saved /\ \E c \in Configs : Holds(c) /\ c = saved
    BY <1>3, <1>6, <2>1 DEF CommandKnown
  <2>5. InForce(cached)
    BY <1>5, <2>4
  <2>6. /\ os = UNION {Globals(cached, r) : r \in Roles}
        /\ monitor = UNION {Natives(cached, r) : r \in Roles}
    BY <2>5, Zenon DEF InForce
  <2> QED  BY <1>4, <2>2, <2>3, <2>6
<1>7. ASSUME Diagnosis(cached) = "ok"
      PROVE  supervisor \in {"Installed", "Disabled"}
  <2>1. /\ ~\E i \in DOMAIN Wanted(cached) : RoleStatus(cached, i) = "starting"
        /\ ~ErrorKnown /\ Plan(cached).ok
    BY <1>7 DEF Diagnosis
  <2>2. PICK b : b \in ToSet(cached["dictation"])
    <3>1. cached["dictation"] \in Seq(ToSet(cached["dictation"]))
      BY <1>1 DEF IsConfig, Roles
    <3>2. cached["dictation"][1] \in ToSet(cached["dictation"])
      BY <1>1, <3>1 DEF ToSet
    <3> QED  BY <3>2
  <2>3. PICK i \in DOMAIN Wanted(cached) : Wanted(cached)[i] = [role |-> "dictation", binding |-> b]
    BY <1>4, <2>2 DEF Roles
  <2>4. IsValid(Wanted(cached)[i].binding) /\ ~ConflictsAt(cached, i)
    BY <1>1, <2>1, PlanIsWhole
  <2>5. supervisor # "Starting"
    BY <2>1, <2>4 DEF RoleStatus
  <2> QED  BY <1>2, <2>1, <2>5 DEF ErrorKnown
<1>8. supervisor = "Installed" => \E c \in Configs : InForce(c) /\ (~strayed => c = saved)
  BY <1>3, <1>5
<1> QED  BY <1>6, <1>7, <1>8

\* When the supervisor reports the shortcuts installed, the system and the
\* monitor hold the shortcuts of one configuration as a whole, each for its role:
\* the saved one, unless a save has failed after it filled the cache; and until
\* then what the settings show as installed or as fine is so.
THEOREM InstalledShown == RegSpec => []InstalledIsSaved
<1>1. RegInv => InstalledIsSaved
  BY ShownIsInForce DEF RegInv
<1> QED  BY <1>1, GenerationsProtect, PTL

-----------------------------------------------------------------------------
(* Shortcuts *)

Task == [kind : TaskKinds, pc : {"spawned", "checked", "starting", "over"}, free : BOOLEAN]

TasksTyped == tasks \in Seq(Task)

\* What the properties make exceptions for.
MicShared == reasons \cap {"askBeganSecond", "staleCheck", "unasked"} # {}
LeftOver  == reasons \cap {"overtaken", "askTookRelease", "unasked"} # {}

\* The lock lets one start at a time set up, and nobody else changes the state
\* of the pipeline meanwhile, but a draft that took it.
OneStarts ==
  /\ \A s, t \in DOMAIN tasks : tasks[s].pc = "starting" /\ tasks[t].pc = "starting" => s = t
  /\ \A t \in DOMAIN tasks : tasks[t].pc = "starting" =>
       tasks[t].kind = "start" /\ (pipe = "Preparing" \/ MicShared)

\* A start goes on after its check only if Ask was free then, or it was not
\* asked for with a key.
ChecksHold ==
  \A t \in DOMAIN tasks :
    tasks[t].kind = "start" /\ tasks[t].pc = "checked" => tasks[t].free \/ "unasked" \in reasons

\* A draft is Ask's, and has the pipeline to itself.
DraftIsAlone ==
  /\ draft # "none" => ask = "processing"
  /\ draft = "checked" /\ pipe \in Active => MicShared
  /\ draft = "polishing" => pipe = "Polishing" \/ MicShared

MicInv == TasksTyped /\ OneStarts /\ ChecksHold /\ DraftIsAlone /\ OneVoiceOperation

\* A stop that still has to run.
Pending(t) == tasks[t].kind = "stop" /\ tasks[t].pc # "over"

\* In hold mode, once the keys are up, what records and every start that has
\* not run have a stop behind them.
StopsAreBehind ==
  mode = "hold" /\ keys = {} =>
    \/ LeftOver
    \/ /\ pipe = "Recording" => \E t \in DOMAIN tasks : Pending(t)
       /\ \A s \in DOMAIN tasks : tasks[s].kind = "start" /\ tasks[s].pc # "over" =>
            \E t \in DOMAIN tasks : s < t /\ Pending(t)

\* Only a start sets up.
StartsStart == \A t \in DOMAIN tasks : tasks[t].pc = "starting" => tasks[t].kind = "start"

HoldInv == TasksTyped /\ StartsStart /\ StopsAreBehind

USE ShortcutAssumption
USE DEF shortVars, TaskKinds, Active, RecordingRoles, Task
-----------------------------------------------------------------------------
(* The list of tasks after each of the things that change it.              *)

LEMMA TaskOf ==
  ASSUME TasksTyped, NEW t \in DOMAIN tasks
  PROVE  tasks[t] \in Task
<1> HIDE DEF Task
<1>1. DOMAIN tasks = 1..Len(tasks)
  BY DEF TasksTyped
<1>2. QED
  BY <1>1 DEF TasksTyped

LEMMA SpawnedTasks ==
  ASSUME TasksTyped, NEW kind \in TaskKinds, Spawn(kind)
  PROVE  /\ tasks' \in Seq(Task)
         /\ DOMAIN tasks' = DOMAIN tasks \cup {Len(tasks) + 1}
         /\ \A t \in DOMAIN tasks : tasks'[t] = tasks[t] /\ t < Len(tasks) + 1
         /\ tasks'[Len(tasks) + 1] = [kind |-> kind, pc |-> "spawned", free |-> TRUE]
<1> DEFINE new == [kind |-> kind, pc |-> "spawned", free |-> TRUE]
<1>1. new \in Task /\ tasks \in Seq(Task) /\ tasks' = Append(tasks, new)
  BY DEF Spawn, TasksTyped
<1> HIDE DEF new
<1>2. Len(tasks) \in Nat /\ DOMAIN tasks = 1..Len(tasks)
  BY <1>1
<1>3. tasks' \in Seq(Task) /\ Len(tasks') = Len(tasks) + 1
  BY <1>1
<1>4. \A t \in DOMAIN tasks : tasks'[t] = tasks[t]
  BY <1>1, <1>2
<1>5. tasks'[Len(tasks) + 1] = new
  BY <1>1
<1>6. DOMAIN tasks' = 1..(Len(tasks) + 1)
  BY <1>3
<1>7. QED
  BY <1>2, <1>3, <1>4, <1>5, <1>6 DEF new

LEMMA ChangedTasks ==
  ASSUME TasksTyped, NEW t \in DOMAIN tasks, NEW new \in Task,
         tasks' = [tasks EXCEPT ![t] = new]
  PROVE  /\ tasks' \in Seq(Task) /\ DOMAIN tasks' = DOMAIN tasks
         /\ tasks'[t] = new
         /\ \A s \in DOMAIN tasks : s # t => tasks'[s] = tasks[s]
BY DEF TasksTyped

LEMMA GoneTasks ==
  ASSUME TasksTyped, NEW t \in DOMAIN tasks,
         NEW pc \in {"spawned", "checked", "starting", "over"}, Goto(t, pc)
  PROVE  /\ tasks' \in Seq(Task) /\ DOMAIN tasks' = DOMAIN tasks
         /\ tasks'[t].pc = pc /\ tasks'[t].kind = tasks[t].kind /\ tasks'[t].free = tasks[t].free
         /\ \A s \in DOMAIN tasks : s # t => tasks'[s] = tasks[s]
<1>1. tasks[t] \in Task
  BY TaskOf
<1> DEFINE new == [tasks[t] EXCEPT !.pc = pc]
<1>2. new \in Task /\ new.pc = pc /\ new.kind = tasks[t].kind /\ new.free = tasks[t].free
  BY <1>1
<1>3. tasks' = [tasks EXCEPT ![t] = new]
  BY DEF Goto
<1> HIDE DEF new
<1>4. QED
  BY <1>2, <1>3, ChangedTasks

LEMMA CheckedTasks ==
  ASSUME TasksTyped, NEW t \in DOMAIN tasks, NEW kind \in TaskKinds, Checked(t, kind)
  PROVE  /\ tasks' \in Seq(Task) /\ DOMAIN tasks' = DOMAIN tasks
         /\ tasks'[t].pc = "checked" /\ tasks'[t].kind = kind /\ tasks'[t].free = ~Busy
         /\ \A s \in DOMAIN tasks : s # t => tasks'[s] = tasks[s]
<1> DEFINE new == [kind |-> kind, pc |-> "checked", free |-> ~Busy]
<1>1. new \in Task
  BY DEF Busy
<1>2. tasks' = [tasks EXCEPT ![t] = new]
  BY DEF Checked
<1>3. /\ tasks' \in Seq(Task) /\ DOMAIN tasks' = DOMAIN tasks
      /\ tasks'[t] = new
      /\ \A s \in DOMAIN tasks : s # t => tasks'[s] = tasks[s]
  <2> HIDE DEF new
  <2>1. QED
    BY <1>1, <1>2, ChangedTasks
<1>4. QED
  BY <1>3
-----------------------------------------------------------------------------
LEMMA MicInvInit == ShortInit => MicInv
<1> SUFFICES ASSUME ShortInit PROVE MicInv
  OBVIOUS
<1>1. TasksTyped
  BY DEF ShortInit, TasksTyped
<1>2. DOMAIN tasks = {}
  BY DEF ShortInit
<1>3. OneStarts /\ ChecksHold
  BY <1>2 DEF OneStarts, ChecksHold
<1>4. DraftIsAlone /\ OneVoiceOperation
  BY DEF ShortInit, DraftIsAlone, OneVoiceOperation
<1>5. QED
  BY <1>1, <1>3, <1>4 DEF MicInv

\* What a step keeps that leaves the tasks alone, or only spawns one.
LEMMA MicInvSpawn ==
  ASSUME MicInv, NEW kind \in TaskKinds, Spawn(kind), UNCHANGED <<pipe, reasons>>
  PROVE  TasksTyped' /\ OneStarts' /\ ChecksHold'
<1> USE DEF MicInv
<1>1. TasksTyped' 
  BY SpawnedTasks DEF TasksTyped
<1>2. OneStarts'
  BY SpawnedTasks DEF OneStarts, MicShared
<1>3. ChecksHold'
  BY SpawnedTasks DEF ChecksHold
<1>4. QED
  BY <1>1, <1>2, <1>3

LEMMA MicInvKeeps ==
  ASSUME MicInv, UNCHANGED tasks, reasons \subseteq reasons',
         \A t \in DOMAIN tasks : tasks[t].pc = "starting" => pipe' = pipe \/ MicShared'
  PROVE  TasksTyped' /\ OneStarts' /\ ChecksHold'
<1> USE DEF MicInv
<1>1. TasksTyped'
  BY DEF TasksTyped
<1>2. MicShared => MicShared'
  BY DEF MicShared
<1>3. OneStarts'
  BY <1>2 DEF OneStarts
<1>4. ChecksHold'
  BY DEF ChecksHold
<1>5. QED
  BY <1>1, <1>3, <1>4

LEMMA MicInvStep == MicInv /\ [ShortNext]_shortVars => MicInv'
<1> SUFFICES ASSUME MicInv, [ShortNext]_shortVars PROVE MicInv'
  OBVIOUS
<1> USE DEF MicInv
<1>0. OneVoiceOperation <=>
        ((pipe \in Active /\ ask \in {"starting", "recording"}) \/ "draftTookPipeline" \in reasons
           => MicShared)
  BY DEF OneVoiceOperation, MicShared
<1>0p. OneVoiceOperation' <=>
        ((pipe' \in Active /\ ask' \in {"starting", "recording"}) \/ "draftTookPipeline" \in reasons'
           => MicShared')
  BY DEF OneVoiceOperation, MicShared
<1>00. reasons \subseteq reasons' => (MicShared => MicShared')
  BY DEF MicShared
<1>000. Len(tasks) \in Nat
  BY DEF TasksTyped
\* A press that is Ask's.
<1>ask. ASSUME AskPressed, UNCHANGED <<tasks, pipe, draft>> PROVE MicInv'
  <2>1. reasons \subseteq reasons'
    BY <1>ask DEF AskPressed
  <2>2. TasksTyped' /\ OneStarts' /\ ChecksHold'
    BY <1>ask, <2>1, MicInvKeeps
  <2>3. MicShared => MicShared'
    BY <1>00, <2>1
  <2>4. draft # "none" => ask' = "processing"
    BY <1>ask DEF AskPressed, DraftIsAlone
  <2>5. DraftIsAlone'
    BY <1>ask, <2>3, <2>4 DEF DraftIsAlone
  <2>6. CASE ask = "free" /\ asks < MaxAsks
    <3>1. reasons' = reasons \cup IF pipe \in Active THEN {"askBeganSecond"} ELSE {}
      BY <1>ask, <2>6 DEF AskPressed
    <3>2. pipe \in Active => MicShared'
      BY <3>1 DEF MicShared
    <3>3. "draftTookPipeline" \in reasons' => MicShared'
      BY <3>1, <1>0, <2>3
    <3>4. OneVoiceOperation'
      BY <3>2, <3>3, <1>0p, <1>ask
    <3>5. QED
      BY <2>2, <2>5, <3>4
  <2>7. CASE ~(ask = "free" /\ asks < MaxAsks)
    <3>1. UNCHANGED reasons /\ (ask' = ask \/ ask' = "processing")
      BY <1>ask, <2>7 DEF AskPressed
    <3>2. OneVoiceOperation'
      BY <3>1, <1>0, <1>0p, <2>3, <1>ask
    <3>3. QED
      BY <2>2, <2>5, <3>2
  <2>8. QED
    BY <2>6, <2>7
\* A task is spawned, or not.
<1>spawn. ASSUME NEW kind \in TaskKinds, Spawn(kind) \/ UNCHANGED tasks,
                 UNCHANGED <<pipe, ask, draft>>, reasons' \in {reasons, reasons \cup {"askTookRelease"}}
          PROVE  MicInv'
  <2>1. reasons \subseteq reasons' /\ (MicShared <=> MicShared')
        /\ ("draftTookPipeline" \in reasons' <=> "draftTookPipeline" \in reasons)
        /\ ("unasked" \in reasons' <=> "unasked" \in reasons)
    BY <1>spawn DEF MicShared
  <2>2. DraftIsAlone' /\ OneVoiceOperation'
    BY <1>spawn, <2>1, <1>0, <1>0p DEF DraftIsAlone
  <2>3. CASE UNCHANGED tasks
    BY <1>spawn, <2>1, <2>2, <2>3, MicInvKeeps
  <2>4. CASE Spawn(kind)
    <3>1. TasksTyped'
      BY <2>4, SpawnedTasks DEF TasksTyped
    <3>2. OneStarts'
      BY <2>4, <1>spawn, <2>1, SpawnedTasks DEF OneStarts
    <3>3. ChecksHold'
      BY <2>4, <1>spawn, <2>1, SpawnedTasks DEF ChecksHold
    <3>4. QED
      BY <3>1, <3>2, <3>3, <2>2
  <2>5. QED
    BY <1>spawn, <2>3, <2>4
<1>1. ASSUME NEW r \in RecordingRoles, Press(r) PROVE MicInv'
  <2>1. CASE IsAsks(r)
    BY <1>1, <2>1, <1>ask DEF Press
  <2>2. CASE ~IsAsks(r)
    <3>1. RecordingPressed /\ UNCHANGED <<pipe, ask, draft, reasons>>
      BY <1>1, <2>2 DEF Press
    <3>2. Spawn("start") \/ Spawn("stop") \/ UNCHANGED tasks
      BY <3>1 DEF RecordingPressed
    <3>3. QED
      BY <3>1, <3>2, <1>spawn
  <2>3. QED
    BY <2>1, <2>2
<1>2. ASSUME NEW r \in RecordingRoles, Release(r) PROVE MicInv'
  <2>1. UNCHANGED <<pipe, ask, draft>> /\ reasons' \in {reasons, reasons \cup {"askTookRelease"}}
    BY <1>2 DEF Release
  <2>2. Spawn("stop") \/ UNCHANGED tasks
    BY <1>2 DEF Release, RecordingReleased
  <2>3. QED
    BY <2>1, <2>2, <1>spawn
<1>3. CASE PressAsk
  BY <1>3, <1>ask DEF PressAsk
<1>4. ASSUME NEW kind \in {"flip", "tray"}, SpawnOther(kind) PROVE MicInv'
  BY <1>4, <1>spawn DEF SpawnOther
<1>5. ASSUME NEW t \in DOMAIN tasks, TaskChecks(t) PROVE MicInv'
  <2>1. tasks[t] \in Task /\ tasks[t].pc = "spawned"
    BY <1>5, TaskOf DEF TaskChecks
  <2>2. UNCHANGED <<pipe, ask, draft>>
        /\ \/ Goto(t, "over") /\ reasons' \in {reasons, reasons \cup {"askTookRelease"}}
           \/ Checked(t, "start") /\ reasons' = reasons \cup {"unasked"}
           \/ Checked(t, "stop") /\ UNCHANGED reasons
           \/ ~Busy /\ Checked(t, tasks[t].kind) /\ reasons' = reasons
    BY <1>5, <2>1 DEF TaskChecks
  <2>3. reasons \subseteq reasons' /\ (MicShared => MicShared')
        /\ ("draftTookPipeline" \in reasons' <=> "draftTookPipeline" \in reasons)
    BY <2>2 DEF MicShared
  <2>4. DraftIsAlone' /\ OneVoiceOperation'
    BY <2>2, <2>3, <1>0, <1>0p DEF DraftIsAlone
  <2>5. CASE Goto(t, "over")
    <3>1. TasksTyped'
      BY <2>5, GoneTasks DEF TasksTyped
    <3>2. OneStarts' /\ ChecksHold'
      BY <2>5, <2>2, <2>3, GoneTasks DEF OneStarts, ChecksHold
    <3>3. QED
      BY <3>1, <3>2, <2>4
  <2>6. ASSUME NEW kind \in TaskKinds, Checked(t, kind),
               kind = "start" => ~Busy \/ "unasked" \in reasons'
        PROVE  MicInv'
    <3>1. TasksTyped'
      BY <2>6, CheckedTasks DEF TasksTyped
    <3>2. OneStarts'
      BY <2>6, <2>2, <2>3, CheckedTasks DEF OneStarts
    <3>3. ChecksHold'
      BY <2>6, <2>3, CheckedTasks DEF ChecksHold
    <3>4. QED
      BY <3>1, <3>2, <3>3, <2>4
  <2>7. QED
    BY <2>1, <2>2, <2>5, <2>6
<1>6. ASSUME NEW t \in DOMAIN tasks, TaskStarts(t) PROVE MicInv'
  <2>1. /\ tasks[t].kind = "start" /\ tasks[t].pc = "checked"
        /\ \A s \in DOMAIN tasks : tasks[s].pc # "starting"
        /\ UNCHANGED <<ask, draft>>
    BY <1>6 DEF TaskStarts, LockIsFree
  <2>2. CASE pipe = "Idle"
    <3>1. /\ pipe' = "Preparing" /\ Goto(t, "starting")
          /\ reasons' = reasons \cup IF Busy /\ tasks[t].free THEN {"staleCheck"} ELSE {}
      BY <1>6, <2>2 DEF TaskStarts
    <3>2. reasons \subseteq reasons' /\ (MicShared => MicShared')
          /\ ("draftTookPipeline" \in reasons' <=> "draftTookPipeline" \in reasons)
      BY <3>1 DEF MicShared
    <3>3. Busy => MicShared'
      BY <3>1, <2>1 DEF MicShared, ChecksHold
    <3>4. TasksTyped'
      BY <3>1, GoneTasks DEF TasksTyped
    <3>5. OneStarts'
      BY <3>1, <2>1, GoneTasks DEF OneStarts
    <3>6. ChecksHold'
      BY <3>1, <3>2, GoneTasks DEF ChecksHold
    <3>7. DraftIsAlone'
      BY <3>1, <3>2, <3>3, <2>1 DEF DraftIsAlone, Busy
    <3>8. OneVoiceOperation'
      BY <3>1, <3>2, <3>3, <2>1, <1>0, <1>0p DEF Busy
    <3>9. QED
      BY <3>4, <3>5, <3>6, <3>7, <3>8
  <2>3. CASE pipe # "Idle"
    <3>1. Goto(t, "over") /\ UNCHANGED <<pipe, reasons>>
      BY <1>6, <2>3 DEF TaskStarts
    <3>2. TasksTyped'
      BY <3>1, GoneTasks DEF TasksTyped
    <3>3. OneStarts' /\ ChecksHold'
      BY <3>1, GoneTasks DEF OneStarts, ChecksHold, MicShared
    <3>4. DraftIsAlone' /\ OneVoiceOperation'
      BY <3>1, <2>1 DEF DraftIsAlone, OneVoiceOperation, MicShared
    <3>5. QED
      BY <3>2, <3>3, <3>4
  <2>4. QED
    BY <2>2, <2>3
<1>7. ASSUME NEW t \in DOMAIN tasks, TaskRecords(t) PROVE MicInv'
  <2>1. /\ tasks[t].pc = "starting" /\ Goto(t, "over") /\ pipe' \in {"Recording", "Idle"}
        /\ UNCHANGED <<ask, draft, reasons>>
    BY <1>7 DEF TaskRecords
  <2>2. pipe = "Preparing" \/ MicShared
    BY <2>1 DEF OneStarts
  <2>3. \A s \in DOMAIN tasks : s # t => tasks[s].pc # "starting"
    BY <2>1 DEF OneStarts
  <2>4. MicShared' <=> MicShared
    BY <2>1 DEF MicShared
  <2>5. TasksTyped'
    BY <2>1, GoneTasks DEF TasksTyped
  <2>6. OneStarts'
    BY <2>1, <2>3, GoneTasks DEF OneStarts
  <2>7. ChecksHold'
    BY <2>1, GoneTasks DEF ChecksHold
  <2>8. DraftIsAlone'
    BY <2>1, <2>2, <2>4 DEF DraftIsAlone
  <2>9. OneVoiceOperation'
    BY <2>1, <2>2, <2>4, <1>0, <1>0p
  <2>10. QED
    BY <2>5, <2>6, <2>7, <2>8, <2>9
<1>8. ASSUME NEW t \in DOMAIN tasks, TaskStops(t) PROVE MicInv'
  <2>1. /\ Goto(t, "over") /\ UNCHANGED <<ask, draft>>
        /\ \A s \in DOMAIN tasks : tasks[s].pc # "starting"
        /\ pipe' = IF pipe = "Recording" THEN "Transcribing" ELSE pipe
        /\ reasons' \in {reasons, reasons \cup {"overtaken"}}
    BY <1>8 DEF TaskStops, LockIsFree
  <2>2. /\ MicShared' <=> MicShared
        /\ "draftTookPipeline" \in reasons' <=> "draftTookPipeline" \in reasons
        /\ "unasked" \in reasons' <=> "unasked" \in reasons
    BY <2>1 DEF MicShared
  <2>3. TasksTyped'
    BY <2>1, GoneTasks DEF TasksTyped
  <2>4. OneStarts'
    BY <2>1, GoneTasks DEF OneStarts
  <2>5. ChecksHold'
    BY <2>1, <2>2, GoneTasks DEF ChecksHold
  <2>6. DraftIsAlone'
    BY <2>1, <2>2 DEF DraftIsAlone
  <2>7. OneVoiceOperation'
    BY <2>1, <2>2, <1>0, <1>0p
  <2>8. QED
    BY <2>3, <2>4, <2>5, <2>6, <2>7
<1>9. CASE PipelineEnds
  <2>1. pipe = "Transcribing" /\ pipe' = "Idle" /\ UNCHANGED <<tasks, ask, draft, reasons>>
    BY <1>9 DEF PipelineEnds
  <2>2. MicShared' <=> MicShared
    BY <2>1 DEF MicShared
  <2>3. \A t \in DOMAIN tasks : tasks[t].pc = "starting" => MicShared'
    BY <2>1, <2>2 DEF OneStarts
  <2>4. TasksTyped' /\ OneStarts' /\ ChecksHold'
    BY <2>1, <2>3, MicInvKeeps
  <2>5. DraftIsAlone' /\ OneVoiceOperation'
    BY <2>1, <2>2, <1>0, <1>0p DEF DraftIsAlone
  <2>6. QED
    BY <2>4, <2>5
<1>10. CASE AskRecords
  <2>1. /\ ask = "starting" /\ ask' \in {"free", "recording", "processing"}
        /\ UNCHANGED <<tasks, pipe, draft, reasons>>
    BY <1>10 DEF AskRecords
  <2>2. MicShared' <=> MicShared
    BY <2>1 DEF MicShared
  <2>3. TasksTyped' /\ OneStarts' /\ ChecksHold'
    BY <2>1, MicInvKeeps
  <2>4. DraftIsAlone' /\ OneVoiceOperation'
    BY <2>1, <2>2, <1>0, <1>0p DEF DraftIsAlone
  <2>5. QED
    BY <2>3, <2>4
<1>11. CASE AskDrafts
  <2>1. /\ ask = "processing" /\ pipe = "Idle" /\ draft' = "checked"
        /\ UNCHANGED <<tasks, pipe, ask, reasons>>
    BY <1>11 DEF AskDrafts
  <2>2. MicShared' <=> MicShared
    BY <2>1 DEF MicShared
  <2>3. TasksTyped' /\ OneStarts' /\ ChecksHold'
    BY <2>1, MicInvKeeps
  <2>4. DraftIsAlone' /\ OneVoiceOperation'
    BY <2>1, <2>2, <1>0, <1>0p DEF DraftIsAlone
  <2>5. QED
    BY <2>3, <2>4
<1>12. CASE AskPolishes
  <2>1. /\ draft = "checked" /\ draft' = "polishing" /\ pipe' = "Polishing"
        /\ reasons' = reasons \cup IF pipe \in Active THEN {"draftTookPipeline"} ELSE {}
        /\ UNCHANGED <<tasks, ask>>
    BY <1>12 DEF AskPolishes
  <2>2. /\ MicShared' <=> MicShared
        /\ reasons \subseteq reasons'
    BY <2>1 DEF MicShared
  <2>3. pipe \in Active => MicShared
    BY <2>1 DEF DraftIsAlone
  <2>4. \A t \in DOMAIN tasks : tasks[t].pc = "starting" => MicShared'
    BY <2>2, <2>3 DEF OneStarts
  <2>5. TasksTyped' /\ OneStarts' /\ ChecksHold'
    BY <2>1, <2>2, <2>4, MicInvKeeps
  <2>6. DraftIsAlone'
    BY <2>1 DEF DraftIsAlone
  <2>7. OneVoiceOperation'
    BY <2>1, <2>2, <2>3, <1>0, <1>0p
  <2>8. QED
    BY <2>5, <2>6, <2>7
<1>13. CASE AskEnds
  <2>1. /\ ask = "processing" /\ ask' = "free" /\ draft # "checked" /\ draft' = "none"
        /\ pipe' = IF draft = "polishing" THEN "Idle" ELSE pipe
        /\ UNCHANGED <<tasks, reasons>>
    BY <1>13 DEF AskEnds
  <2>2. MicShared' <=> MicShared
    BY <2>1 DEF MicShared
  <2>3. \A t \in DOMAIN tasks : tasks[t].pc = "starting" => pipe' = pipe \/ MicShared'
    BY <2>1, <2>2 DEF OneStarts, DraftIsAlone
  <2>4. TasksTyped' /\ OneStarts' /\ ChecksHold'
    BY <2>1, <2>3, MicInvKeeps
  <2>5. DraftIsAlone' /\ OneVoiceOperation'
    BY <2>1, <2>2, <1>0, <1>0p DEF DraftIsAlone
  <2>6. QED
    BY <2>4, <2>5
<1>14. CASE UNCHANGED shortVars
  <2>1. TasksTyped' /\ OneStarts' /\ ChecksHold'
    BY <1>14, MicInvKeeps
  <2>2. DraftIsAlone' /\ OneVoiceOperation'
    BY <1>14 DEF DraftIsAlone, OneVoiceOperation, MicShared
  <2>3. QED
    BY <2>1, <2>2
<1>15. QED
  BY <1>1, <1>2, <1>3, <1>4, <1>5, <1>6, <1>7, <1>8, <1>9, <1>10, <1>11, <1>12, <1>13, <1>14
     DEF ShortNext

\* However many tasks and questions there are, and in whatever order the tasks
\* run, dictation and Ask do not use the microphone together, and a draft does
\* not take the pipeline from a recording, but for the three reasons.
THEOREM OneVoice == ShortSpec => []OneVoiceOperation
<1>1. MicInv => OneVoiceOperation
  BY DEF MicInv
<1>2. QED
  BY <1>1, MicInvInit, MicInvStep, PTL DEF ShortSpec
-----------------------------------------------------------------------------
LEMMA HoldInvInit == ShortInit => HoldInv
<1> SUFFICES ASSUME ShortInit PROVE HoldInv
  OBVIOUS
<1>1. TasksTyped /\ DOMAIN tasks = {} /\ pipe = "Idle"
  BY DEF ShortInit, TasksTyped
<1>2. QED
  BY <1>1 DEF HoldInv, StartsStart, StopsAreBehind

\* A step that leaves the tasks alone, and does not make the pipeline record.
LEMMA HoldInvKeeps ==
  ASSUME HoldInv, UNCHANGED <<mode, keys, tasks>>, reasons \subseteq reasons',
         pipe' = "Recording" => pipe = "Recording"
  PROVE  HoldInv'
<1>1. TasksTyped' /\ StartsStart'
  BY DEF HoldInv, TasksTyped, StartsStart
<1>2. LeftOver => LeftOver'
  BY DEF LeftOver
<1>3. StopsAreBehind'
  BY <1>2 DEF HoldInv, StopsAreBehind, Pending
<1>4. QED
  BY <1>1, <1>3 DEF HoldInv

\* A step of one task t that does not end a stop.
LEMMA HoldInvTask ==
  ASSUME HoldInv, NEW t \in DOMAIN tasks, UNCHANGED <<mode, keys>>, reasons \subseteq reasons',
         TasksTyped', DOMAIN tasks' = DOMAIN tasks,
         \A s \in DOMAIN tasks : s # t => tasks'[s] = tasks[s],
         tasks'[t].pc = "starting" => tasks'[t].kind = "start",
         Pending(t) => Pending(t)',
         tasks'[t].kind = "start" /\ tasks'[t].pc # "over" =>
           (tasks[t].kind = "start" /\ tasks[t].pc # "over") \/ LeftOver',
         pipe' = "Recording" =>
           pipe = "Recording" \/ (tasks[t].kind = "start" /\ tasks[t].pc # "over")
  PROVE  HoldInv'
<1>1. TasksTyped' /\ StartsStart'
  BY DEF HoldInv, StartsStart
<1>2. LeftOver => LeftOver'
  BY DEF LeftOver
<1>3. \A s \in DOMAIN tasks : Pending(s) => Pending(s)'
  BY DEF Pending
<1>4. StopsAreBehind'
  <2> SUFFICES ASSUME mode' = "hold", keys' = {}, ~LeftOver'
               PROVE  /\ pipe' = "Recording" => \E u \in DOMAIN tasks' : Pending(u)'
                      /\ \A s \in DOMAIN tasks' : tasks'[s].kind = "start" /\ tasks'[s].pc # "over" =>
                           \E u \in DOMAIN tasks' : s < u /\ Pending(u)'
    BY DEF StopsAreBehind, Pending
  <2>1. /\ pipe = "Recording" => \E u \in DOMAIN tasks : Pending(u)
        /\ \A s \in DOMAIN tasks : tasks[s].kind = "start" /\ tasks[s].pc # "over" =>
             \E u \in DOMAIN tasks : s < u /\ Pending(u)
    BY <1>2 DEF HoldInv, StopsAreBehind
  <2>2. \A s \in DOMAIN tasks : tasks'[s].kind = "start" /\ tasks'[s].pc # "over" =>
             tasks[s].kind = "start" /\ tasks[s].pc # "over"
    OBVIOUS
  <2>3. QED
    BY <2>1, <2>2, <1>3
<1>5. QED
  BY <1>1, <1>4 DEF HoldInv

\* A task is spawned, or none; if it is none, or not a stop, either some key is
\* held afterwards, or no start came with it, and no key went up.
LEMMA HoldInvSpawn ==
  ASSUME HoldInv, NEW kind \in TaskKinds, Spawn(kind),
         UNCHANGED <<mode, pipe>>, reasons \subseteq reasons',
         mode = "hold" => \/ keys' # {}
                          \/ kind = "stop"
                          \/ keys' = keys /\ kind # "start"
  PROVE  HoldInv'
<1>0. Len(tasks) \in Nat /\ DOMAIN tasks = 1..Len(tasks)
  BY DEF HoldInv, TasksTyped
<1>n. PICK n \in Nat : n = Len(tasks) + 1
  BY <1>0
<1>1. /\ TasksTyped' /\ DOMAIN tasks' = DOMAIN tasks \cup {n}
      /\ \A t \in DOMAIN tasks : tasks'[t] = tasks[t] /\ t < n
      /\ tasks'[n].kind = kind /\ tasks'[n].pc = "spawned"
  BY <1>n, SpawnedTasks DEF HoldInv, TasksTyped
<1>2. StartsStart'
  BY <1>1 DEF HoldInv, StartsStart
<1>3. LeftOver => LeftOver'
  BY DEF LeftOver
<1>4. StopsAreBehind'
  <2> SUFFICES ASSUME mode' = "hold", keys' = {}, ~LeftOver'
               PROVE  /\ pipe' = "Recording" => \E u \in DOMAIN tasks' : Pending(u)'
                      /\ \A s \in DOMAIN tasks' : tasks'[s].kind = "start" /\ tasks'[s].pc # "over" =>
                           \E u \in DOMAIN tasks' : s < u /\ Pending(u)'
    BY DEF StopsAreBehind, Pending
  <2>1. CASE kind = "stop"
    <3>1. Pending(n)' /\ n \in DOMAIN tasks'
      BY <2>1, <1>1 DEF Pending
    <3>2. \A s \in DOMAIN tasks' : tasks'[s].kind = "start" => s < n
      BY <2>1, <1>1
    <3>3. QED
      BY <3>1, <3>2
  <2>2. CASE keys = {} /\ kind # "start"
    <3>1. /\ pipe = "Recording" => \E u \in DOMAIN tasks : Pending(u)
          /\ \A s \in DOMAIN tasks : tasks[s].kind = "start" /\ tasks[s].pc # "over" =>
               \E u \in DOMAIN tasks : s < u /\ Pending(u)
      BY <2>2, <1>3 DEF HoldInv, StopsAreBehind
    <3>2. \A u \in DOMAIN tasks : Pending(u) => Pending(u)'
      BY <1>1 DEF Pending
    <3>3. QED
      BY <2>2, <3>1, <3>2, <1>1
  <2>3. QED
    BY <2>1, <2>2
<1>5. QED
  BY <1>1, <1>2, <1>4 DEF HoldInv

LEMMA HoldInvStep == HoldInv /\ [ShortNext]_shortVars => HoldInv'
<1> SUFFICES ASSUME HoldInv, [ShortNext]_shortVars PROVE HoldInv'
  OBVIOUS
<1>t. TasksTyped
  BY DEF HoldInv
<1>1. ASSUME NEW r \in RecordingRoles, Press(r) PROVE HoldInv'
  <2>1. keys' # {} /\ UNCHANGED <<mode, pipe>>
    BY <1>1 DEF Press
  <2>2. reasons \subseteq reasons'
    BY <1>1 DEF Press, AskPressed
  <2>3. Spawn("start") \/ Spawn("stop") \/ UNCHANGED tasks
    BY <1>1 DEF Press, RecordingPressed
  <2>4. CASE UNCHANGED tasks
    <3>1. TasksTyped' /\ StartsStart'
      BY <2>4 DEF HoldInv, TasksTyped, StartsStart
    <3>2. QED
      BY <2>1, <3>1 DEF HoldInv, StopsAreBehind
  <2>5. QED
    BY <2>1, <2>2, <2>3, <2>4, HoldInvSpawn
<1>2. ASSUME NEW r \in RecordingRoles, Release(r) PROVE HoldInv'
  <2>1. UNCHANGED <<mode, pipe>> /\ reasons \subseteq reasons'
    BY <1>2 DEF Release
  <2>2. CASE Spawn("stop")
    BY <2>1, <2>2, HoldInvSpawn
  <2>3. CASE UNCHANGED tasks /\ (mode # "hold" \/ LeftOver')
    <3>1. TasksTyped' /\ StartsStart'
      BY <2>3 DEF HoldInv, TasksTyped, StartsStart
    <3>2. QED
      BY <2>1, <2>3, <3>1 DEF HoldInv, StopsAreBehind
  <2>4. CASE IsAsks(r)
    <3>1. UNCHANGED tasks /\ "askTookRelease" \in reasons'
      BY <1>2, <2>4 DEF Release
    <3>2. LeftOver'
      BY <3>1 DEF LeftOver
    <3>3. QED
      BY <2>3, <3>1, <3>2
  <2>5. CASE ~IsAsks(r)
    <3>1. RecordingReleased
      BY <1>2, <2>5 DEF Release
    <3>2. QED
      BY <2>2, <2>3, <3>1 DEF RecordingReleased
  <2>6. QED
    BY <2>4, <2>5
<1>3. CASE PressAsk
  BY <1>3, HoldInvKeeps DEF PressAsk, AskPressed
<1>4. ASSUME NEW kind \in {"flip", "tray"}, SpawnOther(kind) PROVE HoldInv'
  BY <1>4, HoldInvSpawn DEF SpawnOther
<1>5. ASSUME NEW t \in DOMAIN tasks, TaskChecks(t) PROVE HoldInv'
  <2>1. tasks[t] \in Task /\ tasks[t].pc = "spawned"
    BY <1>5, <1>t, TaskOf DEF TaskChecks
  <2>2. UNCHANGED <<mode, keys, pipe>>
        /\ \/ Goto(t, "over") /\ tasks[t].kind # "stop" /\ reasons \subseteq reasons'
           \/ Goto(t, "over") /\ reasons' = reasons \cup {"askTookRelease"}
           \/ Checked(t, "start") /\ reasons' = reasons \cup {"unasked"}
           \/ Checked(t, "stop") /\ UNCHANGED reasons
           \/ Checked(t, tasks[t].kind) /\ reasons' = reasons
    BY <1>5, <2>1 DEF TaskChecks
  <2>3. reasons \subseteq reasons'
    BY <2>2
  <2>4. CASE Goto(t, "over") /\ tasks[t].kind # "stop"
    <3>1. TasksTyped'
      BY <2>4, <1>t, GoneTasks DEF TasksTyped
    <3>2. QED
      BY <2>2, <2>3, <2>4, <1>t, <3>1, GoneTasks, HoldInvTask DEF Pending
  <2>5. CASE Goto(t, "over") /\ reasons' = reasons \cup {"askTookRelease"}
    <3>1. TasksTyped'
      BY <2>5, <1>t, GoneTasks DEF TasksTyped
    <3>2. StartsStart'
      BY <2>5, <1>t, GoneTasks DEF HoldInv, StartsStart
    <3>3. LeftOver'
      BY <2>5 DEF LeftOver
    <3>4. QED
      BY <3>1, <3>2, <3>3 DEF HoldInv, StopsAreBehind
  <2>6. ASSUME NEW kind \in TaskKinds, Checked(t, kind),
               kind = tasks[t].kind \/ kind = "stop" \/ "unasked" \in reasons',
               tasks[t].kind = "stop" => kind = "stop" \/ "unasked" \in reasons'
        PROVE  HoldInv'
    <3>1. TasksTyped'
      BY <2>6, <1>t, CheckedTasks DEF TasksTyped
    <3>2. CASE "unasked" \in reasons'
      <4>1. StartsStart'
        BY <2>6, <1>t, CheckedTasks DEF HoldInv, StartsStart
      <4>2. LeftOver'
        BY <3>2 DEF LeftOver
      <4>3. QED
        BY <3>1, <4>1, <4>2 DEF HoldInv, StopsAreBehind
    <3>3. CASE "unasked" \notin reasons'
      <4>1. /\ DOMAIN tasks' = DOMAIN tasks
            /\ tasks'[t].pc = "checked" /\ tasks'[t].kind = kind
            /\ \A s \in DOMAIN tasks : s # t => tasks'[s] = tasks[s]
        BY <2>6, <1>t, CheckedTasks
      <4>2. Pending(t) => Pending(t)'
        BY <2>6, <3>3, <4>1 DEF Pending
      <4>3. QED
        BY <2>1, <2>2, <2>3, <2>6, <3>1, <3>3, <4>1, <4>2, HoldInvTask
    <3>4. QED
      BY <3>2, <3>3
  <2>7. QED
    BY <2>1, <2>2, <2>4, <2>5, <2>6
<1>6. ASSUME NEW t \in DOMAIN tasks, TaskStarts(t) PROVE HoldInv'
  <2>1. /\ tasks[t].kind = "start" /\ tasks[t].pc = "checked" /\ UNCHANGED <<mode, keys>>
        /\ reasons \subseteq reasons'
        /\ (pipe' = "Recording" => pipe = "Recording")
        /\ \E pc \in {"starting", "over"} : Goto(t, pc)
    BY <1>6 DEF TaskStarts
  <2>2. PICK pc \in {"starting", "over"} : Goto(t, pc)
    BY <2>1
  <2>3. TasksTyped'
    BY <2>2, <1>t, GoneTasks DEF TasksTyped
  <2>4. /\ DOMAIN tasks' = DOMAIN tasks
        /\ tasks'[t].kind = "start"
        /\ \A s \in DOMAIN tasks : s # t => tasks'[s] = tasks[s]
    BY <2>1, <2>2, <1>t, GoneTasks
  <2>5. QED
    BY <2>1, <2>3, <2>4, HoldInvTask DEF Pending
<1>7. ASSUME NEW t \in DOMAIN tasks, TaskRecords(t) PROVE HoldInv'
  <2>1. tasks[t].pc = "starting" /\ Goto(t, "over") /\ UNCHANGED <<mode, keys, reasons>>
    BY <1>7 DEF TaskRecords
  <2>2. tasks[t].kind = "start"
    BY <2>1 DEF HoldInv, StartsStart
  <2>3. TasksTyped'
    BY <2>1, <1>t, GoneTasks DEF TasksTyped
  <2>4. /\ DOMAIN tasks' = DOMAIN tasks
        /\ tasks'[t].kind = "start" /\ tasks'[t].pc = "over"
        /\ \A s \in DOMAIN tasks : s # t => tasks'[s] = tasks[s]
    BY <2>1, <2>2, <1>t, GoneTasks
  <2>5. QED
    BY <2>1, <2>2, <2>3, <2>4, HoldInvTask DEF Pending
<1>8. ASSUME NEW t \in DOMAIN tasks, TaskStops(t) PROVE HoldInv'
  <2>1. /\ tasks[t].kind = "stop" /\ Goto(t, "over") /\ UNCHANGED <<mode, keys>>
        /\ pipe' # "Recording"
        /\ reasons' = reasons \cup IF Overtakes(t) THEN {"overtaken"} ELSE {}
    BY <1>8 DEF TaskStops
  <2>2. TasksTyped'
    BY <2>1, <1>t, GoneTasks DEF TasksTyped
  <2>3. /\ DOMAIN tasks' = DOMAIN tasks
        /\ tasks'[t].kind = "stop" /\ tasks'[t].pc = "over"
        /\ \A s \in DOMAIN tasks : s # t => tasks'[s] = tasks[s]
    BY <2>1, <1>t, GoneTasks
  <2>4. StartsStart'
    BY <2>3 DEF HoldInv, StartsStart
  <2>5. CASE Overtakes(t)
    <3>1. LeftOver'
      BY <2>1, <2>5 DEF LeftOver
    <3>2. QED
      BY <2>2, <2>4, <3>1 DEF HoldInv, StopsAreBehind
  <2>6. CASE ~Overtakes(t)
    <3>1. LeftOver => LeftOver'
      BY <2>1 DEF LeftOver
    <3>2. t \in Nat /\ DOMAIN tasks \subseteq Nat /\ \A s \in DOMAIN tasks : s >= 1
      BY <1>t DEF TasksTyped
    <3>3. \A s \in DOMAIN tasks : tasks[s].kind = "start" /\ tasks[s].pc # "over" => s > t
      <4>1. \A s \in 1..t-1 : ~(tasks[s].kind = "start" /\ tasks[s].pc # "over")
        BY <2>6 DEF Overtakes
      <4>2. \A s \in DOMAIN tasks : s \in 1..t-1 \/ s = t \/ s > t
        BY <3>2
      <4>3. QED
        BY <4>1, <4>2, <2>1
    <3>4. ASSUME mode' = "hold", keys' = {}, ~LeftOver',
                 NEW s \in DOMAIN tasks', tasks'[s].kind = "start", tasks'[s].pc # "over"
          PROVE  \E u \in DOMAIN tasks' : s < u /\ Pending(u)'
      <4>1. s # t /\ tasks[s].kind = "start" /\ tasks[s].pc # "over" /\ s \in DOMAIN tasks
        BY <3>4, <2>3
      <4>2. PICK u \in DOMAIN tasks : s < u /\ Pending(u)
        BY <4>1, <3>1, <3>4, <2>1 DEF HoldInv, StopsAreBehind
      <4>3. u # t
        BY <4>1, <4>2, <3>2, <3>3
      <4>4. Pending(u)'
        BY <4>2, <4>3, <2>3 DEF Pending
      <4>5. QED
        BY <4>2, <4>4, <2>3
    <3>5. StopsAreBehind'
      BY <2>1, <3>4 DEF StopsAreBehind, Pending
    <3>6. QED
      BY <2>2, <2>4, <3>5 DEF HoldInv
  <2>7. QED
    BY <2>5, <2>6
<1>9. CASE PipelineEnds
  BY <1>9, HoldInvKeeps DEF PipelineEnds
<1>10. CASE AskRecords
  BY <1>10, HoldInvKeeps DEF AskRecords
<1>11. CASE AskDrafts
  BY <1>11, HoldInvKeeps DEF AskDrafts
<1>12. CASE AskPolishes
  BY <1>12, HoldInvKeeps DEF AskPolishes
<1>13. CASE AskEnds
  BY <1>13, HoldInvKeeps DEF AskEnds
<1>14. CASE UNCHANGED shortVars
  BY <1>14, HoldInvKeeps
<1>15. QED
  BY <1>1, <1>2, <1>3, <1>4, <1>5, <1>6, <1>7, <1>8, <1>9, <1>10, <1>11, <1>12, <1>13, <1>14
     DEF ShortNext

\* In hold mode, however many keys are pressed and however quickly they are let
\* go, nothing records once the keys are up and the tasks have run, but for the
\* three ways that the code leaves out.
THEOREM KeysEndRecordings == ShortSpec => []KeysUpNothingRecords
<1>1. HoldInv => KeysUpNothingRecords
  <2> SUFFICES ASSUME HoldInv, mode = "hold", keys = {}, AllRun, pipe = "Recording"
               PROVE  LeftOver
    BY DEF KeysUpNothingRecords, LeftOver
  <2>1. \A t \in DOMAIN tasks : ~Pending(t)
    BY DEF AllRun, Pending
  <2>2. QED
    BY <2>1 DEF HoldInv, StopsAreBehind
<1>2. QED
  BY <1>1, HoldInvInit, HoldInvStep, PTL DEF ShortSpec

-----------------------------------------------------------------------------
(* The types of the registration, of the shortcuts and of the monitor      *)

\* A command that has begun and has not recorded its result; the generations
\* that it may still take.
Unrecorded == IF cmd.pc \in {"loaded", "woken", "saving", "unsaved", "refused", "resuming"} THEN 1 ELSE 0
StillTakes == IF cmd.pc = "loaded" THEN 2 ELSE IF cmd.pc \in {"woken", "saving", "unsaved"} THEN 1 ELSE 0

\* The retry loop is in an attempt that will be recorded.
RetryAttempts == RetryStands /\ retry.pc \in {"load", "register", "record"}

\* A command takes two generations at most and records one failure; the retry
\* loop begins an attempt only while there have been few.
RegBounded ==
  /\ commands \in 0 .. MaxCommands /\ Unrecorded <= commands
  /\ 1 <= generation /\ generation + StillTakes <= 1 + 2 * commands
  /\ attempts + Unrecorded <= FastRetryLimit + 1 + commands
  /\ RetryAttempts => attempts + Unrecorded <= FastRetryLimit + commands
  /\ cmd.pc = "startup" => attempts = 0

RegOutside == errorShown \in BOOLEAN /\ roleCache.ok \in BOOLEAN

LEMMA PlanIsTyped ==
  ASSUME NEW c \in Configs
  PROVE  Plan(c).ok \in BOOLEAN
<1>1. IsConfig(c)
  BY ConfigAssumption DEF IsConfig
<1>2. PICK run \in [0 .. Len(Wanted(c)) -> PlanSet(c)] : Plan(c) = run[Len(Wanted(c))]
  BY <1>1, PlanRuns
<1>3. Len(Wanted(c)) \in 0 .. Len(Wanted(c))
  BY <1>1, WantedAre
<1>4. Plan(c) \in PlanSet(c)
  BY <1>2, <1>3
<1>5. QED
  BY <1>4 DEF PlanSet

\* What a registration leaves in the role cache is a plan.
LEMMA RegistersTyped ==
  ASSUME NEW c \in Configs, NEW ok \in BOOLEAN, Registers(c, ok), roleCache.ok \in BOOLEAN
  PROVE  roleCache'.ok \in BOOLEAN
BY PlanIsTyped DEF Registers

LEMMA RecordsBounded ==
  ASSUME RegInv, NEW g \in Nat, NEW ok \in BOOLEAN, Records(g, ok)
  PROVE  /\ generation' = generation
         /\ attempts' <= attempts + 1 /\ attempts' \in Nat
         /\ g # generation => attempts' = attempts
BY DEF RegInv, RegTyped, Records

LEMMA RegTypedInitially == RegInit => RegBounded /\ RegOutside
<1> SUFFICES ASSUME RegInit PROVE RegBounded /\ RegOutside
  OBVIOUS
<1>1. Plan(FirstConfig).ok \in BOOLEAN
  BY PlanIsTyped
<1>2. RegOutside
  BY <1>1 DEF RegInit, RegOutside
<1>3. RegBounded
  BY DEF RegInit, RegBounded, NoCmd, Asleep, Unrecorded, StillTakes, RetryAttempts, RetryStands
<1>4. QED
  BY <1>2, <1>3

LEMMA RegOutsideStep ==
  ASSUME RegInv, RegOutside, RegNext
  PROVE  RegOutside'
<1> USE DEF RegInv, RegTyped, RegOutside
<1>1. CASE RetryStep
  <2>1. ASSUME NEW ok \in BOOLEAN, RetryRegisters(ok) PROVE RegOutside'
    BY <2>1, RegistersTyped DEF RetryRegisters
  <2>2. QED
    BY <1>1, <2>1 DEF RetryStep, RetryBegins, RetryLoads, RetryLoadFails, RetryRecords, RetryShows
<1>2. CASE CommandStep
  <2>1. ASSUME NEW ok \in BOOLEAN, Startup(ok) PROVE RegOutside'
    BY <2>1, RegistersTyped DEF Startup
  <2>2. ASSUME NEW ok \in BOOLEAN, UpdateRegisters(ok) PROVE RegOutside'
    BY <2>2, RegistersTyped DEF UpdateRegisters
  <2>3. ASSUME NEW ok \in BOOLEAN, UpdateRollsBack(ok) PROVE RegOutside'
    BY <2>3, RegistersTyped DEF UpdateRollsBack
  <2>4. ASSUME NEW ok \in BOOLEAN, ResumeRegisters(ok) PROVE RegOutside'
    BY <2>4, RegistersTyped DEF ResumeRegisters
  <2>5. QED
    BY <1>2, <2>1, <2>2, <2>3, <2>4 DEF CommandStep, UpdateWakes, UpdateSaves, UpdateSaveFails,
      UpdateUndoes
<1>3. CASE UserStep
  BY <1>3 DEF UserStep, UpdateCall, Calls, Pause, ResumeCall, EditSaves
<1>4. QED
  BY <1>1, <1>2, <1>3 DEF RegNext

LEMMA OneMore ==
  ASSUME NEW a \in Nat, NEW b \in Nat, NEW u \in Nat, NEW c \in Nat,
         b <= a + 1, a + u <= FastRetryLimit + c
  PROVE  b + u <= FastRetryLimit + 1 + c
OBVIOUS

LEMMA RegBoundedStep ==
  ASSUME RegInv, RegBounded, RegNext
  PROVE  RegBounded'
<1> USE DEF RegInv, RegTyped, RetryKnown, RegBounded, RetryAttempts, RetryStands, CmdPc, RetryPc
<1>1. CASE RetryBegins
  BY <1>1 DEF RetryBegins, RetryMayBegin, Unrecorded, StillTakes
<1>2. CASE RetryLoads
  BY <1>2 DEF RetryLoads, Unrecorded, StillTakes
<1>3. CASE RetryLoadFails
  <2>1. retry.pc = "load" /\ Records(retry.gen, FALSE) /\ retry'.pc = "sleep" /\ UNCHANGED <<cmd, commands>>
    BY <1>3 DEF RetryLoadFails, Asleep
  <2>2. /\ generation' = generation /\ attempts' <= attempts + 1 /\ attempts' \in Nat
        /\ retry.gen # generation => attempts' = attempts
    BY <2>1, RecordsBounded
  <2>3. cmd.pc = "startup" => attempts' = 0
    BY <2>1, <2>2
  <2>4. Unrecorded' = Unrecorded /\ StillTakes' = StillTakes /\ Unrecorded \in Nat
    BY <2>1 DEF Unrecorded, StillTakes
  <2>5. retry.gen = generation => attempts + Unrecorded <= FastRetryLimit + commands
    BY <2>1
  <2>6. attempts' + Unrecorded <= FastRetryLimit + 1 + commands
    <3>1. attempts \in Nat /\ commands \in Nat /\ attempts + Unrecorded <= FastRetryLimit + 1 + commands
      OBVIOUS
    <3>2. retry.gen = generation => attempts' + Unrecorded <= FastRetryLimit + 1 + commands
      BY <2>2, <2>4, <2>5, <3>1, OneMore
    <3>3. QED
      BY <2>2, <3>1, <3>2
  <2>7. QED
    BY <2>1, <2>2, <2>3, <2>4, <2>6
<1>4. ASSUME NEW ok \in BOOLEAN, RetryRegisters(ok) PROVE RegBounded'
  BY <1>4 DEF RetryRegisters, IsCurrent, Asleep, Unrecorded, StillTakes
<1>5. CASE RetryRecords
  BY <1>5, RecordsBounded DEF RetryRecords, Asleep, Unrecorded, StillTakes
<1>6. CASE RetryShows
  BY <1>6 DEF RetryShows, Asleep, Unrecorded, StillTakes
<1>7. CASE UpdateWakes
  BY <1>7 DEF UpdateWakes, Wakes, Unrecorded, StillTakes
<1>8. CASE UpdateSaves
  BY <1>8 DEF UpdateSaves, NoCmd, Unrecorded, StillTakes
<1>9. CASE UpdateSaveFails
  BY <1>9 DEF UpdateSaveFails, Unrecorded, StillTakes
<1>10. ASSUME NEW ok \in BOOLEAN, Startup(ok) PROVE RegBounded'
  BY <1>10, RecordsBounded DEF Startup, NoCmd, Unrecorded, StillTakes
<1>11. ASSUME NEW ok \in BOOLEAN, UpdateRegisters(ok) PROVE RegBounded'
  BY <1>11 DEF UpdateRegisters, Records, Unrecorded, StillTakes
<1>12. ASSUME NEW ok \in BOOLEAN, UpdateRollsBack(ok) PROVE RegBounded'
  BY <1>12, RecordsBounded DEF UpdateRollsBack, NoCmd, Unrecorded, StillTakes
<1>13. ASSUME NEW ok \in BOOLEAN, ResumeRegisters(ok) PROVE RegBounded'
  BY <1>13, RecordsBounded DEF ResumeRegisters, NoCmd, Unrecorded, StillTakes
<1>14. ASSUME NEW c \in Configs, UpdateCall(c) PROVE RegBounded'
  BY <1>14 DEF UpdateCall, Calls, Unrecorded, StillTakes
<1>15. ASSUME NEW ok \in BOOLEAN, Pause(ok) PROVE RegBounded'
  BY <1>15 DEF Pause, Unrecorded, StillTakes
<1>16. CASE ResumeCall
  BY <1>16 DEF ResumeCall, Calls, NoCmd, Unrecorded, StillTakes
<1>17. CASE UpdateUndoes
  BY <1>17 DEF UpdateUndoes, Wakes, Unrecorded, StillTakes
<1>18. CASE EditSaves
  BY <1>18 DEF EditSaves, Unrecorded, StillTakes
<1>19. QED
  BY <1>1, <1>2, <1>3, <1>4, <1>5, <1>6, <1>7, <1>8, <1>9, <1>10, <1>11, <1>12, <1>13, <1>14,
     <1>15, <1>16, <1>17, <1>18 DEF RegNext, RetryStep, CommandStep, UserStep

\* Together, and that they hold in the steps of the registration.
RegTypes == RegInv /\ RegBounded /\ RegOutside

LEMMA RegTypesInitially == RegInit => RegTypes
  BY RegInitially, RegTypedInitially DEF RegTypes

LEMMA RegTypesStep == RegTypes /\ [RegNext]_regVars => RegTypes'
<1>1. ASSUME RegTypes, UNCHANGED regVars PROVE RegTypes'
  BY <1>1 DEF RegTypes, RegInv, RegTyped, RetryKnown, CommandKnown, InstalledKnown, RetryStands, Holds,
              RegBounded, RegOutside, RetryAttempts, Unrecorded, StillTakes
<1>2. QED
  BY <1>1, RegStep, RegBoundedStep, RegOutsideStep DEF RegTypes

LEMMA RegTypesImply == RegTypes => RegTypeOK
  BY DEF RegTypes, RegInv, RegTyped, RegBounded, RegOutside, RegTypeOK, CmdPc, RetryPc, Unrecorded, StillTakes
-----------------------------------------------------------------------------
\* The variables of the shortcuts besides the list of tasks.
ShortTyped ==
  /\ mode \in {"hold", "toggle"} /\ keys \subseteq RecordingRoles
  /\ pipe \in Active \cup {"Idle", "Transcribing", "Polishing"}
  /\ ask \in {"free", "starting", "recording", "processing"}
  /\ stopAfterStart \in BOOLEAN /\ draft \in {"none", "checked", "polishing"}

LEMMA ShortTypedStep == ShortTyped /\ [ShortNext]_shortVars => ShortTyped'
<1> SUFFICES ASSUME ShortTyped, [ShortNext]_shortVars PROVE ShortTyped'
  OBVIOUS
<1> USE DEF ShortTyped
<1>1. AskPressed => ask' \in {"free", "starting", "recording", "processing"} /\ stopAfterStart' \in BOOLEAN
  BY DEF AskPressed
<1>2. ASSUME NEW r \in RecordingRoles, Press(r) PROVE ShortTyped'
  BY <1>1, <1>2 DEF Press
<1>3. ASSUME NEW r \in RecordingRoles, Release(r) PROVE ShortTyped'
  BY <1>3 DEF Release
<1>4. CASE PressAsk \/ SpawnOther("flip") \/ SpawnOther("tray")
  BY <1>1, <1>4 DEF PressAsk, SpawnOther
<1>5. ASSUME NEW t \in DOMAIN tasks, TaskChecks(t) \/ TaskStarts(t) \/ TaskRecords(t) \/ TaskStops(t)
      PROVE  ShortTyped'
  BY <1>5 DEF TaskChecks, TaskStarts, TaskRecords, TaskStops
<1>6. CASE PipelineEnds \/ AskRecords \/ AskDrafts \/ AskPolishes \/ AskEnds
  BY <1>6 DEF PipelineEnds, AskRecords, AskDrafts, AskPolishes, AskEnds
<1>7. CASE UNCHANGED shortVars
  BY <1>7
<1>8. QED
  BY <1>2, <1>3, <1>4, <1>5, <1>6, <1>7 DEF ShortNext

ShortTypes == MicInv /\ ShortTyped

LEMMA ShortTypesInitially == ShortInit => ShortTypes
<1>1. ShortInit => ShortTyped
  BY DEF ShortInit, ShortTyped
<1>2. QED
  BY <1>1, MicInvInit DEF ShortTypes

LEMMA ShortTypesStep == ShortTypes /\ [ShortNext]_shortVars => ShortTypes'
  BY MicInvStep, ShortTypedStep DEF ShortTypes

LEMMA ShortTypesImply == ShortTypes => ShortTypeOK
<1> SUFFICES ASSUME ShortTypes PROVE ShortTypeOK
  OBVIOUS
<1>1. ASSUME NEW t \in DOMAIN tasks
      PROVE  /\ tasks[t].kind \in TaskKinds
             /\ tasks[t].pc \in {"spawned", "checked", "starting", "over"}
             /\ tasks[t].free \in BOOLEAN
  <2>1. tasks[t] \in Task
    BY TaskOf DEF ShortTypes, MicInv
  <2>2. QED
    BY <2>1
<1>2. QED
  BY <1>1 DEF ShortTypes, ShortTyped, ShortTypeOK
-----------------------------------------------------------------------------
LEMMA MonTypesStep == MonTypeOK /\ [MonNext]_monVars => MonTypeOK'
<1> SUFFICES ASSUME MonTypeOK, [MonNext]_monVars PROVE MonTypeOK'
  OBVIOUS
<1> USE DEF MonTypeOK, OwnerPc, ThreadPc, ownerSide, ThreadGoes
<1>1. CASE OwnerStarts \/ OwnerDrops
  BY <1>1 DEF OwnerStarts, OwnerDrops
<1>2. CASE OwnerStep
  BY <1>2 DEF OwnerStep, OwnerHears, Cancels, Tells, Stops, Joins
<1>3. CASE ThreadIsReachable \/ ThreadLooks
  BY <1>3 DEF ThreadIsReachable, ThreadLooks, Looks
<1>4. CASE ThreadInstalls \/ ThreadEnables \/ ThreadSends
  BY <1>4 DEF ThreadInstalls, ThreadEnables, ThreadSends
<1>5. CASE MacShutsItself \/ MacLooks \/ MacRuns
  BY <1>5 DEF MacShutsItself, MacLooks, MacRuns
<1>6. CASE ThreadQuits \/ ThreadCleansUp
  BY <1>6 DEF ThreadQuits, ThreadCleansUp
<1>7. CASE SystemDisables \/ CallbackEnables
  BY <1>7 DEF SystemDisables, CallbackEnables
<1>8. CASE UNCHANGED monVars
  BY <1>8 DEF monVars
<1>9. QED
  BY <1>1, <1>2, <1>3, <1>4, <1>5, <1>6, <1>7, <1>8 DEF MonNext, ThreadStep

LEMMA MonTypesInitially == MonInit => MonTypeOK
  BY DEF MonInit, MonTypeOK, OwnerPc, ThreadPc
-----------------------------------------------------------------------------
\* The registration counts no further than its commands and its retries let it,
\* and what the retry loop takes up is an attempt of a generation that was.
THEOREM RegistrationTypes == RegSpec => []RegTypeOK
  BY RegTypesInitially, RegTypesStep, RegTypesImply, PTL DEF RegSpec

\* A part of the input runs as it does alone: each of its steps is one that the
\* part may take, and the steps of the others leave it as it is.
LEMMA EachInputStep ==
  [InputNext]_inputVars => /\ [RegNext]_regVars /\ [KeysNext]_keyVars /\ [MonNext]_monVars
                           /\ [ShortNext]_shortVars /\ [RecognitionNext]_recognitionVars
<1>1. SUFFICES ASSUME [InputNext]_inputVars
               PROVE  /\ [RegNext]_regVars /\ [KeysNext]_keyVars /\ [MonNext]_monVars
                      /\ [ShortNext]_shortVars /\ [RecognitionNext]_recognitionVars
  OBVIOUS
<1>2. CASE UNCHANGED inputVars
  BY <1>2, Zenon DEF inputVars, partVars
<1>3. CASE InputNext
  BY <1>3, Zenon DEF InputNext, Registration, Monitor, Service
<1>4. QED
  BY <1>1, <1>2, <1>3

\* The types of the parts of the input, in each of their behaviours: of the
\* registration, the keys, the monitor, the shortcuts and the recognition service.
THEOREM InputTypes == InputSpec => []InputTypeOK
<1> DEFINE Together == RegTypes /\ KeysInv /\ MonTypeOK /\ ShortTypes /\ RecInv
<1>1. InputInit => Together
  BY RegTypesInitially, KeysInitially, MonTypesInitially, ShortTypesInitially, RecInitially DEF InputInit
<1>3. Together /\ [InputNext]_inputVars => Together'
  BY EachInputStep, RegTypesStep, KeysInvStep, MonTypesStep, ShortTypesStep, RecKeeps, Zenon DEF RecSteps
<1>4. Together => InputTypeOK
  <2>1. KeysInv => KeysTypeOK
    BY DEF KeysInv, KeysTyped, KeysTypeOK
  <2>2. QED
    BY <2>1, RegTypesImply, ShortTypesImply, RecTypes, Zenon DEF InputTypeOK
<1>5. QED
  BY <1>1, <1>3, <1>4, PTL DEF InputSpec

\* What holds of each part of the input alone holds of all of them side by side:
\* what is shown installed is what is saved, and nothing is registered while
\* paused; a hold of the keys is told in full; dictation and Ask do not listen
\* together, nor does anything once the keys are up; and the sessions of the
\* recognition service are those of the client it serves.
THEOREM InputStaysRight ==
  InputSpec => /\ [](/\ InstalledIsSaved /\ HoldsAreKept /\ KeysUpNothingRecords
                     /\ OneVoiceOperation /\ SessionsDoNotMix)
               /\ PausedRegistersNothing
<1>1. InputInit => RegInit /\ KeysInit /\ ShortInit /\ RecInv
  BY RecInitially DEF InputInit
<1>2. InputSpec => RegInit /\ [][RegNext]_regVars /\ KeysSpec /\ ShortSpec
  BY <1>1, EachInputStep, PTL DEF InputSpec, KeysSpec, ShortSpec
<1>3. RecInv /\ [InputNext]_inputVars => RecInv'
  BY EachInputStep, RecKeeps DEF RecSteps
<1>4. InputSpec => []SessionsDoNotMix
  BY <1>1, <1>3, RecImplies, PTL DEF InputSpec
<1>5. RegInv => InstalledIsSaved
  BY ShownIsInForce DEF RegInv
<1>6. QED
  BY <1>2, <1>4, <1>5, RegAlways, RegPaused, HoldsEnd, KeysEndRecordings, OneVoice, PTL
=============================================================================
