------------------------- MODULE HotkeyRegistration -------------------------
(***************************************************************************)
(* The registration of the global shortcuts: the plan built from the       *)
(* configuration (hotkey.rs), the settings commands that install it with   *)
(* a rollback (commands/misc.rs, commands/config.rs), the supervisor that  *)
(* numbers the attempts (hotkey.rs) and the loop that retries a failed one *)
(* every three seconds (lib.rs).                                           *)
(*                                                                         *)
(* The settings window runs one command at a time; the retry loop is a     *)
(* task of its own and interleaves with every step of a command.           *)
(***************************************************************************)
EXTENDS Naturals, Sequences, SequencesExt

CONSTANTS
  Configs,        \* the configurations the user may save
  FirstConfig,    \* the one on disk when the program starts
  NativeOf,       \* function: the bindings that name a native trigger
  Supported,      \* the native triggers of the platform
  ModifierOf,     \* function: names of modifiers, with their aliases
  CodeOf,         \* function: names of keys, with their aliases
  FastRetryLimit, \* HOTKEY_SUPERVISOR_FAST_RETRY_LIMIT
  MaxCommands     \* bound: settings commands in a behaviour

ASSUME RegAssumption ==
  /\ FirstConfig \in Configs
  /\ FastRetryLimit \in Nat
  /\ MaxCommands \in Nat

Roles == {"dictation", "ask", "translate", "edit", "scene", "open"}

(* A configuration gives each role its bindings, and dictation always has  *)
(* one: HotkeyConfig::normalize.                                           *)
ASSUME ConfigAssumption ==
  \A c \in Configs : /\ \A r \in Roles : c[r] \in Seq(ToSet(c[r]))
                     /\ c["dictation"] # << >>

(* A configuration gives every role a sequence of bindings, and a binding  *)
(* names its modifiers and its key.                                        *)
Order == << "dictation", "ask", "translate", "edit", "scene", "open" >>

Wanted(c) ==
  FoldLeft(LAMBDA all, r :
             all \o [i \in DOMAIN c[r] |-> [role |-> r, binding |-> c[r][i]]],
           << >>, Order)

IsNative(b) == b \in DOMAIN NativeOf

(* parse_hotkey: unknown names are refused; a shortcut is the set of its   *)
(* modifiers and its key, whatever names they were written with.           *)
Parses(b) == b.mods \subseteq DOMAIN ModifierOf /\ b.key \in DOMAIN CodeOf

(* "fn" and "rightalt" are names of neither a key nor a modifier there.     *)
ASSUME NativeAssumption == \A b \in DOMAIN NativeOf : ~Parses(b)

Shortcut(b) == [mods |-> {ModifierOf[m] : m \in b.mods}, code |-> CodeOf[b.key]]

(* binding_is_valid_for_platform                                           *)
IsValid(b) == IF IsNative(b) THEN NativeOf[b] \in Supported ELSE Parses(b)

NoPlan == [ok |-> TRUE, global |-> << >>, native |-> << >>]

(* push_registered_hotkey: an unsupported native trigger, a trigger that   *)
(* is already planned and a binding that does not parse refuse the plan.   *)
Push(plan, w) ==
  LET native == IsNative(w.binding)
      key    == IF native THEN NativeOf[w.binding] ELSE Shortcut(w.binding)
      list   == IF native THEN plan.native ELSE plan.global
      entry  == [role |-> w.role, key |-> key]
  IN  IF ~plan.ok THEN plan
      ELSE IF ~IsValid(w.binding) \/ (\E i \in DOMAIN list : list[i].key = key) THEN
             [plan EXCEPT !.ok = FALSE]
      ELSE IF native THEN [plan EXCEPT !.native = Append(list, entry)]
      ELSE [plan EXCEPT !.global = Append(list, entry)]

Plan(c) == FoldLeft(Push, NoPlan, Wanted(c))

Keys(entries) == {entries[i].key : i \in DOMAIN entries}

----------------------------------------------------------------------------

VARIABLES
  saved,         \* the configuration on disk
  cached,        \* the one ConfigManager answers a load with
  os,            \* shortcuts the operating system holds for the program
  monitor,       \* native triggers the running monitor watches
  roleCache,     \* HotkeyRoleCache: which role a shortcut has
  generation, supervisor, attempts,      \* HotkeySupervisorInner
  errorShown,    \* HotkeyRegistrationError holds a message
  cmd,           \* the settings command that runs
  commands,      \* how many have begun
  retry,         \* the retry loop
  overlapped,    \* history: resume_hotkey registered during a retry
  strayed        \* history: a save failed, and none of the shortcuts came after

regVars == << saved, cached, strayed, os, monitor, roleCache, generation, supervisor, attempts,
              errorShown, cmd, commands, retry, overlapped >>

stored    == << saved, cached, strayed >>
installed == << os, monitor, roleCache >>
numbers   == << generation, supervisor, attempts >>

NoCmd   == [pc |-> "none", previous |-> FirstConfig, next |-> FirstConfig]
Asleep  == [pc |-> "sleep", gen |-> 0, config |-> FirstConfig, ok |-> FALSE]
SupervisorState == {"Starting", "Installed", "Failed", "Disabled"}

RegInit ==
  /\ saved = FirstConfig /\ cached = FirstConfig /\ strayed = FALSE
  /\ os = {} /\ monitor = {}
  /\ roleCache = Plan(FirstConfig)
  /\ generation = 1 /\ supervisor = "Starting" /\ attempts = 0
  /\ errorShown = FALSE
  /\ cmd = [NoCmd EXCEPT !.pc = "startup"]
  /\ commands = 0
  /\ retry = Asleep
  /\ overlapped = FALSE

(* register_configured_shortcuts_guarded: the plan is built, everything is *)
(* unregistered, the shortcuts are registered in turn, the native monitor  *)
(* is replaced, and only then is the role cache. An error leaves what was  *)
(* done so far.                                                            *)
Registers(c, ok) ==
  LET plan == Plan(c)
      keys == [i \in DOMAIN plan.global |-> plan.global[i].key]
  IN  \/ /\ ok /\ plan.ok
         /\ os' = Keys(plan.global) /\ monitor' = Keys(plan.native)
         /\ roleCache' = plan
      \/ /\ ~ok
         /\ UNCHANGED installed
      \/ /\ ~ok /\ plan.ok
         /\ \E n \in 0 .. Len(keys) - 1 : os' = {keys[i] : i \in 1 .. n}
         /\ UNCHANGED << monitor, roleCache >>
      \/ /\ ~ok /\ plan.ok /\ plan.native # << >>
         /\ os' = Keys(plan.global) /\ monitor' = {}
         /\ UNCHANGED roleCache

Records(g, ok) ==
  IF g # generation THEN UNCHANGED numbers
  ELSE /\ supervisor' = IF ok THEN "Installed" ELSE "Failed"
       /\ attempts' = IF ok THEN 0 ELSE attempts + 1
       /\ UNCHANGED generation

Wakes ==
  /\ generation' = generation + 1
  /\ supervisor' = "Starting"
  /\ attempts' = 0

(* setup(): the first attempt; nothing else runs yet.                      *)
Startup(ok) ==
  /\ cmd.pc = "startup"
  /\ Registers(cached, ok)
  /\ Records(generation, ok)
  /\ errorShown' = ~ok
  /\ cmd' = NoCmd
  /\ UNCHANGED << stored, commands, retry, overlapped >>

----------------------------------------------------------------------------
(* update_hotkey, update_ask_hotkey, update_config: load, wake the         *)
(* supervisor, register the new plan or go back to the old one, save, and  *)
(* when the save fails register the old plan under a new generation. A     *)
(* load answers with the cache.                                            *)
Calls(kind) ==
  /\ cmd.pc = "none"
  /\ commands < MaxCommands
  /\ commands' = commands + 1
  /\ UNCHANGED << stored, installed, numbers, errorShown, retry, overlapped >>
  /\ kind

UpdateCall(c) ==
  Calls(cmd' = [pc |-> "loaded", previous |-> cached, next |-> c])

UpdateWakes ==
  /\ cmd.pc = "loaded"
  /\ Wakes
  /\ cmd' = [cmd EXCEPT !.pc = "woken"]
  /\ UNCHANGED << stored, installed, errorShown, commands, retry, overlapped >>

UpdateRegisters(ok) ==
  /\ cmd.pc = "woken"
  /\ Registers(cmd.next, ok)
  /\ IF ok THEN Records(generation, TRUE) /\ errorShown' = FALSE
           ELSE UNCHANGED << numbers, errorShown >>
  /\ cmd' = [cmd EXCEPT !.pc = IF ok THEN "saving" ELSE "refused"]
  /\ UNCHANGED << stored, commands, retry, overlapped >>

UpdateRollsBack(ok) ==
  /\ cmd.pc = "refused"
  /\ Registers(cmd.previous, ok)
  /\ Records(generation, ok)
  /\ errorShown' = ~ok
  /\ cmd' = NoCmd
  /\ UNCHANGED << stored, commands, retry, overlapped >>

UpdateSaves ==
  /\ cmd.pc = "saving"
  /\ saved' = cmd.next /\ cached' = cmd.next /\ strayed' = FALSE
  /\ cmd' = NoCmd
  /\ UNCHANGED << installed, numbers, errorShown, commands, retry, overlapped >>

KeepsUnsaved ==                                                       \* mutant
  /\ cmd.pc = "saving"
  /\ cmd' = NoCmd
  /\ UNCHANGED << stored, installed, numbers, errorShown, commands, retry, overlapped >>

(* ConfigManager.save fills the cache before it writes the file: when the  *)
(* secrets do not get into the vault neither has changed, when the file is *)
(* not written the cache keeps what was refused.                           *)
UpdateSaveFails ==
  /\ cmd.pc = "saving"
  /\ \/ cached' = cmd.next /\ strayed' = TRUE
     \/ UNCHANGED << cached, strayed >>
  /\ cmd' = [cmd EXCEPT !.pc = "unsaved"]
  /\ UNCHANGED << saved, installed, numbers, errorShown, commands, retry, overlapped >>

UpdateUndoes ==
  /\ cmd.pc = "unsaved"
  /\ Wakes
  /\ cmd' = [cmd EXCEPT !.pc = "refused"]
  /\ UNCHANGED << stored, installed, errorShown, commands, retry, overlapped >>

(* A command that edits other settings: it finds the shortcuts of the cache *)
(* unchanged, registers nothing, and saves them with the rest. (One that   *)
(* fails, or finds the saved ones in the cache, changes nothing here.)     *)
EditSaves ==
  /\ cmd.pc = "none" /\ cached # saved
  /\ commands < MaxCommands
  /\ commands' = commands + 1
  /\ saved' = cached
  /\ UNCHANGED << cached, strayed, installed, numbers, errorShown, cmd, retry, overlapped >>

(* pause_hotkey: the generation moves on, then everything is unregistered; *)
(* unregister_all may fail.                                                *)
Pause(ok) ==
  /\ cmd.pc = "none"
  /\ commands < MaxCommands
  /\ commands' = commands + 1
  /\ generation' = generation + 1 /\ supervisor' = "Disabled" /\ attempts' = 0
  /\ os' = IF ok THEN {} ELSE os
  /\ monitor' = {}
  /\ UNCHANGED << stored, roleCache, errorShown, cmd, retry, overlapped >>

(* resume_hotkey: the configuration is loaded, then registered under the   *)
(* current generation.                                                     *)
ResumeCall == Calls(cmd' = [NoCmd EXCEPT !.pc = "resuming", !.next = cached])

ResumeRegisters(ok) ==
  /\ cmd.pc = "resuming"
  /\ overlapped' = (overlapped \/ retry.pc # "sleep")
  /\ Registers(cmd.next, ok)
  /\ Records(generation, ok)
  /\ errorShown' = ~ok
  /\ cmd' = NoCmd
  /\ UNCHANGED << stored, commands, retry >>

----------------------------------------------------------------------------
(* spawn_hotkey_supervisor: the loop sleeps, takes up a failed attempt     *)
(* under the current generation, loads the configuration, registers it     *)
(* while it holds the supervisor's lock, records the result, and shows it. *)
RetriesForever == supervisor = "Failed"                               \* mutant
RetryMayBegin == supervisor = "Failed" /\ attempts <= FastRetryLimit

RetryBegins ==
  /\ retry.pc = "sleep"
  /\ RetryMayBegin
  /\ supervisor' = "Starting"
  /\ retry' = [retry EXCEPT !.pc = "load", !.gen = generation]
  /\ UNCHANGED << stored, installed, generation, attempts, errorShown, cmd, commands, overlapped >>

RetryLoads ==
  /\ retry.pc = "load"
  /\ retry' = [retry EXCEPT !.pc = "register", !.config = cached]
  /\ UNCHANGED << stored, installed, numbers, errorShown, cmd, commands, overlapped >>

RetryGivesUp ==                                                       \* mutant
  /\ retry.pc = "load"
  /\ errorShown' = (errorShown \/ retry.gen = generation)
  /\ retry' = Asleep
  /\ UNCHANGED << stored, installed, numbers, cmd, commands, overlapped >>

RetryLoadFails ==
  /\ retry.pc = "load"
  /\ Records(retry.gen, FALSE)
  /\ errorShown' = (errorShown \/ retry.gen = generation)
  /\ retry' = Asleep
  /\ UNCHANGED << stored, installed, cmd, commands, overlapped >>

(* run_if_current_generation: the check and the registration are under the *)
(* one lock; a superseded attempt registers nothing.                       *)
IsAnyGeneration(g) == g <= generation                                 \* mutant
IsCurrent(g) == g = generation

RetryRegisters(ok) ==
  /\ retry.pc = "register"
  /\ IF IsCurrent(retry.gen)
     THEN /\ Registers(retry.config, ok)
          /\ retry' = [retry EXCEPT !.pc = "record", !.ok = ok]
     ELSE /\ ~ok
          /\ retry' = Asleep
          /\ UNCHANGED installed
  /\ UNCHANGED << stored, numbers, errorShown, cmd, commands, overlapped >>

RetryRecords ==
  /\ retry.pc = "record"
  /\ Records(retry.gen, retry.ok)
  /\ retry' = IF retry.gen = generation THEN [retry EXCEPT !.pc = "show"] ELSE Asleep
  /\ UNCHANGED << stored, installed, errorShown, cmd, commands, overlapped >>

RetryShows ==
  /\ retry.pc = "show"
  /\ errorShown' = ~retry.ok
  /\ retry' = Asleep
  /\ UNCHANGED << stored, installed, numbers, cmd, commands, overlapped >>

----------------------------------------------------------------------------

RetryStep ==
  \/ RetryBegins \/ RetryLoads \/ RetryLoadFails
  \/ (\E ok \in BOOLEAN : RetryRegisters(ok))
  \/ RetryRecords \/ RetryShows

CommandStep ==
  \/ UpdateWakes \/ UpdateSaves \/ UpdateSaveFails \/ UpdateUndoes
  \/ \E ok \in BOOLEAN :
       Startup(ok) \/ UpdateRegisters(ok) \/ UpdateRollsBack(ok) \/ ResumeRegisters(ok)

UserStep ==
  \/ \E c \in Configs : UpdateCall(c)
  \/ \E ok \in BOOLEAN : Pause(ok)
  \/ ResumeCall \/ EditSaves

RegNext == RetryStep \/ CommandStep \/ UserStep

RegFairness == WF_regVars(RetryStep) /\ WF_regVars(CommandStep)

RegSpec == RegInit /\ [][RegNext]_regVars /\ RegFairness

----------------------------------------------------------------------------

(* hotkey_status_for_with_capability_and_supervisor: what the settings     *)
(* show of the i-th binding.                                               *)
ConflictsAt(c, i) ==
  LET w == Wanted(c)
      Same(a, b) == \/ IsNative(a) /\ IsNative(b) /\ NativeOf[a] = NativeOf[b]
                    \/ Parses(a) /\ Parses(b) /\ Shortcut(a) = Shortcut(b)
  IN  \E j \in DOMAIN w \ {i} : Same(w[i].binding, w[j].binding)

ErrorKnown == errorShown \/ supervisor = "Failed"

RoleStatus(c, i) ==
  IF \/ ~Plan(c).ok
     \/ ~IsValid(Wanted(c)[i].binding) \/ ConflictsAt(c, i) THEN "failed"
  ELSE IF supervisor = "Starting" THEN "starting"
  ELSE IF supervisor = "Disabled" THEN "disabled"
  ELSE IF ErrorKnown THEN "failed"
  ELSE "installed"

(* hotkey_diagnostic_row                                                   *)
Diagnosis(c) ==
  IF \E i \in DOMAIN Wanted(c) : RoleStatus(c, i) = "starting" THEN "checking"
  ELSE IF ErrorKnown \/ ~Plan(c).ok THEN "error"
  ELSE "ok"

(* Type invariant.                                                         *)
RegTypeOK ==
  /\ saved \in Configs /\ cached \in Configs /\ strayed \in BOOLEAN
  /\ generation \in 1 .. 1 + 2 * MaxCommands
  /\ supervisor \in SupervisorState
  /\ attempts \in 0 .. FastRetryLimit + 1 + 2 * MaxCommands
  /\ errorShown \in BOOLEAN
  /\ cmd.pc \in {"startup", "none", "loaded", "woken", "saving", "unsaved", "refused", "resuming"}
  /\ retry.pc \in {"sleep", "load", "register", "record", "show"}
  /\ roleCache.ok \in BOOLEAN

(* What a configuration says, read without the plan.                       *)
Natives(c, r) == {NativeOf[b] : b \in {b \in ToSet(c[r]) : IsNative(b)}}

Globals(c, r) == {Shortcut(b) : b \in {b \in ToSet(c[r]) : ~IsNative(b)}}

(* role_for_global_shortcut.                                               *)
RoleOf(key) ==
  LET hits == {i \in DOMAIN roleCache.global : roleCache.global[i].key = key}
  IN  {roleCache.global[i].role : i \in hits}

(* The operating system holds exactly the shortcuts of a configuration that *)
(* can be planned, the monitor watches exactly its native triggers, and a  *)
(* press has the role it is configured for.                                *)
InForce(c) ==
  /\ Plan(c).ok
  /\ os = UNION {Globals(c, r) : r \in Roles}
  /\ monitor = UNION {Natives(c, r) : r \in Roles}
  /\ \A r \in Roles : \A key \in Globals(c, r) : RoleOf(key) = {r}

(* When the supervisor reports the shortcuts installed and no command      *)
(* runs, those of one configuration are in force as a whole, and it is the *)
(* saved one; and a shortcut the settings show as installed is one that    *)
(* works -- whatever registrations, rollbacks, saves and retries failed on *)
(* the way there. After a save that failed once the cache was filled it is *)
(* some configuration as a whole, but it may be neither the saved nor the  *)
(* shown one, until a change of the shortcuts is saved again. And not so   *)
(* once resume_hotkey, which takes no new generation, has overlapped a     *)
(* retry.                                                                  *)
InstalledIsSaved ==
  cmd.pc = "none" /\ ~overlapped =>
    /\ supervisor = "Installed" =>
         \E c \in Configs : InForce(c) /\ (~strayed => c = saved)
    /\ ~strayed => \A i \in DOMAIN Wanted(cached) :
         RoleStatus(cached, i) = "installed" =>
           LET b == Wanted(cached)[i].binding
           IN  IF IsNative(b) THEN NativeOf[b] \in monitor ELSE Shortcut(b) \in os
    /\ Diagnosis(cached) = "ok" => supervisor \in {"Installed", "Disabled"}

(* While the shortcuts are paused for the capture of a new one, nothing is *)
(* registered: a retry that began before the pause is superseded.          *)
PausedRegistersNothing ==
  [][supervisor = "Disabled" /\ supervisor' = "Disabled" =>
       os' \subseteq os /\ monitor' \subseteq monitor]_regVars

(* An attempt to register comes to an end: the shortcuts are installed or  *)
(* paused, or the retries are used up. The loop never stays in "Starting". *)
Settled ==
  \/ supervisor \in {"Installed", "Disabled"}
  \/ supervisor = "Failed" /\ attempts > FastRetryLimit

RegistrationSettles == ~Settled ~> Settled
=============================================================================
