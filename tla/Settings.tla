------------------------------ MODULE Settings ------------------------------
(***************************************************************************)
(* ConfigManager of src-tauri/src/storage/mod.rs and the commands that     *)
(* change a setting: each loads the cached config, makes another of it and *)
(* saves that, and two commands may do so at the same time.  With it the   *)
(* credentials (credentials.rs): keys that older versions kept as plain    *)
(* text in the settings move to the vault of the system with every load    *)
(* and save.  The program may stop between any two steps.                  *)
(***************************************************************************)
EXTENDS AppConfig

CONSTANTS
  Stores,    \* what settings.json may hold: records [has, config]
  Wishes,    \* what the user may ask for: the values of each edit
  MaxSaves,  \* bound on the commands in a behaviour
  MaxStops,  \* bound on the stops of the program
  MaxKeys    \* bound on the keys the user sets or clears

ASSUME SettingsAssumption == {MaxSaves, MaxStops, MaxKeys} \subseteq Nat

Tasks == {1, 2}
Slots == Providers \cup {"llm"}

VARIABLES
  disk,   \* settings.json
  cache,  \* ConfigManager.cache; DefaultConfig when `up` is FALSE
  up,     \* the program runs and has loaded its settings
  vault,  \* the vault of the system: the key of each slot
  task,   \* the commands that run
  saves, stops, keys,  \* how many there have been
  \* history, for the properties
  given,  \* the key the user gave last for each slot
  mixed   \* the user changed a key, or its provider, that still waited as plain text

settingsVars == <<disk, cache, up, vault, task, saves, stops, keys, given, mixed>>
counters == <<saves, stops, keys>>

NoTask == [pc |-> "idle", edit |-> [what |-> Nothing, to |-> Nothing],
           before |-> DefaultConfig, config |-> DefaultConfig, alone |-> TRUE, vaulted |-> TRUE]
-----------------------------------------------------------------------------
(* migrate_legacy_config_secrets: every key that waits is written to the     *)
(* vault and read back; then the plain text is cleared.                      *)

Waits(slot, key) == IF key = Nothing THEN <<>> ELSE <<[slot |-> slot, key |-> key]>>

PendingStt(c) == Waits(c.provider, c.key) \o Waits("custom", c.customKey)
Pending(c)    == PendingStt(c) \o Waits("llm", c.llmKey)

\* The vault after the first n writes.
Written(v, c, n) ==
  FoldLeft(LAMBDA acc, p : [acc EXCEPT ![p.slot] = p.key], v, SubSeq(Pending(c), 1, n))

Cleared(c) ==
  LET stt == { PendingStt(c)[i].slot : i \in DOMAIN PendingStt(c) }
  IN  [c EXCEPT !.key       = IF stt \ {"custom"} # {} THEN Nothing ELSE @,
                !.customKey = IF "custom" \in stt THEN Nothing ELSE @,
                !.llmKey    = Nothing]

Blindly(c) ==                                                         \* mutant
  { [vault |-> Written(vault, c, n), config |-> Cleared(c), ok |-> TRUE] :
      n \in 0..Len(Pending(c)) }

\* The outcomes: all is written, or the vault fails after some of the writes.
Migrations(c) ==
  LET all == Len(Pending(c))
  IN  { [vault |-> Written(vault, c, n), config |-> IF n = all THEN Cleared(c) ELSE c, ok |-> n = all] :
          n \in 0..all }

\* What the migration of c makes of a slot, if c holds a key for it.
PlainFor(c, slot) ==
  LET mine == { i \in DOMAIN Pending(c) : Pending(c)[i].slot = slot }
  IN  IF mine = {} THEN Nothing ELSE Pending(c)[Max(mine)].key

\* resolve_stt_config_secret, resolve_llm_config_secret
Resolved(c, slot) ==
  LET plain == CASE slot = "llm"    -> c.llmKey
                 [] slot = "custom" -> c.customKey
                 [] OTHER           -> c.key
  IN  IF plain # Nothing THEN plain ELSE vault[slot]
-----------------------------------------------------------------------------
(* ConfigManager::load, when the program starts. Settings that cannot be     *)
(* written leave the migrated ones in the cache only.                        *)

SettingsInit ==
  /\ disk \in Stores
  /\ cache = DefaultConfig /\ up = FALSE
  /\ vault = [s \in Slots |-> Nothing]
  /\ task = [t \in Tasks |-> NoTask]
  /\ saves = 0 /\ stops = 0 /\ keys = 0
  /\ given = [s \in Slots |-> CASE s = "llm"    -> disk.config.llmKey
                                [] s = "custom" -> disk.config.customKey
                                [] OTHER -> IF s = disk.config.provider THEN disk.config.key ELSE Nothing]
  /\ mixed = FALSE

Stored(c) == [has |-> NewFields, config |-> c]

Loads ==
  /\ ~up
  /\ up' = TRUE
  /\ LET c == FromStored(disk)
     IN  \E m \in Migrations(c) :
           /\ vault' = m.vault
           /\ cache' = m.config
           /\ disk' \in IF m.ok /\ Pending(c) # <<>> THEN {disk, Stored(m.config)} ELSE {disk}
  /\ UNCHANGED <<task, counters, given, mixed>>

\* A stop loses what is not on the disk or in the vault.
Stops ==
  /\ up /\ stops < MaxStops
  /\ up' = FALSE /\ stops' = stops + 1
  /\ cache' = DefaultConfig
  /\ task' = [t \in Tasks |-> NoTask]
  /\ UNCHANGED <<disk, vault, saves, keys, given, mixed>>
-----------------------------------------------------------------------------
(* The commands: what each makes of the loaded config                        *)

\* The settings page keeps the mirrors of what it changes in step
\* (syncTranslationConfig and syncHotkeyConfig of src/stores/appStore.ts), but
\* a change of hotkey_mode alone rebuilds the lists from the legacy fields.
OfPage(c, e) ==
  CASE e.what = "provider"  -> [c EXCEPT !.provider = e.to]
    [] e.what = "limit"     -> [c EXCEPT !.limitMode = "custom", !.customLimit = e.to]
    [] e.what = "targets"   -> [c EXCEPT !.targets = e.to, !.active = e.to[1], !.targetLang = e.to[1]]
    [] e.what = "list"      -> [c EXCEPT !.list = e.to, !.dictation = e.to[1], !.hotkey = e.to[1]]
    [] e.what = "asks"      -> [c EXCEPT !.asks = e.to, !.ask = FirstOf(e.to), !.askHotkey = FirstOf(e.to)]
    [] e.what = "mode"      -> [c EXCEPT !.mode = e.to, !.hotkeyMode = e.to, !.list = <<c.hotkey>>,
                                         !.asks = Lifted(c.askHotkey)]
    [] e.what = "insertion" -> [c EXCEPT !.insertion = e.to]
    [] e.what = "scenes"    -> [c EXCEPT !.scenes = e.to]

PageEdits == {"provider", "limit", "targets", "list", "asks", "mode", "insertion", "scenes"}
EditKinds == PageEdits \cup {"target", "assign", "hotkey", "askHotkey", "resave"}

\* The types of the fields; Ask may have no binding.
StoredConfigs ==
  [provider : Providers, key : STRING, customKey : STRING, llmKey : STRING,
   limitMode : {"auto", "custom"}, customLimit : Nat, limit : Nat,
   targets : Seq(STRING), active : STRING, targetLang : STRING,
   list : Seq(Bindings), dictation : Bindings, asks : Seq(Bindings), ask : Bindings \cup {Nothing},
   mode : {"hold", "toggle"}, hotkey : Bindings, askHotkey : Bindings \cup {Nothing},
   hotkeyMode : {"hold", "toggle"}, insertion : STRING, outputMode : STRING,
   scenes : SUBSET CustomScenes, assigned : STRING]

\* What normalizeTranslationTargets of the page lets through.
TargetLists ==
  { l \in Seq(Languages20) : Len(l) \in 1..MaxTargets /\ \A i, j \in DOMAIN l : l[i] = l[j] => i = j }

MayAsk(what, values) ==
  CASE what = "provider"  -> values \subseteq Providers
    [] what = "limit"     -> values \subseteq Nat
    [] what = "targets"   -> values \subseteq TargetLists
    [] what = "list"      -> values \subseteq Seq(Bindings) \ {<<>>}
    [] what = "asks"      -> values \subseteq Seq(Bindings)
    [] what = "insertion" -> values \subseteq Insertions
    [] what = "scenes"    -> values \subseteq SUBSET CustomScenes
    [] what = "hotkey"    -> values \subseteq Bindings
    [] what = "askHotkey" -> values \subseteq Bindings \cup {Nothing}
    [] OTHER              -> what \in EditKinds

ASSUME InputsAssumption ==
  /\ Stores \subseteq [has : SUBSET NewFields, config : StoredConfigs]
  /\ \A what \in DOMAIN Wishes : what \in EditKinds /\ MayAsk(what, Wishes[what])

TargetUnmirrored(c, lang) == [c EXCEPT !.active = lang]               \* mutant

\* set_active_translation_target
Target(c, lang) == [c EXCEPT !.active = lang, !.targetLang = lang]

\* The config that a command saves.
Edited(c, e) ==
  CASE e.what \in PageEdits -> Prepared(OfPage(c, e))
    [] e.what = "target"    -> Target(c, e.to)
    [] e.what = "assign"    -> [c EXCEPT !.assigned = e.to]
    [] e.what = "hotkey"    -> Normal([c EXCEPT !.list = ReplaceFirst(@, e.to), !.dictation = e.to,
                                                !.hotkey = e.to])
    [] e.what = "askHotkey" -> Normal([c EXCEPT !.asks = ReplaceFirst(@, e.to), !.ask = e.to,
                                                !.askHotkey = e.to])
    [] e.what = "resave"    -> c

\* What a command refuses, it refuses before it saves.
Accepted(c, e) ==
  CASE e.what \in PageEdits             -> CanBeSaved(OfPage(c, e))
    [] e.what = "target"                -> e.to \in ToSet(c.targets)
    [] e.what = "assign"                -> e.to \in KnownScenes(c) \cup {Nothing}
    [] e.what \in {"hotkey", "askHotkey"} -> e.to # "invalid" /\ ValidHotkeys(Edited(c, e))
    [] OTHER                            -> TRUE

Saving(t) == task[t].pc \notin {"idle", "done", "failed"}

CommandBegins(t, e) ==
  /\ up /\ ~Saving(t) /\ saves < MaxSaves
  /\ saves' = saves + 1
  /\ Accepted(cache, e)
  /\ LET others == { u \in Tasks \ {t} : Saving(u) }
     IN  task' = [u \in Tasks |->
                   IF u = t THEN [pc |-> "save", edit |-> e, before |-> cache, vaulted |-> TRUE,
                                  config |-> Edited(cache, e), alone |-> others = {}]
                   ELSE IF u \in others THEN [task[u] EXCEPT !.alone = FALSE] ELSE NoTask]
  /\ mixed' = (mixed \/ (e.what = "provider" /\ cache.key # Nothing))
  /\ UNCHANGED <<disk, cache, up, vault, stops, keys, given>>

\* A failed switch of the target saves the settings of before again.
Fails(t) == IF task[t].edit.what = "target" /\ task[t].config # task[t].before
            THEN "undo" ELSE "failed"
-----------------------------------------------------------------------------
(* ConfigManager::save                                                       *)

TaskGoes(t, pc, config) == task' = [task EXCEPT ![t].pc = pc, ![t].config = config]

\* normalize_values and the migration; a vault that fails ends the save.
SaveMigrates(t) ==
  /\ task[t].pc \in {"save", "undo"}
  /\ \E m \in Migrations(Normal(IF task[t].pc = "undo" THEN task[t].before ELSE task[t].config)) :
       /\ vault' = m.vault
       /\ task' = [task EXCEPT ![t].config = m.config, ![t].vaulted = @ /\ m.ok,
                               ![t].pc = IF m.ok THEN IF @ = "undo" THEN "undoCache" ELSE "cache"
                                         ELSE IF @ = "undo" THEN "failed"
                                         ELSE Fails(t)]
  /\ UNCHANGED <<disk, cache, up, counters, given, mixed>>

SaveCaches(t) ==
  /\ task[t].pc \in {"cache", "undoCache"}
  /\ cache' = task[t].config
  /\ TaskGoes(t, IF task[t].pc = "cache" THEN "persist" ELSE "undoPersist", task[t].config)
  /\ UNCHANGED <<disk, up, vault, counters, given, mixed>>

\* persist_config: settings that cannot be written stay in the cache.
SavePersists(t) ==
  /\ task[t].pc \in {"persist", "undoPersist"}
  /\ \/ /\ disk' = Stored(task[t].config)
        /\ TaskGoes(t, IF task[t].pc = "persist" THEN "done" ELSE "failed", task[t].config)
     \/ /\ UNCHANGED disk
        /\ TaskGoes(t, IF task[t].pc = "persist" THEN Fails(t) ELSE "failed", task[t].config)
  /\ UNCHANGED <<cache, up, vault, counters, given, mixed>>
-----------------------------------------------------------------------------
(* set_credential and clear_credential                                       *)

WaitsFor(slot) ==
  \E c \in {FromStored(disk)} \cup (IF up THEN {cache} ELSE {})
           \cup { task[t].config : t \in Tasks } \cup { task[t].before : t \in Tasks } :
    PlainFor(c, slot) # Nothing

SetsCredential(slot, key) ==
  /\ up /\ keys < MaxKeys
  /\ keys' = keys + 1
  /\ vault' = [vault EXCEPT ![slot] = key]
  /\ given' = [given EXCEPT ![slot] = key]
  /\ mixed' = (mixed \/ WaitsFor(slot))
  /\ UNCHANGED <<disk, cache, up, task, saves, stops>>

TaskStep(t) == SaveMigrates(t) \/ SaveCaches(t) \/ SavePersists(t)

SettingsNext ==
  \/ Loads \/ Stops
  \/ \E t \in Tasks : TaskStep(t) \/ \E what \in DOMAIN Wishes : \E to \in Wishes[what] :
                                   CommandBegins(t, [what |-> what, to |-> to])
  \/ \E slot \in Slots, key \in {Nothing, "new"} : SetsCredential(slot, key)

SettingsSpec == SettingsInit /\ [][SettingsNext]_settingsVars
-----------------------------------------------------------------------------
(* Properties                                                                *)

\* The keys there can be: those of the stored settings, and what the user sets.
KnownKeys ==
  {Nothing, "new"} \cup UNION { {s.config.key, s.config.customKey, s.config.llmKey} : s \in Stores }

SettingsTypeOK ==
  /\ disk.has \subseteq NewFields
  /\ {vault, given} \subseteq [Slots -> KnownKeys]
  /\ \A t \in Tasks : task[t].pc \in {"idle", "save", "cache", "persist", "undo", "undoCache",
                                      "undoPersist", "done", "failed"}
  /\ up => cache = Normal(cache)

\* A key that the user gave is in the vault, or still in the settings on the
\* disk, from where the next start moves it there.
KeptSomewhere(slot) ==
  given[slot] \in {vault[slot], PlainFor(FromStored(disk), slot)}

\* The migration of the plain-text keys loses none of them: the plain text goes
\* only when the vault has the key.
MigrationLosesNothing ==
  \A slot \in Slots : given[slot] # Nothing => KeptSomewhere(slot)

\* Whatever fails, and wherever the program stops, no key is lost, and the
\* running program uses the one that the user gave: the vault may fail after any
\* write, settings.json may not be written, two commands may overlap.  Not
\* promised for a key that the user changes, or whose provider, while the old
\* one still waits as plain text.
SecretsKept ==
  ~mixed =>
    /\ MigrationLosesNothing
    /\ up => \A slot \in {cache.provider, "llm"} :
               given[slot] # Nothing => Resolved(cache, slot) = given[slot]

\* What the user sees of an edit afterwards.
Shows(c, e) ==
  CASE e.what = "provider"  -> c.provider = e.to /\ c.limit <= HardMax[e.to]
    [] e.what = "limit"     -> c.limit = Least(Greatest(e.to, MinCustom), HardMax[c.provider])
    [] e.what = "targets"   -> c.targets = e.to /\ c.active = e.to[1]
    [] e.what = "target"    -> c.active = e.to
    [] e.what = "list"      -> "retired" \in ToSet(e.to) \/ (c.list = NormalList(e.to) /\ c.hotkey = c.list[1])
    [] e.what = "asks"      -> c.asks = NormalList(e.to) /\ c.askHotkey = FirstOf(c.asks)
    [] e.what = "mode"      -> c.hotkeyMode = e.to
    [] e.what = "insertion" -> c.insertion = e.to
    [] e.what = "scenes"    -> c.scenes = e.to /\ c.assigned \in KnownScenes(c) \cup {Nothing}
    [] e.what = "assign"    -> SceneInForce(c, FALSE, Nothing) = e.to
    [] e.what = "hotkey"    -> e.to = "retired" \/ c.hotkey = e.to
    [] e.what = "askHotkey" -> c.askHotkey = e.to
    [] OTHER                -> TRUE

Group(what) ==
  CASE what \in {"provider", "limit"}                          -> "recording"
    [] what \in {"targets", "target"}                          -> "translation"
    [] what \in {"list", "asks", "mode", "hotkey", "askHotkey"} -> "hotkeys"
    [] what \in {"scenes", "assign"}                           -> "scenes"
    [] OTHER                                                   -> what

\* What the settings say of each group.
Says(c, group) ==
  CASE group = "recording"   -> <<c.provider, c.limitMode, c.limit>>
    [] group = "translation" -> <<c.targets, c.active>>
    [] group = "hotkeys"     -> <<c.list, c.asks, c.hotkeyMode>>
    [] group = "scenes"      -> <<c.scenes, c.assigned>>
    [] group = "insertion"   -> <<c.insertion, c.outputMode>>

Groups == {"recording", "translation", "hotkeys", "scenes", "insertion"}

\* A setting that was saved is in force, not undone by one of its mirrors, and
\* the next start reads the same settings from the disk: the mirrors that older
\* versions left, and those the page sends, never win over what the user chose,
\* and no setting of another group changes with it.
\* A switch of the translation target that fails leaves the old one in force, if
\* the vault lets it.  (A command that overlaps another may lose its edit.)
EditSurvives ==
  \A t \in Tasks :
    LET k == task[t]
    IN  k.alone =>
          /\ k.pc = "done" => 
               /\ Shows(cache, k.edit) /\ FromStored(disk) = cache
               /\ \A g \in Groups \ {Group(k.edit.what)} : Says(cache, g) = Says(k.before, g)
          /\ k.pc = "failed" /\ k.vaulted /\ k.edit.what = "target"
               => cache.active = k.before.active
=============================================================================
