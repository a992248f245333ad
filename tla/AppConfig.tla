------------------------------ MODULE AppConfig ------------------------------
(***************************************************************************)
(* The settings as values: AppConfig of src-tauri/src/storage/mod.rs with  *)
(* its mirror fields, what a stored value becomes when it is loaded, what  *)
(* normalize_values makes of a config, and what update_config does to the  *)
(* one it is given (commands/config.rs).                                   *)
(*                                                                         *)
(* Every setting with a legacy mirror or a limit is here: the provider     *)
(* with its recording limit, the translation targets, the bindings of      *)
(* dictation and Ask, the insertion strategy and the scenes.               *)
(***************************************************************************)
EXTENDS Naturals, Sequences, SequencesExt

CONSTANT MaxTargets  \* 5 in the code

ASSUME TargetsAssumption == MaxTargets \in Nat \ {0}

Nothing == "nothing"
-----------------------------------------------------------------------------
(* Shortcut bindings. "a2" is "a" with another name for its modifier;        *)
(* "retired" is one that newer versions on Windows replace.                  *)

Bindings == {"default", "a", "a2", "b", "retired", "invalid"}
DefaultAsk == "b"
MaxBindings == 3

Identity(b) == IF b = "a2" THEN "a" ELSE b

\* normalize_binding_list
AddBinding(list, b) ==
  IF b = "invalid" \/ Len(list) = MaxBindings \/ \E i \in DOMAIN list : Identity(list[i]) = Identity(b)
  THEN list ELSE Append(list, b)
NormalList(list) == FoldLeft(AddBinding, <<>>, list)

FirstOf(list) == IF list = <<>> THEN Nothing ELSE list[1]

Lifted(b) == IF b \in {Nothing, "invalid"} THEN <<>> ELSE <<b>>

\* HotkeyConfig::normalize: a list that was empty takes the single binding.
NormalHotkeys(c) ==
  LET list == IF c.list = <<>> THEN Lifted(c.dictation) ELSE NormalList(c.list)
      full == IF list = <<>> THEN <<"default">> ELSE list
      asks == IF c.asks = <<>> THEN Lifted(c.ask) ELSE NormalList(c.asks)
  IN  [c EXCEPT !.list = full, !.dictation = full[1], !.asks = asks, !.ask = FirstOf(asks)]

\* migrate_platform_typed_hotkeys
Unretire(c) ==
  IF c.dictation = "retired"
  THEN [c EXCEPT !.dictation = "default", !.list = <<"default">>, !.mode = "hold"] ELSE c

\* sync_legacy_hotkey_fields_from_typed
MirrorHotkeys(c) ==
  LET n == NormalHotkeys(c)
  IN  [n EXCEPT !.hotkey = n.dictation, !.askHotkey = n.ask, !.hotkeyMode = n.mode]

\* HotkeyConfig::from_legacy, after migrate_legacy_platform_hotkeys
FromLegacyHotkeys(c) ==
  LET retired == c.hotkey = "retired" /\ c.hotkeyMode = "toggle"
      b == IF retired \/ c.hotkey = "invalid" THEN "default" ELSE c.hotkey
      ask == IF c.askHotkey = "invalid" THEN DefaultAsk ELSE c.askHotkey
  IN  [c EXCEPT !.hotkey = b, !.dictation = b, !.list = <<b>>, !.ask = ask,
                !.asks = Lifted(ask), !.mode = IF retired THEN "hold" ELSE c.hotkeyMode]
-----------------------------------------------------------------------------
(* Translation targets                                                       *)

Languages20 == {"en", "de", "fr"}   \* SUPPORTED_TRANSLATION_LANGUAGES

AddTarget(list, lang) ==
  IF lang \notin Languages20 \/ lang \in ToSet(list) \/ Len(list) = MaxTargets
  THEN list ELSE Append(list, lang)

\* TranslationConfig::normalize: the legacy target is added and wins.
NormalTranslation(c) ==
  LET known  == FoldLeft(AddTarget, <<>>, c.targets)
      legacy == c.targetLang \in Languages20
      some   == IF known # <<>> THEN known ELSE <<IF legacy THEN c.targetLang ELSE "en">>
      all    == IF legacy THEN AddTarget(some, c.targetLang) ELSE some
      active == IF legacy /\ c.targetLang \in ToSet(all) THEN c.targetLang
                ELSE IF c.active \in ToSet(all) THEN c.active
                ELSE all[1]
  IN  [c EXCEPT !.targets = all, !.active = active, !.targetLang = active]

FromLegacyTarget(c) ==
  LET lang == IF c.targetLang \in Languages20 THEN c.targetLang ELSE "en"
  IN  [c EXCEPT !.targets = <<lang>>, !.active = lang]
-----------------------------------------------------------------------------
(* The recording limit (stt/capabilities.rs), in seconds                     *)

Providers == {"deepgram", "custom", "glm"}
HardMax     == [p \in Providers |-> CASE p = "deepgram" -> 3600 [] p = "custom" -> 720 [] OTHER -> 30]
Recommended == [p \in Providers |-> CASE p = "deepgram" -> 600 [] p = "custom" -> 120 [] OTHER -> 30]
MinCustom   == 30

Least(a, b)    == IF a < b THEN a ELSE b
Greatest(a, b) == IF a > b THEN a ELSE b

\* resolve_recording_limit
Limit(c) == IF c.limitMode = "auto" THEN Least(Recommended[c.provider], HardMax[c.provider])
            ELSE Least(Greatest(c.customLimit, MinCustom), HardMax[c.provider])

\* clamp_recording_limit_intent_for_save
ClampLimit(c) ==
  [c EXCEPT !.limit = Limit(c),
            !.customLimit = IF c.limitMode = "custom" THEN Limit(c)
                            ELSE IF @ = 0 THEN 600 ELSE @]

\* A value without a mode: 0 and 30 were the default.
FromLegacyLimit(c) ==
  IF c.limit \in {0, 30} THEN [c EXCEPT !.limitMode = "auto", !.customLimit = 600]
                         ELSE [c EXCEPT !.limitMode = "custom", !.customLimit = c.limit]
-----------------------------------------------------------------------------
(* Insertion strategy and scenes                                             *)

Insertions == {"auto", "keyboard", "paste", "copy"}

NormalInsertion(c) ==
  LET s == IF c.insertion \in Insertions THEN c.insertion ELSE "auto"
  IN  [c EXCEPT !.insertion = s,
                !.outputMode = IF s \in {"paste", "copy"} THEN "clipboard" ELSE "keyboard"]

FromLegacyOutput(c) ==
  [c EXCEPT !.insertion = IF c.outputMode = "clipboard" THEN "paste" ELSE "auto"]

CustomScenes == {"s1", "s2"}
KnownScenes(c) == c.scenes \cup {"builtin"}

\* sanitize_family_scene_assignments
NormalScenes(c) ==
  [c EXCEPT !.assigned = IF @ \in KnownScenes(c) THEN @ ELSE Nothing]

\* automatic_scene_prompt: an active scene, then the mapping, then the family.
SceneInForce(c, active, mapped) ==
  IF active THEN Nothing
  ELSE IF mapped \in KnownScenes(c) THEN mapped
  ELSE IF c.assigned \in KnownScenes(c) THEN c.assigned ELSE Nothing
-----------------------------------------------------------------------------
(* AppConfig                                                                 *)

DefaultConfig ==
  [provider |-> "glm", key |-> Nothing, customKey |-> Nothing, llmKey |-> Nothing,
   limitMode |-> "auto", customLimit |-> 600, limit |-> 30,
   targets |-> <<"en">>, active |-> "en", targetLang |-> "en",
   list |-> <<"default">>, dictation |-> "default", asks |-> <<DefaultAsk>>, ask |-> DefaultAsk,
   mode |-> "hold", hotkey |-> "default", askHotkey |-> DefaultAsk, hotkeyMode |-> "hold",
   insertion |-> "auto", outputMode |-> "keyboard",
   scenes |-> {}, assigned |-> Nothing]

\* normalize_values
Normal(c) ==
  LET values == MirrorHotkeys(Unretire(NormalInsertion(NormalTranslation(NormalScenes(c)))))
  IN  [values EXCEPT !.limit = Limit(values)]

\* from_stored_value: `has` names the newer fields that the stored value has.
FromStored(stored) ==
  LET c0 == stored.config
      c1 == IF "limitMode" \notin stored.has THEN FromLegacyLimit(c0)
            ELSE IF "customLimit" \notin stored.has THEN [c0 EXCEPT !.customLimit = 600]
            ELSE c0
      c2 == IF "translation" \notin stored.has THEN FromLegacyTarget(c1)
            ELSE IF "targetLang" \notin stored.has THEN [c1 EXCEPT !.targetLang = c1.active]
            ELSE c1
      c3 == IF "insertion" \in stored.has THEN c2 ELSE FromLegacyOutput(c2)
      c4 == IF "hotkeys" \in stored.has THEN MirrorHotkeys(c3) ELSE FromLegacyHotkeys(c3)
  IN  Normal(c4)

NewFields == {"limitMode", "customLimit", "translation", "targetLang", "insertion", "hotkeys"}

ReplaceFirst(list, b) ==
  IF b = Nothing THEN <<>>
  ELSE IF list = <<>> THEN <<b>>
  ELSE <<b>> \o Tail(list)

\* sync_hotkey_fields_before_save: which of the mirrors was changed is told by
\* comparing each with its default.
SyncHotkeys(c) ==
  LET d == DefaultConfig
      lists   == c.list # d.list \/ c.asks # d.asks
      scalars == c.dictation # d.dictation \/ c.ask # d.ask
      typed   == lists \/ scalars \/ c.mode # d.mode
      legacy  == c.hotkey # d.hotkey \/ c.askHotkey # d.askHotkey \/ c.hotkeyMode # d.hotkeyMode
      synced  == IF scalars /\ ~lists
                 THEN [c EXCEPT !.list = ReplaceFirst(@, c.dictation),
                                !.asks = ReplaceFirst(@, c.ask)]
                 ELSE [c EXCEPT !.dictation = IF c.list = <<>> THEN @ ELSE c.list[1],
                                !.ask = FirstOf(c.asks)]
      old == FromLegacyHotkeys(c)
  IN  IF typed \/ ~legacy
      THEN [synced EXCEPT !.hotkey = IF synced.dictation = "invalid" THEN @ ELSE synced.dictation,
                          !.askHotkey = IF synced.ask = "invalid" THEN Nothing ELSE synced.ask,
                          !.hotkeyMode = synced.mode]
      ELSE [old EXCEPT !.list = ReplaceFirst(c.list, old.dictation),
                       !.asks = ReplaceFirst(c.asks, old.ask)]

\* validate_hotkey_config: valid bindings, none of two roles
BindingsOf(list) == { Identity(b) : b \in ToSet(list) }
ValidHotkeys(c) ==
  /\ "invalid" \notin BindingsOf(c.list) \cup BindingsOf(c.asks)
  /\ BindingsOf(c.list) \cap BindingsOf(c.asks) = {}

\* prepare_config_for_save, of a config that passes both validations
Prepared(c) == ClampLimit(Normal(SyncHotkeys(c)))
CanBeSaved(c) == ValidHotkeys(SyncHotkeys(c)) /\ ValidHotkeys(Prepared(c))
=============================================================================
