------------------------------- MODULE Parts -------------------------------
(***************************************************************************)
(* The parts that the pipeline calls, each on its own instance: they share *)
(* no state, so a behaviour is one of the part that is chosen at its start.*)
(***************************************************************************)
EXTENDS TextOutput, Placement, Settings, SttSession, ContextDetector, Library, VoiceKeyboard

CONSTANT PlainStores   \* the settings that are looked at for the keys

VARIABLE part          \* the one that runs

otherVars == << settingsVars, sttVars, detectorVars, libraryVars >>
partsVars == << part, textVars, placeVars, otherVars, voiceKeyboardVars >>

PartNames == {"text", "placement", "secrets", "settings", "speech", "detector", "library", "keyboard"}

\* The settings are looked at for the keys, with commands that overlap, or for
\* the edits, with commands that follow each other. The two commands are alike,
\* so one that begins while no other runs is the first.
SettingsFollowed ==
  /\ task[1] = NoTask => task[2] = NoTask
  /\ IF part = "secrets"
     THEN \A t \in Tasks : task[t].edit.what \in {Nothing, "resave", "provider", "target"}
     ELSE keys = 0 /\ stops < 2 /\ \A t \in Tasks : task[t].alone

PartsInit ==
  /\ part \in PartNames
  /\ TextInit /\ PlaceInit /\ SettingsInit /\ SttInit /\ DetectorInit /\ LibraryInit
  /\ KeyboardInit
  /\ part # "text" => platform = "mac" /\ restores /\ clip # Image
  /\ part = "secrets" <=> disk \in PlainStores
  /\ part \notin {"secrets", "settings"} => disk = Stored(DefaultConfig)
  /\ part # "speech" => kind = "file"
  /\ part # "detector" => mapDisk = <<>>

\* The selection is captured, and a unit arrives in part, around one output; two
\* outputs come without.
TextFollowed == (captures = 0 /\ torn = {}) \/ call.n < 2

\* The second window is used while the first is; four events of the user.
DetectorFollowed ==
  /\ saver[2] # Closed => saver[1] # Closed
  /\ snapshots + changes + focuses <= 4

\* The field changes around one dictation of the keyboard; a second one comes
\* without that and by a tap, with two posts at most on the main thread. A state
\* that a cancelled run has overwritten is not followed further.
KeyboardFollowed ==
  Len(looper) <= 2 /\ (targets[2] # NotTaken => edits = 0 /\ ~targets[2].byHold)

\* A clipboard that has met what the code does not promise to survive is not
\* followed further.
PartsNext ==
  /\ UNCHANGED part
  /\ part # "keyboard" => UNCHANGED voiceKeyboardVars
  /\ \/ /\ part = "text" /\ ~excused /\ TextNext /\ TextFollowed'
        /\ UNCHANGED << placeVars, otherVars >>
     \/ /\ part = "placement" /\ PlaceNext
        /\ UNCHANGED << textVars, otherVars >>
     \/ /\ part = "keyboard" /\ ~clobbered /\ KeyboardNext /\ KeyboardFollowed'
        /\ UNCHANGED << textVars, placeVars, otherVars >>
     \/ /\ part \in {"secrets", "settings"} /\ SettingsNext /\ SettingsFollowed'
        /\ UNCHANGED << textVars, placeVars, sttVars, detectorVars, libraryVars >>
     \/ /\ part = "speech" /\ SttNext
        /\ UNCHANGED << textVars, placeVars, settingsVars, detectorVars, libraryVars >>
     \/ /\ part = "detector" /\ DetectorNext /\ DetectorFollowed'
        /\ UNCHANGED << textVars, placeVars, settingsVars, sttVars, libraryVars >>
     \/ /\ part = "library" /\ LibraryNext
        /\ UNCHANGED << textVars, placeVars, settingsVars, sttVars, detectorVars >>

PartsSpec == PartsInit /\ [][PartsNext]_partsVars

\* The type invariant of the part that runs: the others stay as they began.
PartsTypeOK ==
  CASE part = "text"                    -> TextTypeOK
    [] part = "placement"               -> PlaceTypeOK
    [] part \in {"secrets", "settings"} -> SettingsTypeOK
    [] part = "speech"                  -> SttTypeOK
    [] part = "detector"                -> DetectorTypeOK
    [] part = "library"                 -> LibraryTypeOK
    [] part = "keyboard"                -> KeyboardTypeOK
============================================================================
