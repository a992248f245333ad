-------------------------- MODULE ContextDetector --------------------------
(***************************************************************************)
(* The context detector (src-tauri/src/app_detector) and the commands for  *)
(* the user's own app mappings (commands/app_mappings.rs).                 *)
(*                                                                         *)
(* A thread looks at the front application, resolves its profile and keeps *)
(* the result in a cache.  A recording takes a snapshot of the cache, which*)
(* offers the application as a candidate for a mapping, under a generation.*)
(* The user may save the candidate that the window shows, while recordings *)
(* of both kinds begin, the focus moves and mappings change.               *)
(***************************************************************************)
EXTENDS Naturals, Sequences, FiniteSets, SequencesExt, FiniteSetsExt

CONSTANTS
  StoredMappings,  \* what context-mappings.json may hold: sequences of mappings
  MaxSnapshots,    \* bound on the recordings
  MaxMappings,     \* bound on the commands for mappings
  MaxFocus         \* bound on the changes of the focus or the tab

Fronts    == {"editor", "browser", "nothing"}
Tabs      == {"mail", "wiki"}
Hosts     == Tabs \cup {"blank"}    \* blank: a tab without a host, or not readable
Recorders == {"dictation", "ask"}
Windows   == {1, 2}                 \* windows that show the candidate
NoMatcher == "no matcher"
NoScene   == "no scene"

\* A mapping; `seen` is history: what the window showed when the user saved it.
MappingOf == { m \in [matcher : Tabs \cup Fronts, scene : {NoScene, "s1"}, enabled : BOOLEAN,
                      seen : Tabs \cup Fronts] : m.seen = m.matcher }

ASSUME DetectorAssumption ==
  /\ {MaxSnapshots, MaxMappings, MaxFocus} \subseteq Nat
  /\ StoredMappings \subseteq Seq(MappingOf)

VARIABLES
  front, tab,   \* the application in front, and the tab of the browser
  watcher,      \* the thread: pc, the signals it has, what it makes of them
  refreshTx,    \* the channel to it, of one place: "empty", "normal", "focusChanged"
  cached,       \* CachedContext
  fresh,        \* the cache is not older than stale_after
  generation, latest,  \* candidate_generation, latest_candidate
  snapshot,     \* a call of snapshot_for_recording_enabled: pc, candidate
  mappings, mapDisk,   \* the collection, and its file
  saver,        \* a window: what it shows, and its command
  snapshots, changes, focuses  \* how many there have been

detectorVars == <<front, tab, watcher, refreshTx, cached, fresh, generation, latest, snapshot,
                  mappings, mapDisk, saver, snapshots, changes, focuses>>
userVars == <<front, tab, focuses>>
mapVars == <<mappings, mapDisk, changes>>
snapVars == <<generation, latest, snapshot, snapshots>>
-----------------------------------------------------------------------------
(* Signals, guards and matchers                                              *)

Signals(f, t) == [front |-> f, host |-> IF f = "browser" THEN t ELSE "blank"]
GuardOf(s)    == s.front

\* find_match: the host decides before the application.
MatchersOf(s) == IF s.host = "blank" THEN <<s.front>> ELSE <<s.host, s.front>>

EnabledFor(ms, matcher) == { i \in DOMAIN ms : ms[i].matcher = matcher /\ ms[i].enabled }

Matches(ms, s) == { m \in ToSet(MatchersOf(s)) : EnabledFor(ms, m) # {} }

FindMatch(ms, s) ==
  LET hits == { i \in DOMAIN MatchersOf(s) : EnabledFor(ms, MatchersOf(s)[i]) # {} }
  IN  IF hits = {} THEN NoMatcher ELSE MatchersOf(s)[Min(hits)]

\* The registry knows the editor and the host of the mail.
Classify(s) ==
  IF s.host = "mail" THEN "mail"
  ELSE IF s.front = "browser" THEN "general.browser"
  ELSE IF s.front = "editor" THEN "editor"
  ELSE "general.native"

SceneOf(ms, matcher) ==
  IF matcher = NoMatcher THEN NoScene ELSE ms[CHOOSE i \in EnabledFor(ms, matcher) : TRUE].scene

\* resolve_profile: `user` is the matcher of the mapping that gives the profile.
ResolveProfile(ms, s) ==
  LET m == FindMatch(ms, s)
  IN  [profile |-> IF m = NoMatcher THEN Classify(s) ELSE "mapped", user |-> m,
       scene |-> SceneOf(ms, m)]

\* fallback_for_profile
Fallback(p) == IF p \in {"mail", "general.browser"} THEN "general.browser" ELSE "general.native"

\* candidate_from_signals: a browser counts by its host only.
CandidateOf(s) ==
  IF s.front = "browser" THEN IF s.host = "blank" THEN NoMatcher ELSE s.host ELSE s.front

NoContext == [profile |-> "general.native", user |-> NoMatcher, scene |-> NoScene,
              guard |-> "nothing", candidate |-> NoMatcher]

\* UserAppMappingCollection::from_stored: the first of the mappings of one matcher.
FromStoredMappings(stored) ==
  FoldLeft(LAMBDA acc, m : IF \E i \in DOMAIN acc : acc[i].matcher = m.matcher THEN acc
                           ELSE Append(acc, m), <<>>, stored)

NoCandidate == [gen |-> 0, matcher |-> NoMatcher]
Closed      == [pc |-> "shows", shown |-> NoCandidate, taken |-> NoMatcher]
NoSnapshot  == [pc |-> "idle", candidate |-> NoCandidate, stale |-> FALSE]
AtRest      == [pc |-> "waits", signals |-> Signals("nothing", "blank"), found |-> NoContext]

DetectorInit ==
  /\ front = "editor" /\ tab = "mail"
  /\ watcher = [AtRest EXCEPT !.pc = "app"]
  /\ refreshTx = "empty" /\ cached = NoContext /\ fresh = TRUE
  /\ generation = 0 /\ latest = NoCandidate
  /\ snapshot = [r \in Recorders |-> NoSnapshot]
  /\ mapDisk \in StoredMappings /\ mappings = FromStoredMappings(mapDisk)
  /\ saver = [w \in Windows |-> Closed]
  /\ snapshots = 0 /\ changes = 0 /\ focuses = 0
-----------------------------------------------------------------------------
(* The user and the time                                                     *)

FocusMoves ==
  /\ focuses < MaxFocus
  /\ focuses' = focuses + 1
  /\ \/ front' \in Fronts \ {front} /\ UNCHANGED tab
     \/ tab' \in Tabs \ {tab} /\ UNCHANGED front
  /\ UNCHANGED <<watcher, refreshTx, cached, fresh, snapVars, mapVars, saver>>

CacheAges ==
  /\ fresh /\ fresh' = FALSE
  /\ UNCHANGED <<userVars, watcher, refreshTx, cached, snapVars, mapVars, saver>>
-----------------------------------------------------------------------------
(* run_detector, refresh_context                                             *)

WatcherGoes(pc) == watcher' = [watcher EXCEPT !.pc = pc]

\* A change of the focus, or an interval that has passed; the signal of a stale
\* snapshot is dropped when the last refresh was less than an interval ago.
WatcherWakes ==
  /\ watcher.pc = "waits"
  /\ refreshTx' = "empty"
  /\ WatcherGoes("app") \/ (refreshTx = "normal" /\ UNCHANGED watcher)
  /\ UNCHANGED <<userVars, cached, fresh, snapVars, mapVars, saver>>

\* Two questions to the system, on macOS: the application, then its tab.
WatcherSeesApp ==
  /\ watcher.pc = "app"
  /\ watcher' = [watcher EXCEPT !.signals = Signals(front, "blank"),
                                !.pc = IF front = "nothing" THEN "write" ELSE "tab",
                                !.found = NoContext]
  /\ UNCHANGED <<userVars, refreshTx, cached, fresh, snapVars, mapVars, saver>>

WatcherSeesTab ==
  /\ watcher.pc = "tab"
  /\ \E readable \in BOOLEAN :   \* the permission to ask the browser
       watcher' = [watcher EXCEPT !.pc = "resolve",
                                  !.signals = Signals(@.front, IF readable THEN tab ELSE "blank")]
  /\ UNCHANGED <<userVars, refreshTx, cached, fresh, snapVars, mapVars, saver>>

WatcherResolves ==
  /\ watcher.pc = "resolve"
  /\ LET r == ResolveProfile(mappings, watcher.signals)
     IN  watcher' = [watcher EXCEPT !.pc = "candidate", !.found =
           [profile |-> r.profile, user |-> r.user, scene |-> r.scene,
            guard |-> GuardOf(watcher.signals), candidate |-> CandidateOf(watcher.signals)]]
  /\ UNCHANGED <<userVars, refreshTx, cached, fresh, snapVars, mapVars, saver>>

\* has_match, under the lock of the store again
WatcherFilters ==
  /\ watcher.pc = "candidate"
  /\ watcher' = [watcher EXCEPT !.pc = "write", !.found.candidate =
                   IF Matches(mappings, watcher.signals) = {} THEN @ ELSE NoMatcher]
  /\ UNCHANGED <<userVars, refreshTx, cached, fresh, snapVars, mapVars, saver>>

WatcherWrites ==
  /\ watcher.pc = "write"
  /\ cached' = watcher.found /\ fresh' = TRUE
  /\ watcher' = AtRest
  /\ UNCHANGED <<userVars, refreshTx, snapVars, mapVars, saver>>

\* try_send: a full channel drops the signal.
Notify(signal) == refreshTx' = IF refreshTx = "empty" THEN signal ELSE refreshTx
-----------------------------------------------------------------------------
(* snapshot_for_recording_enabled                                            *)

\* What a recording is given; `enabled`: context_adaptation_enabled
SnapshotOf(enabled) ==
  IF enabled /\ fresh THEN cached
  ELSE [NoContext EXCEPT !.profile = Fallback(cached.profile), !.guard = cached.guard]

SnapshotReads(r) ==
  /\ snapshot[r].pc = "idle" /\ snapshots < MaxSnapshots
  /\ snapshots' = snapshots + 1
  /\ generation' = generation + 1
  /\ snapshot' = [snapshot EXCEPT ![r] =
       [pc |-> "store", stale |-> ~fresh,
        candidate |-> IF fresh /\ cached.candidate # NoMatcher
                      THEN [gen |-> generation + 1, matcher |-> cached.candidate] ELSE NoCandidate]]
  /\ UNCHANGED <<userVars, watcher, refreshTx, cached, fresh, latest, mapVars, saver>>

SnapshotStores(r) ==
  /\ snapshot[r].pc = "store"
  /\ latest' = snapshot[r].candidate
  /\ snapshot' = [snapshot EXCEPT ![r] = NoSnapshot]
  /\ IF snapshot[r].stale THEN Notify("normal") ELSE UNCHANGED refreshTx
  /\ UNCHANGED <<userVars, watcher, cached, fresh, generation, snapshots, mapVars, saver>>
-----------------------------------------------------------------------------
(* The commands                                                              *)

\* latest_mapping_candidate
WindowShows(w) ==
  /\ saver[w].pc = "shows" /\ latest # saver[w].shown
  /\ saver' = [saver EXCEPT ![w].shown = latest]
  /\ UNCHANGED <<userVars, watcher, refreshTx, cached, fresh, snapVars, mapVars>>

LatestCandidate(gen) == latest                                        \* mutant

\* mapping_candidate_for_generation
CandidateFor(gen) == IF latest.gen = gen THEN latest ELSE NoCandidate

\* save_custom_app_mapping
SaveTakes(w) ==
  /\ saver[w].pc = "shows" /\ saver[w].shown # NoCandidate /\ changes < MaxMappings
  /\ LET c == CandidateFor(saver[w].shown.gen)
     IN  saver' = [saver EXCEPT ![w] = IF c = NoCandidate THEN Closed
                                       ELSE [@ EXCEPT !.pc = "save", !.taken = c.matcher]]
  /\ changes' = changes + 1
  /\ UNCHANGED <<userVars, watcher, refreshTx, cached, fresh, snapVars, mappings, mapDisk>>

\* UserAppMappingStore::mutate: what cannot be written is undone.
Mutate(changed) ==
  \/ mappings' = changed /\ mapDisk' = changed
  \/ UNCHANGED <<mappings, mapDisk>>

SaveAdds(w) ==
  /\ saver[w].pc = "save"
  /\ LET c == saver[w].taken
         known == \E i \in DOMAIN mappings : mappings[i].matcher = c
     IN  IF known THEN UNCHANGED <<mappings, mapDisk>>
         ELSE Mutate(Append(mappings, [matcher |-> c, scene |-> "s1", enabled |-> TRUE,
                                       seen |-> saver[w].shown.matcher]))
  /\ saver' = [saver EXCEPT ![w] = IF mappings' = mappings THEN Closed ELSE [@ EXCEPT !.pc = "clear"]]
  /\ UNCHANGED <<userVars, watcher, refreshTx, cached, fresh, snapVars, changes>>

\* clear_mapping_candidate, notify_focus_changed
SaveEnds(w) ==
  /\ saver[w].pc = "clear"
  /\ latest' = IF latest.gen = saver[w].shown.gen THEN NoCandidate ELSE latest
  /\ Notify("focusChanged")
  /\ saver' = [saver EXCEPT ![w] = Closed]
  /\ UNCHANGED <<userVars, watcher, cached, fresh, generation, snapshot, snapshots, mapVars>>

\* update_custom_app_mapping, set_custom_app_mapping_enabled,
\* delete_custom_app_mapping, reset_custom_app_mappings
MappingChanges ==
  /\ changes < MaxMappings /\ mappings # <<>>
  /\ changes' = changes + 1
  /\ \/ \E i \in DOMAIN mappings : \/ Mutate([mappings EXCEPT ![i].scene = NoScene])
                                   \/ Mutate([mappings EXCEPT ![i].enabled = ~@])
                                   \/ Mutate(RemoveAt(mappings, i))
     \/ Mutate(<<>>)
  /\ IF mappings' = mappings THEN UNCHANGED refreshTx ELSE Notify("focusChanged")
  /\ UNCHANGED <<userVars, watcher, cached, fresh, snapVars, saver>>
-----------------------------------------------------------------------------
Watches == WatcherWakes \/ WatcherSeesApp \/ WatcherSeesTab \/ WatcherResolves
           \/ WatcherFilters \/ WatcherWrites

DetectorNext ==
  \/ FocusMoves \/ CacheAges \/ Watches
  \/ \E r \in Recorders : SnapshotReads(r) \/ SnapshotStores(r)
  \/ \E w \in Windows : WindowShows(w) \/ SaveTakes(w) \/ SaveAdds(w) \/ SaveEnds(w)
  \/ MappingChanges

DetectorSpec == DetectorInit /\ [][DetectorNext]_detectorVars

DetectorTypeOK ==
  /\ refreshTx \in {"empty", "normal", "focusChanged"}
  /\ watcher.pc \in {"waits", "app", "tab", "resolve", "candidate", "write"}
  /\ latest.gen \in 0..generation
  /\ cached \in
       [profile : {"mail", "editor", "mapped", "general.browser", "general.native"},
        user : Tabs \cup Fronts \cup {NoMatcher}, scene : {NoScene, "s1"},
        guard : Fronts, candidate : Tabs \cup Fronts \cup {NoMatcher}]

\* A mapping that the user saves is for the application or site that the window
\* showed, although a newer recording may have changed the candidate by then;
\* there is one mapping for each, also when two windows save at once; and the
\* next start has the same ones, whatever could not be written.
MappingIsForWhatWasShown ==
  /\ \A i \in DOMAIN mappings : mappings[i].seen = mappings[i].matcher
  /\ \A i, j \in DOMAIN mappings : mappings[i].matcher = mappings[j].matcher => i = j
  /\ FromStoredMappings(mapDisk) = mappings

\* The profile and the scene that a recording is given are for the application
\* that its guard names: a mapping of another application never gives them,
\* although the focus moves and mappings change while the thread looks.
ContextIsOfItsApp ==
  \A enabled \in BOOLEAN :
    LET c == SnapshotOf(enabled)
    IN  /\ c.user # NoMatcher => c.user \in UNION { ToSet(MatchersOf(Signals(c.guard, t))) : t \in Tabs }
        /\ c.scene # NoScene => c.user # NoMatcher

\* Neither a saved mapping nor the context of a recording is that of another
\* application than the one the user was shown, or spoke to.
NothingOfAnotherApp == MappingIsForWhatWasShown /\ ContextIsOfItsApp
=============================================================================
