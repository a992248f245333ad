--------------------------- MODULE StorageProofs ---------------------------
(***************************************************************************)
(* Theorems about what the program keeps between its runs.  About          *)
(* ContextDetector: no context of another application, for every number of *)
(* mappings, snapshots and windows.  About Library: history, dictionary    *)
(* and rules stay whole, for every policy, backup, file and number of      *)
(* operations.  About Settings, for all stored settings, and every number  *)
(* of saves, stops and keys: no key that the user gave is lost, and an edit*)
(* that is saved is in force, in every mirror and after the next start.    *)
(* Of each, also the types of what it keeps.                               *)
(***************************************************************************)
EXTENDS ContextDetector, Library, Settings, FoldLemmas, TLAPS

-----------------------------------------------------------------------------
(* ContextDetector: the mappings                                             *)

OneEach(ms) == \A i, j \in DOMAIN ms : ms[i].matcher = ms[j].matcher => i = j

Kept(acc, m) == IF \E i \in DOMAIN acc : acc[i].matcher = m.matcher THEN acc ELSE Append(acc, m)

\* What from_stored has kept after each of the stored mappings.
LEMMA StoredRuns ==
  ASSUME NEW stored \in Seq(MappingOf)
  PROVE  \E run \in [0 .. Len(stored) -> Seq(MappingOf)] :
           /\ run[0] = <<>>
           /\ \A n \in 1 .. Len(stored) : run[n] = Kept(run[n - 1], stored[n])
           /\ FromStoredMappings(stored) = run[Len(stored)]
<1> DEFINE A    == Seq(MappingOf)
           step == [p \in A \X MappingOf |-> Kept(p[1], p[2])]
           iter == CHOOSE f : f = [s \in SUBSET DOMAIN stored |->
                     IF s = {} THEN <<>> ELSE Kept(f[s \ {Max(s)}], stored[Max(s)])]
<1>1. step \in [A \X MappingOf -> A] /\ <<>> \in A
  BY DEF Kept
<1>2. \A a \in A, m \in MappingOf : step[<<a, m>>] = Kept(a, m)
  OBVIOUS
<1> HIDE DEF step
<1>3. \A s \in SUBSET DOMAIN stored : s # {} => Max(s) \in DOMAIN stored /\ stored[Max(s)] \in MappingOf
  <2>1. DOMAIN stored = 1 .. Len(stored) /\ Len(stored) \in Nat
    OBVIOUS
  <2>2. \A i \in DOMAIN stored : stored[i] \in MappingOf
    OBVIOUS
  <2>3. \A s \in SUBSET (1 .. Len(stored)) : s # {} => Max(s) \in s
    BY <2>1, MaxIn
  <2> QED  BY <2>1, <2>2, <2>3
<1>4. PICK f \in [SUBSET DOMAIN stored -> A] : IsFold(f, step, <<>>, stored, DOMAIN stored)
  BY <1>1, FoldExists
<1>5. f = [s \in SUBSET DOMAIN stored |->
             IF s = {} THEN <<>> ELSE Kept(f[s \ {Max(s)}], stored[Max(s)])]
  <2>1. \A s \in SUBSET DOMAIN stored : s # {} =>
          step[<<f[s \ {Max(s)}], stored[Max(s)]>>] = Kept(f[s \ {Max(s)}], stored[Max(s)])
    BY <1>2, <1>3
  <2> QED  BY <1>4, <2>1 DEF IsFold
<1>6. iter = [s \in SUBSET DOMAIN stored |->
                IF s = {} THEN <<>> ELSE Kept(iter[s \ {Max(s)}], stored[Max(s)])]
  BY <1>5
<1>7. FromStoredMappings(stored) = iter[DOMAIN stored]
  BY DEF FromStoredMappings, FoldLeft, MapThenFoldSet, Kept
<1> HIDE DEF iter, A
<1>8. iter[{}] = <<>>
  BY <1>6
<1>9. IsFolding(iter, step, <<>>, stored, A)
  BY <1>2, <1>3, <1>6, <1>8 DEF IsFolding
<1>10. PICK run \in [0 .. Len(stored) -> A] :
         IsRun(run, step, <<>>, stored) /\ iter[DOMAIN stored] = run[Len(stored)]
  <2>1. FoldedTo(iter[DOMAIN stored], step, <<>>, stored, A)
    BY <1>1, <1>9, FoldSteps
  <2> QED  BY <2>1 DEF FoldedTo
<1>11. \A n \in 1 .. Len(stored) : run[n - 1] \in A /\ stored[n] \in MappingOf
  BY <1>10
<1>12. \A n \in 1 .. Len(stored) : run[n] = Kept(run[n - 1], stored[n])
  BY <1>2, <1>10, <1>11 DEF IsRun
<1> QED  BY <1>7, <1>10, <1>12 DEF A, IsRun

\* It keeps one mapping for each matcher.
LEMMA StoredOnes ==
  ASSUME NEW stored \in Seq(MappingOf)
  PROVE  FromStoredMappings(stored) \in Seq(MappingOf) /\ OneEach(FromStoredMappings(stored))
<1>1. PICK run \in [0 .. Len(stored) -> Seq(MappingOf)] :
           /\ run[0] = <<>>
           /\ \A n \in 1 .. Len(stored) : run[n] = Kept(run[n - 1], stored[n])
           /\ FromStoredMappings(stored) = run[Len(stored)]
  BY StoredRuns
<1> DEFINE Good == { n \in 0 .. Len(stored) : OneEach(run[n]) }
<1>2. 0 \in Good
  BY <1>1 DEF OneEach
<1>3. ASSUME NEW n \in 0 .. Len(stored) - 1, OneEach(run[n])
      PROVE  OneEach(run[n + 1])
  <2>1. n + 1 \in 1 .. Len(stored) /\ (n + 1) - 1 = n
    OBVIOUS
  <2>2. run[n + 1] = Kept(run[n], stored[n + 1])
    BY <1>1, <2>1
  <2>3. run[n] \in Seq(MappingOf) /\ stored[n + 1] \in MappingOf
    BY <2>1
  <2> QED  BY <1>3, <2>2, <2>3 DEF Kept, OneEach
<1>4. 0 .. Len(stored) \subseteq Good
  <2>1. \A n \in 0 .. Len(stored) - 1 : n \in Good => n + 1 \in Good
    BY <1>3
  <2>2. Len(stored) \in Nat
    OBVIOUS
  <2> HIDE DEF Good
  <2> QED  BY <1>2, <2>1, <2>2, Climbs
<1> QED  BY <1>1, <1>4

\* What has one mapping for each matcher is read back as it is.
LEMMA StoredAgain ==
  ASSUME NEW ms \in Seq(MappingOf), OneEach(ms)
  PROVE  FromStoredMappings(ms) = ms
<1>1. PICK run \in [0 .. Len(ms) -> Seq(MappingOf)] :
           /\ run[0] = <<>>
           /\ \A n \in 1 .. Len(ms) : run[n] = Kept(run[n - 1], ms[n])
           /\ FromStoredMappings(ms) = run[Len(ms)]
  BY StoredRuns
<1> DEFINE Good == { n \in 0 .. Len(ms) : run[n] = SubSeq(ms, 1, n) }
<1>2. 0 \in Good
  <2>1. SubSeq(ms, 1, 0) = <<>> /\ 0 \in 0 .. Len(ms)
    OBVIOUS
  <2> QED  BY <1>1, <2>1
<1>3. ASSUME NEW n \in 0 .. Len(ms) - 1, run[n] = SubSeq(ms, 1, n)
      PROVE  run[n + 1] = SubSeq(ms, 1, n + 1)
  <2>1. n + 1 \in 1 .. Len(ms) /\ (n + 1) - 1 = n
    OBVIOUS
  <2>2. run[n + 1] = Kept(SubSeq(ms, 1, n), ms[n + 1])
    BY <1>1, <1>3, <2>1
  <2>3. ~ \E i \in DOMAIN SubSeq(ms, 1, n) : SubSeq(ms, 1, n)[i].matcher = ms[n + 1].matcher
    BY <2>1 DEF OneEach
  <2>4. Append(SubSeq(ms, 1, n), ms[n + 1]) = SubSeq(ms, 1, n + 1)
    BY <2>1
  <2> QED  BY <2>2, <2>3, <2>4 DEF Kept
<1>4. 0 .. Len(ms) \subseteq Good
  <2>1. \A n \in 0 .. Len(ms) - 1 : n \in Good => n + 1 \in Good
    BY <1>3
  <2>2. Len(ms) \in Nat
    OBVIOUS
  <2> HIDE DEF Good
  <2> QED  BY <1>2, <2>1, <2>2, Climbs
<1>5. SubSeq(ms, 1, Len(ms)) = ms /\ Len(ms) \in 0 .. Len(ms)
  OBVIOUS
<1> QED  BY <1>1, <1>4, <1>5
-----------------------------------------------------------------------------
(* The candidates                                                            *)

Apps      == Tabs \cup Fronts
SignalSet == { Signals(f, h) : f \in Fronts, h \in Hosts }

\* The candidates that somebody holds: the latest one, those that recordings are
\* about to store, and those that the windows show.
IsHeld(c) == \/ c = latest
             \/ \E r \in Recorders : c = snapshot[r].candidate
             \/ \E w \in Windows : c = saver[w].shown

\* The generation tells candidates apart.
Consistent ==
  /\ \A c, d : IsHeld(c) /\ IsHeld(d) /\ c.gen = d.gen => c = d
  /\ \A c : IsHeld(c) => c.gen \in 0 .. generation

CandidateSet == [gen : Nat \ {0}, matcher : Apps] \cup {NoCandidate}

Typed ==
  /\ generation \in Nat
  /\ latest \in CandidateSet
  /\ snapshot \in [Recorders -> [pc : {"idle", "store"}, candidate : CandidateSet, stale : BOOLEAN]]
  /\ saver \in [Windows -> [pc : {"shows", "save", "clear"}, shown : CandidateSet,
                            taken : Apps \cup {NoMatcher}]]
  /\ front \in Fronts /\ tab \in Tabs

\* A context has no other mapping than one of the application that it is for.
ContextSet == [profile : {"mail", "editor", "mapped", "general.browser", "general.native"},
               user : Apps \cup {NoMatcher}, scene : {NoScene, "s1"},
               guard : Fronts, candidate : Apps \cup {NoMatcher}]

IsOwn(c) ==
  /\ c \in ContextSet
  /\ c.user # NoMatcher => \E h \in Hosts : c.user \in ToSet(MatchersOf(Signals(c.guard, h)))
  /\ c.scene # NoScene => c.user # NoMatcher

WatcherSees ==
  /\ watcher \in [pc : {"waits", "app", "tab", "resolve", "candidate", "write"},
                  signals : SignalSet, found : ContextSet]
  /\ IsOwn(watcher.found) /\ IsOwn(cached)

\* What a window saves is what it shows.
SavesTheShown ==
  \A w \in Windows : saver[w].pc # "shows" =>
    saver[w].shown # NoCandidate /\ saver[w].taken = saver[w].shown.matcher

MapsKept ==
  /\ mappings \in Seq(MappingOf) /\ OneEach(mappings)
  /\ FromStoredMappings(mapDisk) = mappings

DetectorInv == Typed /\ Consistent /\ WatcherSees /\ SavesTheShown /\ MapsKept

-----------------------------------------------------------------------------
(* What the thread resolves                                                  *)

\* The matchers of a look: the host, unless the tab is blank, before the application.
LEMMA MatchersAre ==
  ASSUME NEW s \in SignalSet
  PROVE  /\ s.front \in Fronts /\ s.host \in Hosts
         /\ s = Signals(s.front, s.host)
         /\ s.host = "blank" => MatchersOf(s) = <<s.front>>
         /\ s.host # "blank" => MatchersOf(s) = <<s.host, s.front>>
<1>1. PICK f \in Fronts, h \in Hosts : s = Signals(f, h)
  BY DEF SignalSet
<1>2. s.front = f /\ s.host = (IF f = "browser" THEN h ELSE "blank")
  BY <1>1 DEF Signals
<1>3. "blank" \in Hosts
  BY DEF Hosts
<1>4. s = Signals(s.front, s.host)
  BY <1>1, <1>2 DEF Signals
<1> QED  BY <1>2, <1>3, <1>4 DEF MatchersOf

\* A mapping that matches is one of the matchers of what was seen.
LEMMA FoundMatches ==
  ASSUME NEW s \in SignalSet, NEW ms, FindMatch(ms, s) # NoMatcher
  PROVE  /\ FindMatch(ms, s) \in ToSet(MatchersOf(s))
         /\ EnabledFor(ms, FindMatch(ms, s)) # {}
<1> DEFINE hits == { i \in DOMAIN MatchersOf(s) : EnabledFor(ms, MatchersOf(s)[i]) # {} }
<1>1. hits # {} /\ FindMatch(ms, s) = MatchersOf(s)[Min(hits)]
  BY DEF FindMatch
<1>2. DOMAIN MatchersOf(s) \subseteq {1, 2}
  BY MatchersAre
<1>3. Min(hits) \in hits
  <2>1. hits \subseteq {1, 2}
    BY <1>2
  <2> HIDE DEF hits
  <2>2. \E x \in hits : \A y \in hits : x <= y
    <3>1. CASE 1 \in hits
      BY <2>1, <3>1
    <3>2. CASE 1 \notin hits
      <4>1. hits = {2}
        BY <1>1, <2>1, <3>2
      <4> QED  BY <4>1
    <3> QED  BY <3>1, <3>2
  <2> QED  BY <2>2 DEF Min
<1> QED  BY <1>1, <1>3 DEF ToSet

\* What is resolved is for the application whose signals were read.
LEMMA ResolvedOwn ==
  ASSUME NEW s \in SignalSet, NEW ms \in Seq(MappingOf), NEW r, r = ResolveProfile(ms, s)
  PROVE  IsOwn([profile |-> r.profile, user |-> r.user, scene |-> r.scene,
                guard |-> GuardOf(s), candidate |-> CandidateOf(s)])
<1> DEFINE m == FindMatch(ms, s)
           c == [profile |-> r.profile, user |-> r.user, scene |-> r.scene,
                 guard |-> GuardOf(s), candidate |-> CandidateOf(s)]
<1>1. r.profile = (IF m = NoMatcher THEN Classify(s) ELSE "mapped") /\ r.user = m
      /\ r.scene = SceneOf(ms, m)
  BY DEF ResolveProfile
<1>2. m # NoMatcher => /\ m \in ToSet(MatchersOf(s)) /\ EnabledFor(ms, m) # {}
  BY FoundMatches
<1>3. \A x \in ToSet(MatchersOf(s)) : x \in Apps
  BY MatchersAre DEF ToSet, Apps, Hosts
<1>4. r.scene \in {NoScene, "s1"} /\ (r.scene # NoScene => m # NoMatcher)
  <2>1. CASE m = NoMatcher
    BY <1>1, <2>1 DEF SceneOf
  <2>2. CASE m # NoMatcher
    <3> DEFINE i == CHOOSE i \in EnabledFor(ms, m) : TRUE
    <3>1. i \in EnabledFor(ms, m)
      BY <1>2, <2>2
    <3>2. i \in DOMAIN ms
      BY <3>1 DEF EnabledFor
    <3>3. ms[i] \in MappingOf
      BY <3>2
    <3> QED  BY <1>1, <2>2, <3>3 DEF SceneOf, MappingOf
  <2> QED  BY <2>1, <2>2
<1>5. c.profile \in {"mail", "editor", "mapped", "general.browser", "general.native"}
  BY <1>1 DEF Classify
<1>6. c.guard \in Fronts /\ c.guard = s.front /\ c.candidate \in Apps \cup {NoMatcher}
  BY MatchersAre DEF GuardOf, CandidateOf, Apps, Hosts
<1>7. c.user \in Apps \cup {NoMatcher}
  BY <1>1, <1>2, <1>3
<1>8. c.user # NoMatcher => c.user \in ToSet(MatchersOf(Signals(c.guard, s.host))) /\ s.host \in Hosts
  BY <1>1, <1>2, <1>6, MatchersAre
<1> QED  BY <1>1, <1>4, <1>5, <1>6, <1>7, <1>8 DEF IsOwn, ContextSet

\* Only the thread changes what it has seen and the cache.
LEMMA WatchesOnly ==
  ASSUME [DetectorNext]_detectorVars
  PROVE  Watches \/ UNCHANGED <<watcher, cached>>
<1>1. CASE FocusMoves
  BY <1>1, Zenon DEF FocusMoves
<1>2. CASE CacheAges
  BY <1>2, Zenon DEF CacheAges
<1>3. CASE \E r \in Recorders : SnapshotReads(r) \/ SnapshotStores(r)
  BY <1>3, Zenon DEF SnapshotReads, SnapshotStores
<1>4. CASE \E w \in Windows : WindowShows(w) \/ SaveTakes(w) \/ SaveAdds(w) \/ SaveEnds(w)
  BY <1>4, Zenon DEF WindowShows, SaveTakes, SaveAdds, SaveEnds
<1>5. CASE MappingChanges
  BY <1>5, Zenon DEF MappingChanges
<1>6. CASE UNCHANGED detectorVars
  BY <1>6 DEF detectorVars
<1> QED  BY <1>1, <1>2, <1>3, <1>4, <1>5, <1>6, Zenon DEF DetectorNext

\* What the thread has seen and resolved is for one application, after each step.
LEMMA SeesStep ==
  ASSUME DetectorInv, [DetectorNext]_detectorVars
  PROVE  WatcherSees'
<1> USE DEF DetectorInv
<1>1. CASE WatcherWakes
  BY <1>1 DEF WatcherWakes, WatcherGoes, WatcherSees
<1>2. CASE WatcherSeesApp
  <2>1. front \in Fronts /\ "blank" \in Hosts
    BY DEF Typed, Hosts
  <2>2. Signals(front, "blank") \in SignalSet
    BY <2>1 DEF SignalSet
  <2>3. IsOwn(NoContext)
    BY DEF IsOwn, ContextSet, NoContext, Fronts, Apps
  <2> QED  BY <1>2, <2>2, <2>3 DEF WatcherSeesApp, WatcherSees, IsOwn
<1>3. CASE WatcherSeesTab
  <2>1. PICK readable \in BOOLEAN :
          watcher' = [watcher EXCEPT !.pc = "resolve",
                       !.signals = Signals(watcher.signals.front, IF readable THEN tab ELSE "blank")]
    BY <1>3, Zenon DEF WatcherSeesTab
  <2>2. watcher.signals.front \in Fronts /\ (IF readable THEN tab ELSE "blank") \in Hosts
    BY MatchersAre DEF WatcherSees, Typed, Hosts
  <2>3. Signals(watcher.signals.front, IF readable THEN tab ELSE "blank") \in SignalSet
    BY <2>2 DEF SignalSet
  <2> QED  BY <1>3, <2>1, <2>3 DEF WatcherSeesTab, WatcherSees
<1>4. CASE WatcherResolves
  <2> DEFINE r == ResolveProfile(mappings, watcher.signals)
             c == [profile |-> r.profile, user |-> r.user, scene |-> r.scene,
                   guard |-> GuardOf(watcher.signals), candidate |-> CandidateOf(watcher.signals)]
  <2>1. watcher' = [watcher EXCEPT !.pc = "candidate", !.found = c] /\ cached' = cached
    BY <1>4 DEF WatcherResolves
  <2>2. IsOwn(c)
    BY ResolvedOwn DEF WatcherSees, MapsKept
  <2> HIDE DEF c
  <2> QED  BY <2>1, <2>2 DEF WatcherSees, IsOwn
<1>5. CASE WatcherFilters
  <2>1. PICK x \in {watcher.found.candidate, NoMatcher} :
          watcher' = [watcher EXCEPT !.pc = "write", !.found.candidate = x]
    BY <1>5 DEF WatcherFilters
  <2>2. watcher'.signals = watcher.signals /\ watcher'.found = [watcher.found EXCEPT !.candidate = x]
    BY <2>1 DEF WatcherSees
  <2>3. IsOwn([watcher.found EXCEPT !.candidate = x])
    BY DEF WatcherSees, IsOwn, ContextSet
  <2> QED  BY <1>5, <2>2, <2>3 DEF WatcherFilters, WatcherSees, IsOwn
<1>6. CASE WatcherWrites
  <2>1. IsOwn(NoContext)
    BY DEF IsOwn, ContextSet, NoContext, Fronts, Apps
  <2>2. Signals("nothing", "blank") \in SignalSet
    BY DEF SignalSet, Fronts, Hosts
  <2> QED  BY <1>6, <2>1, <2>2 DEF WatcherWrites, AtRest, WatcherSees, IsOwn
<1>7. CASE UNCHANGED <<watcher, cached>>
  BY <1>7 DEF WatcherSees
<1> QED  BY <1>1, <1>2, <1>3, <1>4, <1>5, <1>6, <1>7, WatchesOnly DEF Watches

-----------------------------------------------------------------------------
(* What is held                                                              *)

SnapshotSet == [pc : {"idle", "store"}, candidate : CandidateSet, stale : BOOLEAN]
SaverSet    == [pc : {"shows", "save", "clear"}, shown : CandidateSet, taken : Apps \cup {NoMatcher}]

\* Nothing new is held but the candidate of a new generation.
Holds(new) == \A c : IsHeld(c)' => IsHeld(c) \/ c = NoCandidate \/ c = new

NewCandidate == [gen |-> generation + 1, matcher |-> cached.candidate]

\* Every action keeps the types, and says what is held after it.
HeldOn ==
  /\ Typed'
  /\ generation' \in {generation, generation + 1}
  /\ Holds(NoCandidate) \/ (Holds(NewCandidate) /\ generation' = generation + 1)

LEMMA HeldStep ==
  ASSUME DetectorInv, [DetectorNext]_detectorVars
  PROVE  HeldOn
<1> USE DEF DetectorInv, HeldOn, Typed, Holds, IsHeld
<1>1. NoCandidate \in CandidateSet
  BY DEF CandidateSet
<1>2. Closed \in SaverSet /\ Closed.shown = NoCandidate
  BY <1>1 DEF Closed, SaverSet
<1>3. NoSnapshot \in SnapshotSet /\ NoSnapshot.candidate = NoCandidate
  BY <1>1 DEF NoSnapshot, SnapshotSet
<1>4. CASE FocusMoves
  BY <1>4 DEF FocusMoves, snapVars
<1>5. CASE CacheAges
  BY <1>5 DEF CacheAges, snapVars, userVars
<1>6. CASE Watches
  <2>1. UNCHANGED <<front, tab, generation, latest, snapshot, saver>>
    <3>1. UNCHANGED <<userVars, snapVars, saver>>
      BY <1>6, Zenon DEF Watches, WatcherWakes, WatcherSeesApp, WatcherSeesTab, WatcherResolves,
                         WatcherFilters, WatcherWrites
    <3> QED  BY <3>1 DEF userVars, snapVars
  <2> QED  BY <2>1
<1>7. ASSUME NEW r \in Recorders, SnapshotReads(r)
      PROVE  HeldOn
  <2> DEFINE c == IF fresh /\ cached.candidate # NoMatcher THEN NewCandidate ELSE NoCandidate
  <2>1. c \in CandidateSet
    BY <1>1 DEF CandidateSet, NewCandidate, WatcherSees, IsOwn, ContextSet
  <2>2. snapshot' = [snapshot EXCEPT ![r] = [pc |-> "store", stale |-> ~fresh, candidate |-> c]]
    BY <1>7 DEF SnapshotReads, NewCandidate
  <2>3. generation' = generation + 1 /\ latest' = latest /\ saver' = saver
        /\ front' = front /\ tab' = tab
    BY <1>7 DEF SnapshotReads, userVars
  <2> HIDE DEF c
  <2>4. \A q \in Recorders : snapshot'[q] = (IF q = r THEN [pc |-> "store", stale |-> ~fresh, candidate |-> c]
                                          ELSE snapshot[q])
    BY <2>2
  <2>5. snapshot' \in [Recorders -> SnapshotSet]
    BY <2>1, <2>2 DEF SnapshotSet
  <2>6. Holds(NewCandidate)
    BY <2>3, <2>4 DEF c
  <2> QED  BY <2>3, <2>5, <2>6 DEF SnapshotSet
<1>8. ASSUME NEW r \in Recorders, SnapshotStores(r)
      PROVE  HeldOn
  <2>1. latest' = snapshot[r].candidate /\ snapshot' = [snapshot EXCEPT ![r] = NoSnapshot]
        /\ generation' = generation /\ saver' = saver /\ front' = front /\ tab' = tab
    BY <1>8 DEF SnapshotStores, userVars
  <2>2. snapshot' \in [Recorders -> SnapshotSet] /\ latest' \in CandidateSet
    BY <1>3, <2>1 DEF SnapshotSet
  <2>3. Holds(NoCandidate)
    BY <1>3, <2>1
  <2> QED  BY <2>1, <2>2, <2>3 DEF SnapshotSet
<1>9. ASSUME NEW w \in Windows, WindowShows(w) \/ SaveTakes(w) \/ SaveAdds(w) \/ SaveEnds(w)
      PROVE  HeldOn
  <2>1. /\ generation' = generation /\ snapshot' = snapshot /\ front' = front /\ tab' = tab
        /\ latest' \in {latest, NoCandidate}
    BY <1>9 DEF WindowShows, SaveTakes, SaveAdds, SaveEnds, snapVars, userVars
  <2>2. \E x \in SaverSet : /\ saver' = [saver EXCEPT ![w] = x]
                            /\ x.shown \in {saver[w].shown, latest, NoCandidate}
    <3>1. saver[w] \in SaverSet
      BY DEF SaverSet
    <3>2. CASE WindowShows(w)
      <4>1. saver' = [saver EXCEPT ![w] = [saver[w] EXCEPT !.shown = latest]]
        BY <3>2 DEF WindowShows
      <4>2. [saver[w] EXCEPT !.shown = latest] \in SaverSet
        BY <3>1 DEF SaverSet
      <4> QED  BY <3>1, <4>1, <4>2 DEF SaverSet
    <3>3. CASE SaveTakes(w)
      <4> DEFINE c == CandidateFor(saver[w].shown.gen)
                 x == IF c = NoCandidate THEN Closed ELSE [saver[w] EXCEPT !.pc = "save", !.taken = c.matcher]
      <4>1. saver' = [saver EXCEPT ![w] = x]
        BY <3>3 DEF SaveTakes
      <4>2. c \in CandidateSet
        BY <1>1 DEF CandidateFor
      <4>3. c = NoCandidate \/ c.matcher \in Apps
        BY <4>2 DEF CandidateSet
      <4> HIDE DEF c
      <4>4. x \in SaverSet
        BY <1>2, <3>1, <4>3 DEF SaverSet
      <4>5. x.shown \in {saver[w].shown, NoCandidate}
        BY <1>2, <3>1 DEF SaverSet
      <4> QED  BY <4>1, <4>4, <4>5
    <3>4. CASE SaveAdds(w) \/ SaveEnds(w)
      <4>1. PICK x \in {Closed, [saver[w] EXCEPT !.pc = "clear"]} : saver' = [saver EXCEPT ![w] = x]
        BY <3>4 DEF SaveAdds, SaveEnds
      <4>2. x \in SaverSet /\ x.shown \in {saver[w].shown, NoCandidate}
        BY <1>2, <3>1 DEF SaverSet
      <4> QED  BY <4>1, <4>2
    <3> QED  BY <1>9, <3>2, <3>3, <3>4
  <2>3. PICK x \in SaverSet : /\ saver' = [saver EXCEPT ![w] = x]
                              /\ x.shown \in {saver[w].shown, latest, NoCandidate}
    BY <2>2
  <2>4. saver' \in [Windows -> SaverSet]
    BY <2>3 DEF SaverSet
  <2>5. latest' \in CandidateSet
    BY <1>1, <2>1
  <2>6. Holds(NoCandidate)
    BY <2>1, <2>3
  <2> QED  BY <2>1, <2>4, <2>5, <2>6 DEF SaverSet
<1>10. CASE MappingChanges
  BY <1>10 DEF MappingChanges, snapVars, userVars
<1>11. CASE UNCHANGED detectorVars
  BY <1>11 DEF detectorVars
<1> QED
  <2> HIDE DEF HeldOn
  <2> QED  BY <1>4, <1>5, <1>6, <1>7, <1>8, <1>9, <1>10, <1>11, Zenon DEF DetectorNext

LEMMA ConsistentStep ==
  ASSUME DetectorInv, HeldOn
  PROVE  Consistent'
<1>1. \A c : IsHeld(c) => c \in CandidateSet
  BY DEF DetectorInv, Typed, IsHeld
<1>2. \A c \in CandidateSet : c.gen \in Nat /\ (c.gen = 0 => c = NoCandidate)
  BY DEF CandidateSet, NoCandidate
<1>3. NoCandidate.gen = 0 /\ NewCandidate.gen = generation + 1
  BY DEF NoCandidate, NewCandidate
<1>4. generation \in Nat
  BY DEF DetectorInv, Typed
<1>5. \A c : IsHeld(c) => c.gen \in 0 .. generation
  BY DEF DetectorInv, Consistent
<1>6. \A c, d : IsHeld(c) /\ IsHeld(d) /\ c.gen = d.gen => c = d
  BY DEF DetectorInv, Consistent
<1>7. CASE Holds(NoCandidate)
  <2>1. \A c : IsHeld(c)' => IsHeld(c) \/ c = NoCandidate
    BY <1>7 DEF Holds
  <2>2. \A c, d : IsHeld(c)' /\ IsHeld(d)' /\ c.gen = d.gen => c = d
    BY <1>1, <1>2, <1>3, <1>6, <2>1
  <2>3. \A c : IsHeld(c)' => c.gen \in 0 .. generation'
    BY <1>3, <1>4, <1>5, <2>1 DEF HeldOn
  <2> QED  BY <2>2, <2>3 DEF Consistent
<1>8. CASE Holds(NewCandidate) /\ generation' = generation + 1
  <2>1. \A c : IsHeld(c)' => IsHeld(c) \/ c = NoCandidate \/ c = NewCandidate
    BY <1>8 DEF Holds
  <2>2. \A c : IsHeld(c) => c.gen # generation + 1
    BY <1>4, <1>5
  <2>3. \A c, d : IsHeld(c)' /\ IsHeld(d)' /\ c.gen = d.gen => c = d
    BY <1>1, <1>2, <1>3, <1>4, <1>6, <2>1, <2>2
  <2>4. \A c : IsHeld(c)' => c.gen \in 0 .. generation'
    BY <1>3, <1>4, <1>5, <1>8, <2>1
  <2> QED  BY <2>3, <2>4 DEF Consistent
<1> QED  BY <1>7, <1>8 DEF HeldOn

\* A window takes the candidate that it shows, or none.
LEMMA ShownStep ==
  ASSUME DetectorInv, [DetectorNext]_detectorVars
  PROVE  SavesTheShown'
<1> USE DEF SavesTheShown
<1>1. saver \in [Windows -> SaverSet] /\ SavesTheShown
  BY DEF DetectorInv, Typed, SaverSet
<1>2. Closed.pc = "shows"
  BY DEF Closed
<1>3. ASSUME NEW w \in Windows, WindowShows(w)
      PROVE  SavesTheShown'
  <2>1. saver[w].pc = "shows" /\ saver' = [saver EXCEPT ![w] = [saver[w] EXCEPT !.shown = latest]]
    BY <1>3 DEF WindowShows
  <2>2. saver[w] \in SaverSet
    BY <1>1
  <2>3. [saver[w] EXCEPT !.shown = latest].pc = "shows"
    BY <2>1, <2>2 DEF SaverSet
  <2> QED  BY <1>1, <2>1, <2>3
<1>4. ASSUME NEW w \in Windows, SaveTakes(w)
      PROVE  SavesTheShown'
  <2> DEFINE c == CandidateFor(saver[w].shown.gen)
             x == IF c = NoCandidate THEN Closed ELSE [saver[w] EXCEPT !.pc = "save", !.taken = c.matcher]
  <2>1. saver' = [saver EXCEPT ![w] = x] /\ saver[w].shown # NoCandidate
    BY <1>4 DEF SaveTakes
  <2>2. c # NoCandidate => c = saver[w].shown
    <3>1. c # NoCandidate => c = latest /\ latest.gen = saver[w].shown.gen
      BY DEF CandidateFor
    <3>2. IsHeld(latest) /\ IsHeld(saver[w].shown)
      BY DEF IsHeld
    <3> QED  BY <3>1, <3>2 DEF DetectorInv, Consistent
  <2>3. saver[w] \in SaverSet
    BY <1>1
  <2> HIDE DEF c
  <2>4. x.pc # "shows" => x.shown # NoCandidate /\ x.taken = x.shown.matcher
    BY <1>2, <2>1, <2>2, <2>3 DEF SaverSet
  <2> QED  BY <1>1, <2>1, <2>4
<1>5. ASSUME NEW w \in Windows, SaveAdds(w) \/ SaveEnds(w)
      PROVE  SavesTheShown'
  <2>1. PICK x \in {Closed, [saver[w] EXCEPT !.pc = "clear"]} : saver' = [saver EXCEPT ![w] = x]
    BY <1>5 DEF SaveAdds, SaveEnds
  <2>2. saver[w] \in SaverSet /\ saver[w].pc # "shows"
    BY <1>1, <1>5 DEF SaveAdds, SaveEnds
  <2>3. x.pc # "shows" => x.shown # NoCandidate /\ x.taken = x.shown.matcher
    BY <1>1, <1>2, <2>2 DEF SaverSet
  <2> QED  BY <1>1, <2>1, <2>3
<1>6. CASE UNCHANGED saver
  BY <1>1, <1>6
<1>7. (\E w \in Windows : WindowShows(w) \/ SaveTakes(w) \/ SaveAdds(w) \/ SaveEnds(w)) \/ UNCHANGED saver
  BY Zenon DEF DetectorNext, Watches, WatcherWakes, WatcherSeesApp, WatcherSeesTab, WatcherResolves,
     WatcherFilters, WatcherWrites, FocusMoves, CacheAges, SnapshotReads, SnapshotStores,
     MappingChanges, detectorVars
<1> QED  BY <1>3, <1>4, <1>5, <1>6, <1>7

-----------------------------------------------------------------------------
(* What the commands make of the mappings                                    *)

\* A list without one of its mappings has no twins either.
LEMMA Removed ==
  ASSUME NEW ms \in Seq(MappingOf), OneEach(ms), NEW i \in DOMAIN ms
  PROVE  RemoveAt(ms, i) \in Seq(MappingOf) /\ OneEach(RemoveAt(ms, i))
<1> DEFINE a == SubSeq(ms, 1, i - 1)
           b == SubSeq(ms, i + 1, Len(ms))
           n == Len(ms)
<1>1. n \in Nat /\ i \in 1 .. n
  OBVIOUS
<1>2. a \in Seq(MappingOf) /\ Len(a) = i - 1 /\ \A k \in 1 .. i - 1 : a[k] = ms[k]
  BY <1>1
<1>3. b \in Seq(MappingOf) /\ Len(b) = n - i /\ \A k \in 1 .. n - i : b[k] = ms[i + k]
  BY <1>1
<1>4. RemoveAt(ms, i) = a \o b
  BY DEF RemoveAt
<1> HIDE DEF a, b
<1>5. a \o b \in Seq(MappingOf) /\ Len(a \o b) = n - 1
  BY <1>1, <1>2, <1>3
<1>6. \A k \in 1 .. n - 1 : (a \o b)[k] = ms[IF k < i THEN k ELSE k + 1]
  <2> SUFFICES ASSUME NEW k \in 1 .. n - 1
               PROVE  (a \o b)[k] = ms[IF k < i THEN k ELSE k + 1]
    OBVIOUS
  <2>1. CASE k < i
    BY <1>1, <1>2, <1>3, <2>1
  <2>2. CASE ~(k < i)
    <3> DEFINE l == k - (i - 1)
    <3>1. l \in 1 .. n - i /\ i + l = k + 1
      BY <1>1, <2>2
    <3>2. (a \o b)[k] = b[l]
      BY <1>1, <1>2, <1>3, <2>2
    <3> HIDE DEF l
    <3>3. b[l] = ms[k + 1]
      BY <1>3, <3>1
    <3> QED  BY <2>2, <3>2, <3>3
  <2> QED  BY <2>1, <2>2
<1>7. \A k \in 1 .. n - 1 : (IF k < i THEN k ELSE k + 1) \in DOMAIN ms
  BY <1>1
<1> HIDE DEF n
<1>8. OneEach(a \o b)
  <2>1. DOMAIN (a \o b) = 1 .. n - 1
    BY <1>5
  <2> SUFFICES ASSUME NEW j \in 1 .. n - 1, NEW k \in 1 .. n - 1, (a \o b)[j].matcher = (a \o b)[k].matcher
               PROVE  j = k
    BY <2>1 DEF OneEach
  <2>2. (IF j < i THEN j ELSE j + 1) = (IF k < i THEN k ELSE k + 1)
    BY <1>6, <1>7 DEF OneEach
  <2> QED  BY <1>1, <2>2
<1> QED  BY <1>4, <1>5, <1>8

\* A change is written, or not made.
LEMMA Mutated ==
  ASSUME MapsKept, NEW ms \in Seq(MappingOf), OneEach(ms), Mutate(ms)
  PROVE  MapsKept'
<1>1. CASE mappings' = ms /\ mapDisk' = ms
  BY <1>1, StoredAgain DEF MapsKept
<1>2. CASE UNCHANGED <<mappings, mapDisk>>
  BY <1>2 DEF MapsKept
<1> QED  BY <1>1, <1>2 DEF Mutate

\* The mappings have no twins and are those of the file, after each step.
LEMMA MapsStep ==
  ASSUME DetectorInv, [DetectorNext]_detectorVars
  PROVE  MapsKept'
<1> DEFINE Same == UNCHANGED <<mappings, mapDisk>>
<1>1. mappings \in Seq(MappingOf) /\ OneEach(mappings) /\ MapsKept
  BY DEF DetectorInv, MapsKept
<1>2. ASSUME NEW w \in Windows, SaveAdds(w)
      PROVE  MapsKept'
  <2> DEFINE c == saver[w].taken
             m == [matcher |-> c, scene |-> "s1", enabled |-> TRUE, seen |-> saver[w].shown.matcher]
  <2>1. CASE \E i \in DOMAIN mappings : mappings[i].matcher = c
    <3>1. Same
      BY <1>2, <2>1 DEF SaveAdds
    <3> QED  BY <1>1, <3>1 DEF MapsKept
  <2>2. CASE ~ \E i \in DOMAIN mappings : mappings[i].matcher = c
    <3>1. Mutate(Append(mappings, m))
      BY <1>2, <2>2 DEF SaveAdds
    <3>2. c = saver[w].shown.matcher /\ c \in Apps
      <4>1. saver[w].pc # "shows"
        BY <1>2 DEF SaveAdds
      <4>2. saver[w].shown \in CandidateSet
        BY DEF DetectorInv, Typed
      <4>3. saver[w].shown # NoCandidate /\ c = saver[w].shown.matcher
        BY <4>1 DEF DetectorInv, SavesTheShown
      <4> QED  BY <4>2, <4>3 DEF CandidateSet
    <3>3. m \in MappingOf /\ m.matcher = c
      BY <3>2 DEF MappingOf, Apps
    <3> HIDE DEF c, m
    <3>4. Append(mappings, m) \in Seq(MappingOf)
      BY <1>1, <3>3
    <3>5. OneEach(Append(mappings, m))
      BY <1>1, <2>2, <3>3 DEF OneEach
    <3> QED  BY <1>1, <3>1, <3>4, <3>5, Mutated
  <2> QED  BY <2>1, <2>2
<1>3. CASE MappingChanges
  <2>1. CASE Mutate(<<>>)
    <3>1. <<>> \in Seq(MappingOf) /\ OneEach(<<>>)
      BY DEF OneEach
    <3> QED  BY <1>1, <2>1, <3>1, Mutated
  <2>2. ASSUME NEW i \in DOMAIN mappings, NEW x \in MappingOf, x.matcher = mappings[i].matcher,
               Mutate([mappings EXCEPT ![i] = x])
        PROVE  MapsKept'
    <3>1. [mappings EXCEPT ![i] = x] \in Seq(MappingOf)
      BY <1>1
    <3>2. OneEach([mappings EXCEPT ![i] = x])
      BY <1>1, <2>2 DEF OneEach
    <3> QED  BY <1>1, <2>2, <3>1, <3>2, Mutated
  <2>3. ASSUME NEW i \in DOMAIN mappings, Mutate([mappings EXCEPT ![i].scene = NoScene])
        PROVE  MapsKept'
    <3> DEFINE x == [mappings[i] EXCEPT !.scene = NoScene]
    <3>1. mappings[i] \in MappingOf
      BY <1>1
    <3>2. x \in MappingOf /\ x.matcher = mappings[i].matcher
      BY <3>1 DEF MappingOf
    <3>3. Mutate([mappings EXCEPT ![i] = x])
      BY <2>3
    <3> HIDE DEF x
    <3> QED  BY <2>2, <3>2, <3>3
  <2>4. ASSUME NEW i \in DOMAIN mappings, Mutate([mappings EXCEPT ![i].enabled = ~@])
        PROVE  MapsKept'
    <3> DEFINE x == [mappings[i] EXCEPT !.enabled = ~mappings[i].enabled]
    <3>1. mappings[i] \in MappingOf
      BY <1>1
    <3>2. x \in MappingOf /\ x.matcher = mappings[i].matcher
      BY <3>1 DEF MappingOf
    <3>3. Mutate([mappings EXCEPT ![i] = x])
      BY <2>4
    <3> HIDE DEF x
    <3> QED  BY <2>2, <3>2, <3>3
  <2>5. ASSUME NEW i \in DOMAIN mappings, Mutate(RemoveAt(mappings, i))
        PROVE  MapsKept'
    BY <1>1, <2>5, Removed, Mutated
  <2> QED  BY <1>3, <2>1, <2>3, <2>4, <2>5, Zenon DEF MappingChanges
<1>4. CASE Same
  BY <1>1, <1>4 DEF MapsKept
<1>5. (\E w \in Windows : SaveAdds(w)) \/ MappingChanges \/ Same
  <2>1. CASE Watches
    BY <2>1, Zenon DEF Watches, WatcherWakes, WatcherSeesApp, WatcherSeesTab, WatcherResolves,
       WatcherFilters, WatcherWrites, mapVars
  <2>2. CASE FocusMoves \/ CacheAges
    BY <2>2, Zenon DEF FocusMoves, CacheAges, mapVars
  <2>3. CASE \E r \in Recorders : SnapshotReads(r) \/ SnapshotStores(r)
    BY <2>3, Zenon DEF SnapshotReads, SnapshotStores, mapVars
  <2>4. CASE \E w \in Windows : WindowShows(w) \/ SaveTakes(w) \/ SaveEnds(w)
    BY <2>4, Zenon DEF WindowShows, SaveTakes, SaveEnds, mapVars
  <2>5. CASE UNCHANGED detectorVars
    BY <2>5 DEF detectorVars
  <2> QED  BY <2>1, <2>2, <2>3, <2>4, <2>5, Zenon DEF DetectorNext
<1> QED  BY <1>2, <1>3, <1>4, <1>5

-----------------------------------------------------------------------------
(* The theorems                                                              *)

LEMMA DetectorStart == DetectorInit => DetectorInv
<1> SUFFICES ASSUME DetectorInit PROVE DetectorInv
  OBVIOUS
<1> USE DEF DetectorInit
<1>1. NoCandidate \in CandidateSet /\ NoCandidate.gen = 0
  BY DEF CandidateSet, NoCandidate
<1>2. Typed
  <2>1. latest \in CandidateSet /\ generation = 0 /\ front \in Fronts /\ tab \in Tabs
    BY <1>1 DEF Fronts, Tabs
  <2>2. snapshot \in [Recorders -> [pc : {"idle", "store"}, candidate : CandidateSet, stale : BOOLEAN]]
    BY <1>1 DEF NoSnapshot
  <2>3. saver \in [Windows -> [pc : {"shows", "save", "clear"}, shown : CandidateSet,
                              taken : Apps \cup {NoMatcher}]]
    BY <1>1 DEF Closed
  <2> HIDE DEF DetectorInit
  <2> QED  BY <2>1, <2>2, <2>3 DEF Typed
<1>3. \A c : IsHeld(c) => c = NoCandidate
  BY DEF IsHeld, NoSnapshot, Closed
<1>4. Consistent
  BY <1>1, <1>3 DEF Consistent
<1>5. WatcherSees
  <2>1. IsOwn(NoContext)
    BY DEF IsOwn, ContextSet, NoContext, Fronts, Apps
  <2>2. Signals("nothing", "blank") \in SignalSet
    BY DEF SignalSet, Fronts, Hosts
  <2> QED  BY <2>1, <2>2 DEF AtRest, WatcherSees, IsOwn
<1>6. SavesTheShown
  BY DEF SavesTheShown, Closed
<1>7. MapsKept
  <2>1. mapDisk \in Seq(MappingOf) /\ mappings = FromStoredMappings(mapDisk)
    BY DetectorAssumption
  <2>2. mappings \in Seq(MappingOf) /\ OneEach(mappings)
    BY <2>1, StoredOnes
  <2> QED  BY <2>1, <2>2 DEF MapsKept
<1> QED  BY <1>2, <1>4, <1>5, <1>6, <1>7 DEF DetectorInv

\* Every step keeps the invariant.
LEMMA DetectorKept ==
  ASSUME DetectorInv, [DetectorNext]_detectorVars
  PROVE  DetectorInv'
<1>1. HeldOn
  BY HeldStep
<1>2. Typed'
  BY <1>1 DEF HeldOn
<1>3. Consistent'
  BY <1>1, ConsistentStep
<1> QED  BY <1>2, <1>3, SeesStep, ShownStep, MapsStep DEF DetectorInv

\* It holds throughout.
LEMMA DetectorAlways == DetectorSpec => []DetectorInv
<1>1. DetectorInv /\ [DetectorNext]_detectorVars => DetectorInv'
  BY DetectorKept
<1> QED  BY <1>1, DetectorStart, PTL DEF DetectorSpec

LEMMA NothingOther == DetectorInv => NothingOfAnotherApp
<1> SUFFICES ASSUME DetectorInv PROVE NothingOfAnotherApp
  OBVIOUS
<1>1. MappingIsForWhatWasShown
  <2>1. \A i \in DOMAIN mappings : mappings[i] \in MappingOf
    BY DEF DetectorInv, MapsKept
  <2>2. \A i \in DOMAIN mappings : mappings[i].seen = mappings[i].matcher
    BY <2>1 DEF MappingOf
  <2> QED  BY <2>2 DEF MappingIsForWhatWasShown, DetectorInv, MapsKept, OneEach
<1>2. ASSUME NEW enabled \in BOOLEAN
      PROVE  LET c == SnapshotOf(enabled)
             IN  /\ c.user # NoMatcher => c.user \in UNION { ToSet(MatchersOf(Signals(c.guard, t))) : t \in Tabs }
                 /\ c.scene # NoScene => c.user # NoMatcher
  <2>1. IsOwn(cached)
    BY DEF DetectorInv, WatcherSees
  <2>2. CASE enabled /\ fresh
    <3>1. SnapshotOf(enabled) = cached
      BY <2>2 DEF SnapshotOf
    <3>2. \A h \in Hosts : ToSet(MatchersOf(Signals(cached.guard, h)))
            \subseteq UNION { ToSet(MatchersOf(Signals(cached.guard, t))) : t \in Tabs }
      <4> DEFINE g == cached.guard
      <4> SUFFICES ASSUME NEW h \in Hosts \ Tabs
                   PROVE  ToSet(MatchersOf(Signals(g, h))) \subseteq
                            UNION { ToSet(MatchersOf(Signals(g, t))) : t \in Tabs }
        BY DEF Hosts
      <4>1. h = "blank" /\ "mail" \in Tabs /\ g \in Fronts
        BY <2>1 DEF Hosts, Tabs, IsOwn, ContextSet
      <4> HIDE DEF g
      <4>2. ToSet(MatchersOf(Signals(g, h))) = {g}
        BY <4>1 DEF Signals, MatchersOf, ToSet
      <4>3. g \in ToSet(MatchersOf(Signals(g, "mail")))
        BY DEF Signals, MatchersOf, ToSet
      <4> QED  BY <4>1, <4>2, <4>3
    <3> QED  BY <2>1, <3>1, <3>2 DEF IsOwn
  <2>3. CASE ~(enabled /\ fresh)
    <3>1. SnapshotOf(enabled) = [NoContext EXCEPT !.profile = Fallback(cached.profile), !.guard = cached.guard]
      BY <2>3 DEF SnapshotOf
    <3>2. SnapshotOf(enabled).user = NoMatcher /\ SnapshotOf(enabled).scene = NoScene
      BY <3>1 DEF NoContext
    <3> QED  BY <3>2
  <2> QED  BY <2>2, <2>3
<1>3. ContextIsOfItsApp
  BY <1>2 DEF ContextIsOfItsApp
<1> QED  BY <1>1, <1>3 DEF NothingOfAnotherApp

\* Whatever the bounds on the recordings, the commands and the changes of the
\* focus, and whatever mappings the file holds: what the user saves, and what a
\* recording is given, is for the application that was shown or that is named.
THEOREM NothingOfAnother == DetectorSpec => []NothingOfAnotherApp
BY DetectorAlways, NothingOther, PTL

\* The types of the detector, and those of the channel to its thread.
DetectorTyped == DetectorInv /\ refreshTx \in {"empty", "normal", "focusChanged"}

LEMMA DetectorTypesStart ==
  ASSUME DetectorInit
  PROVE  DetectorTyped
<1>1. DetectorInv
  BY DetectorStart
<1>2. refreshTx = "empty"
  BY DEF DetectorInit
<1> QED  BY <1>1, <1>2 DEF DetectorTyped

\* Nothing else is ever in the channel.
LEMMA DetectorTypesStep ==
  ASSUME DetectorTyped, [DetectorNext]_detectorVars
  PROVE  DetectorTyped'
<1>1. DetectorInv'
  BY DetectorKept DEF DetectorTyped
<1>2. refreshTx' \in {refreshTx, "empty", "normal", "focusChanged"}
  <2>1. CASE UNCHANGED detectorVars
    BY <2>1 DEF detectorVars
  <2>2. CASE FocusMoves \/ CacheAges \/ Watches
    <3>1. refreshTx' = refreshTx \/ refreshTx' = "empty"
      BY <2>2, Zenon DEF FocusMoves, CacheAges, Watches, WatcherWakes, WatcherSeesApp, WatcherSeesTab,
                         WatcherResolves, WatcherFilters, WatcherWrites
    <3> QED  BY <3>1
  <2>3. ASSUME NEW r \in Recorders, SnapshotReads(r) \/ SnapshotStores(r)
        PROVE  refreshTx' \in {refreshTx, "empty", "normal", "focusChanged"}
    BY <2>3 DEF SnapshotReads, SnapshotStores, Notify
  <2>4. ASSUME NEW w \in Windows, WindowShows(w) \/ SaveTakes(w) \/ SaveAdds(w) \/ SaveEnds(w)
        PROVE  refreshTx' \in {refreshTx, "empty", "normal", "focusChanged"}
    <3>1. \/ refreshTx' = refreshTx
          \/ Notify("focusChanged")
      BY <2>4, Zenon DEF WindowShows, SaveTakes, SaveAdds, SaveEnds
    <3> QED  BY <3>1 DEF Notify
  <2>5. CASE MappingChanges
    <3>1. \/ refreshTx' = refreshTx
          \/ Notify("focusChanged")
      BY <2>5, Zenon DEF MappingChanges
    <3> QED  BY <3>1 DEF Notify
  <2> QED  BY <2>1, <2>2, <2>3, <2>4, <2>5, Zenon DEF DetectorNext
<1> QED  BY <1>1, <1>2 DEF DetectorTyped

LEMMA DetectorTypesFollow ==
  ASSUME DetectorTyped
  PROVE  DetectorTypeOK
<1>1. IsHeld(latest)
  BY DEF IsHeld
<1>2. latest.gen \in 0 .. generation
  BY <1>1 DEF DetectorTyped, DetectorInv, Consistent
<1>3. /\ watcher.pc \in {"waits", "app", "tab", "resolve", "candidate", "write"}
      /\ cached \in ContextSet
  BY DEF DetectorTyped, DetectorInv, WatcherSees, IsOwn
<1> QED  BY <1>2, <1>3 DEF DetectorTyped, DetectorTypeOK, ContextSet, Apps

\* Every value that the detector keeps is one of its type.
THEOREM DetectorTypes == DetectorSpec => []DetectorTypeOK
<1>1. DetectorInit => DetectorTyped
  BY DetectorTypesStart
<1>2. DetectorTyped /\ [DetectorNext]_detectorVars => DetectorTyped'
  BY DetectorTypesStep
<1>3. DetectorTyped => DetectorTypeOK
  BY DetectorTypesFollow
<1> QED  BY <1>1, <1>2, <1>3, PTL DEF DetectorSpec

-----------------------------------------------------------------------------
(* Library: the members of a sequence that are in a set                      *)

AmongStep(acc, x, S) == IF x \in S THEN Append(acc, x) ELSE acc

Picks(run, seq, S) ==
  /\ run[0] = <<>>
  /\ \A n \in 1 .. Len(seq) : run[n] = AmongStep(run[n - 1], seq[n], S)
  /\ Among(seq, S) = run[Len(seq)]

\* The members of a sequence that are in a set, picked one after the other.
LEMMA AmongRuns ==
  ASSUME NEW E, NEW seq \in Seq(E), NEW S
  PROVE  \E run \in [0 .. Len(seq) -> Seq(E)] : Picks(run, seq, S)
<1> DEFINE A    == Seq(E)
           step == [p \in A \X E |-> AmongStep(p[1], p[2], S)]
           iter == CHOOSE f : f = [s \in SUBSET DOMAIN seq |->
                     IF s = {} THEN <<>> ELSE AmongStep(f[s \ {Max(s)}], seq[Max(s)], S)]
<1>1. step \in [A \X E -> A] /\ <<>> \in A
  <2>1. \A a \in A, x \in E : AmongStep(a, x, S) \in A
    BY DEF AmongStep
  <2> QED  BY <2>1
<1>2. \A a \in A, x \in E : step[<<a, x>>] = AmongStep(a, x, S)
  OBVIOUS
<1>3. Among(seq, S) = iter[DOMAIN seq]
  BY DEF Among, FoldLeft, MapThenFoldSet, AmongStep
<1> HIDE DEF step, A
<1>4. \A s \in SUBSET DOMAIN seq : s # {} => seq[Max(s)] \in E
  <2>1. DOMAIN seq = 1 .. Len(seq) /\ Len(seq) \in Nat
    OBVIOUS
  <2>2. \A i \in DOMAIN seq : seq[i] \in E
    OBVIOUS
  <2>3. \A s \in SUBSET (1 .. Len(seq)) : s # {} => Max(s) \in s
    BY <2>1, MaxIn
  <2> QED  BY <2>1, <2>2, <2>3
<1>5. PICK f \in [SUBSET DOMAIN seq -> A] : IsFold(f, step, <<>>, seq, DOMAIN seq)
  BY <1>1, FoldExists
<1>6. f = [s \in SUBSET DOMAIN seq |-> IF s = {} THEN <<>> ELSE AmongStep(f[s \ {Max(s)}], seq[Max(s)], S)]
  <2>1. \A s \in SUBSET DOMAIN seq : s # {} =>
          step[<<f[s \ {Max(s)}], seq[Max(s)]>>] = AmongStep(f[s \ {Max(s)}], seq[Max(s)], S)
    BY <1>2, <1>4
  <2> QED  BY <1>5, <2>1 DEF IsFold
<1>7. iter = [s \in SUBSET DOMAIN seq |->
                IF s = {} THEN <<>> ELSE AmongStep(iter[s \ {Max(s)}], seq[Max(s)], S)]
  <2>1. \E g : g = [s \in SUBSET DOMAIN seq |->
                     IF s = {} THEN <<>> ELSE AmongStep(g[s \ {Max(s)}], seq[Max(s)], S)]
    BY <1>6, Zenon
  <2> QED  BY <2>1, Zenon
<1> HIDE DEF iter
<1>8. IsFolding(iter, step, <<>>, seq, A)
  <2>1. iter[{}] = <<>>
    BY <1>7
  <2> QED  BY <1>2, <1>4, <1>7, <2>1 DEF IsFolding
<1>9. PICK run \in [0 .. Len(seq) -> A] : IsRun(run, step, <<>>, seq) /\ iter[DOMAIN seq] = run[Len(seq)]
  <2>1. FoldedTo(iter[DOMAIN seq], step, <<>>, seq, A)
    BY <1>1, <1>8, FoldSteps
  <2> QED  BY <2>1 DEF FoldedTo
<1>10. ASSUME NEW n \in 1 .. Len(seq)
       PROVE  run[n] = AmongStep(run[n - 1], seq[n], S)
  <2>1. run[n - 1] \in A /\ seq[n] \in E
    BY <1>9
  <2> QED  BY <1>2, <1>9, <2>1 DEF IsRun
<1>11. run[0] = <<>>
  BY <1>9 DEF IsRun
<1> QED  BY <1>3, <1>9, <1>10, <1>11 DEF A, Picks

\* What is among the members that are picked, and how many they are.
LEMMA AmongIs ==
  ASSUME NEW E, NEW seq \in Seq(E), NEW S
  PROVE  /\ Among(seq, S) \in Seq(E \cap S)
         /\ Len(Among(seq, S)) <= Len(seq)
         /\ seq # <<>> /\ Last(seq) \in S => Among(seq, S) # <<>> /\ Last(Among(seq, S)) = Last(seq)
<1>0. PICK run \in [0 .. Len(seq) -> Seq(E)] : Picks(run, seq, S)
  BY AmongRuns
<1>1. /\ run \in [0 .. Len(seq) -> Seq(E)] /\ run[0] = <<>>
      /\ \A n \in 1 .. Len(seq) : run[n] = AmongStep(run[n - 1], seq[n], S)
      /\ Among(seq, S) = run[Len(seq)]
  BY <1>0 DEF Picks
<1> DEFINE Good == { n \in 0 .. Len(seq) : run[n] \in Seq(E \cap S) /\ Len(run[n]) <= n }
<1>2. Len(seq) \in Nat
  OBVIOUS
<1>3. 0 \in Good
  BY <1>1, <1>2
<1>4. ASSUME NEW n \in 0 .. Len(seq) - 1, n \in Good
      PROVE  n + 1 \in Good
  <2>1. n + 1 \in 1 .. Len(seq) /\ (n + 1) - 1 = n /\ n + 1 \in 0 .. Len(seq)
    BY <1>2
  <2>2. run[n + 1] = AmongStep(run[n], seq[n + 1], S) /\ seq[n + 1] \in E
    BY <1>1, <2>1
  <2>3. run[n] \in Seq(E \cap S) /\ Len(run[n]) <= n
    BY <1>4
  <2>4. CASE seq[n + 1] \in S
    <3>1. run[n + 1] = Append(run[n], seq[n + 1])
      BY <2>2, <2>4 DEF AmongStep
    <3>2. run[n + 1] \in Seq(E \cap S) /\ Len(run[n + 1]) = Len(run[n]) + 1
      BY <2>2, <2>3, <2>4, <3>1
    <3> QED  BY <2>1, <2>3, <3>2
  <2>5. CASE seq[n + 1] \notin S
    <3>1. run[n + 1] = run[n]
      BY <2>2, <2>5 DEF AmongStep
    <3> QED  BY <2>1, <2>3, <3>1
  <2> QED  BY <2>4, <2>5
<1>5. Len(seq) \in Good
  <2>1. \A n \in 0 .. Len(seq) - 1 : n \in Good => n + 1 \in Good
    BY <1>4
  <2> HIDE DEF Good
  <2>2. 0 .. Len(seq) \subseteq Good
    BY <1>2, <1>3, <2>1, Climbs
  <2> QED  BY <1>2, <2>2
<1>6. ASSUME seq # <<>>, Last(seq) \in S
      PROVE  Among(seq, S) # <<>> /\ Last(Among(seq, S)) = Last(seq)
  <2>1. Len(seq) \in 1 .. Len(seq) /\ Len(seq) - 1 \in 0 .. Len(seq)
    BY <1>2, <1>6
  <2>2. run[Len(seq)] = Append(run[Len(seq) - 1], Last(seq))
    BY <1>1, <1>6, <2>1 DEF AmongStep, Last
  <2>3. run[Len(seq) - 1] \in Seq(E) /\ Last(seq) \in E
    BY <1>1, <2>1 DEF Last
  <2>4. \A a \in Seq(E), x \in E : Append(a, x) # <<>> /\ Append(a, x)[Len(Append(a, x))] = x
    OBVIOUS
  <2>5. Among(seq, S) = Append(run[Len(seq) - 1], Last(seq))
    BY <1>1, <2>2
  <2> QED  BY <2>3, <2>4, <2>5 DEF Last
<1> QED  BY <1>1, <1>5, <1>6

\* Two sets with no member in common pick no more than there is.
LEMMA AmongTwo ==
  ASSUME NEW E, NEW seq \in Seq(E), NEW S, NEW T, S \cap T = {}
  PROVE  Len(Among(seq, S)) + Len(Among(seq, T)) <= Len(seq)
<1>1. PICK a \in [0 .. Len(seq) -> Seq(E)] : Picks(a, seq, S)
  BY AmongRuns
<1>2. PICK b \in [0 .. Len(seq) -> Seq(E)] : Picks(b, seq, T)
  BY AmongRuns
<1> DEFINE Good == { n \in 0 .. Len(seq) : Len(a[n]) + Len(b[n]) <= n }
<1>3. Len(seq) \in Nat
  OBVIOUS
<1>4. 0 \in Good
  BY <1>1, <1>2, <1>3 DEF Picks
<1>5. ASSUME NEW n \in 0 .. Len(seq) - 1, n \in Good
      PROVE  n + 1 \in Good
  <2>1. n + 1 \in 1 .. Len(seq) /\ (n + 1) - 1 = n /\ n + 1 \in 0 .. Len(seq) /\ n \in 0 .. Len(seq)
    BY <1>3
  <2>2. /\ a[n + 1] = AmongStep(a[n], seq[n + 1], S)
        /\ b[n + 1] = AmongStep(b[n], seq[n + 1], T)
    BY <1>1, <1>2, <2>1 DEF Picks
  <2>3. a[n] \in Seq(E) /\ b[n] \in Seq(E) /\ seq[n + 1] \in E
    BY <2>1
  <2>4. \A u \in Seq(E), x \in E : Len(Append(u, x)) = Len(u) + 1 /\ Len(u) \in Nat
    OBVIOUS
  <2>5. Len(a[n + 1]) + Len(b[n + 1]) <= Len(a[n]) + Len(b[n]) + 1
    <3>1. CASE seq[n + 1] \in S
      <4>1. a[n + 1] = Append(a[n], seq[n + 1]) /\ b[n + 1] = b[n]
        BY <2>2, <3>1 DEF AmongStep
      <4> QED  BY <2>3, <2>4, <4>1
    <3>2. CASE seq[n + 1] \notin S
      <4>1. a[n + 1] = a[n] /\ (b[n + 1] = b[n] \/ b[n + 1] = Append(b[n], seq[n + 1]))
        BY <2>2, <3>2 DEF AmongStep
      <4>2. Len(a[n]) \in Nat /\ Len(b[n]) \in Nat /\ Len(Append(b[n], seq[n + 1])) = Len(b[n]) + 1
        BY <2>3, <2>4
      <4>3. CASE b[n + 1] = b[n]
        BY <4>1, <4>2, <4>3
      <4>4. CASE b[n + 1] = Append(b[n], seq[n + 1])
        BY <4>1, <4>2, <4>4
      <4> QED  BY <4>1, <4>3, <4>4
    <3> QED  BY <3>1, <3>2
  <2>6. Len(a[n + 1]) \in Nat /\ Len(b[n + 1]) \in Nat /\ Len(a[n]) \in Nat /\ Len(b[n]) \in Nat
    BY <2>1, <2>4
  <2> QED  BY <1>5, <2>1, <2>5, <2>6
<1>6. Len(seq) \in Good
  <2>1. \A n \in 0 .. Len(seq) - 1 : n \in Good => n + 1 \in Good
    BY <1>5
  <2> HIDE DEF Good
  <2>2. 0 .. Len(seq) \subseteq Good
    BY <1>3, <1>4, <2>1, Climbs
  <2> QED  BY <1>3, <2>2
<1> QED  BY <1>1, <1>2, <1>6 DEF Picks

-----------------------------------------------------------------------------
(* The rows that are new                                                     *)

NewsStep(acc, row) == IF Has(acc, row.text, 0) THEN acc ELSE Append(acc, row)

Gathers(run, list, rows) ==
  /\ run[0] = list
  /\ \A n \in 1 .. Len(rows) : run[n] = NewsStep(run[n - 1], rows[n])
  /\ News(list, rows) = run[Len(rows)]

\* The rows of a restore or an import, added one after the other.
LEMMA NewsRuns ==
  ASSUME NEW E, NEW list \in Seq(E), NEW rows \in Seq(E)
  PROVE  \E run \in [0 .. Len(rows) -> Seq(E)] : Gathers(run, list, rows)
<1> DEFINE A    == Seq(E)
           step == [p \in A \X E |-> NewsStep(p[1], p[2])]
           iter == CHOOSE f : f = [s \in SUBSET DOMAIN rows |->
                     IF s = {} THEN list ELSE NewsStep(f[s \ {Max(s)}], rows[Max(s)])]
<1>1. step \in [A \X E -> A] /\ list \in A
  <2>1. \A a \in A, x \in E : NewsStep(a, x) \in A
    BY DEF NewsStep
  <2> QED  BY <2>1
<1>2. \A a \in A, x \in E : step[<<a, x>>] = NewsStep(a, x)
  OBVIOUS
<1>3. News(list, rows) = iter[DOMAIN rows]
  BY DEF News, FoldLeft, MapThenFoldSet, NewsStep
<1> HIDE DEF step, A
<1>4. \A s \in SUBSET DOMAIN rows : s # {} => rows[Max(s)] \in E
  <2>1. DOMAIN rows = 1 .. Len(rows) /\ Len(rows) \in Nat
    OBVIOUS
  <2>2. \A i \in DOMAIN rows : rows[i] \in E
    OBVIOUS
  <2>3. \A s \in SUBSET (1 .. Len(rows)) : s # {} => Max(s) \in s
    BY <2>1, MaxIn
  <2> QED  BY <2>1, <2>2, <2>3
<1>5. PICK f \in [SUBSET DOMAIN rows -> A] : IsFold(f, step, list, rows, DOMAIN rows)
  BY <1>1, FoldExists
<1>6. f = [s \in SUBSET DOMAIN rows |-> IF s = {} THEN list ELSE NewsStep(f[s \ {Max(s)}], rows[Max(s)])]
  <2>1. \A s \in SUBSET DOMAIN rows : s # {} =>
          step[<<f[s \ {Max(s)}], rows[Max(s)]>>] = NewsStep(f[s \ {Max(s)}], rows[Max(s)])
    BY <1>2, <1>4
  <2> QED  BY <1>5, <2>1 DEF IsFold
<1>7. iter = [s \in SUBSET DOMAIN rows |->
                IF s = {} THEN list ELSE NewsStep(iter[s \ {Max(s)}], rows[Max(s)])]
  <2>1. \E g : g = [s \in SUBSET DOMAIN rows |->
                     IF s = {} THEN list ELSE NewsStep(g[s \ {Max(s)}], rows[Max(s)])]
    BY <1>6, Zenon
  <2> QED  BY <2>1, Zenon
<1> HIDE DEF iter
<1>8. IsFolding(iter, step, list, rows, A)
  <2>1. iter[{}] = list
    BY <1>7
  <2> QED  BY <1>2, <1>4, <1>7, <2>1 DEF IsFolding
<1>9. PICK run \in [0 .. Len(rows) -> A] : IsRun(run, step, list, rows) /\ iter[DOMAIN rows] = run[Len(rows)]
  <2>1. FoldedTo(iter[DOMAIN rows], step, list, rows, A)
    BY <1>1, <1>8, FoldSteps
  <2> QED  BY <2>1 DEF FoldedTo
<1>10. ASSUME NEW n \in 1 .. Len(rows)
       PROVE  run[n] = NewsStep(run[n - 1], rows[n])
  <2>1. run[n - 1] \in A /\ rows[n] \in E
    BY <1>9
  <2> QED  BY <1>2, <1>9, <2>1 DEF IsRun
<1>11. run[0] = list
  BY <1>9 DEF IsRun
<1>12. Gathers(run, list, rows)
  BY <1>3, <1>9, <1>10, <1>11 DEF Gathers
<1> QED  BY <1>9, <1>12 DEF A

\* No two rows of the list have the same identity.
Twinless(list) ==
  \A i, j \in DOMAIN list : Identified(list[i].text) = Identified(list[j].text) => i = j

\* The first rows of `all` are those of the list, the others come from `rows`.
Grown(list, rows, all) ==
  /\ Len(list) <= Len(all)
  /\ \A i \in 1 .. Len(list) : all[i] = list[i]
  /\ \A i \in 1 .. Len(all) : i > Len(list) => all[i] \in ToSet(rows)
  /\ Twinless(list) => Twinless(all)
  /\ (\A i \in DOMAIN rows : Has(list, rows[i].text, 0)) => all = list

\* What the fold makes of a list: it grows by rows of the input, and gets no twins.
LEMMA NewsIs ==
  ASSUME NEW E, NEW list \in Seq(E), NEW rows \in Seq(E)
  PROVE  /\ News(list, rows) \in Seq(E) /\ Len(News(list, rows)) <= Len(list) + Len(rows)
         /\ Grown(list, rows, News(list, rows))
<1>1. PICK run \in [0 .. Len(rows) -> Seq(E)] : Gathers(run, list, rows)
  BY NewsRuns
<1> DEFINE Good == { n \in 0 .. Len(rows) : Len(run[n]) <= Len(list) + n /\ Grown(list, rows, run[n]) }
<1>2. Len(rows) \in Nat /\ Len(list) \in Nat /\ DOMAIN rows = 1 .. Len(rows)
  OBVIOUS
<1>3. 0 \in Good
  <2>1. run[0] = list /\ 0 \in 0 .. Len(rows)
    BY <1>1, <1>2 DEF Gathers
  <2>2. Grown(list, rows, list)
    BY <1>2 DEF Grown
  <2> QED  BY <1>2, <2>1, <2>2
<1>4. ASSUME NEW n \in 0 .. Len(rows) - 1, n \in Good
      PROVE  n + 1 \in Good
  <2>1. n + 1 \in 1 .. Len(rows) /\ (n + 1) - 1 = n /\ n + 1 \in 0 .. Len(rows) /\ n \in 0 .. Len(rows)
    BY <1>2
  <2> DEFINE row == rows[n + 1]
             all == run[n]
             new == run[n + 1]
  <2>2. new = NewsStep(all, row) /\ row \in E /\ all \in Seq(E)
    BY <1>1, <2>1 DEF Gathers
  <2>3. Len(all) <= Len(list) + n /\ Grown(list, rows, all)
    BY <1>4
  <2>4. row \in ToSet(rows)
    BY <1>2, <2>1 DEF ToSet
  <2>5. (\A i \in DOMAIN rows : Has(list, rows[i].text, 0)) => Has(list, row.text, 0)
    BY <1>2, <2>1
  <2> HIDE DEF row, all, new
  <2>6. CASE Has(all, row.text, 0)
    <3>1. new = all
      BY <2>2, <2>6 DEF NewsStep
    <3>2. Len(all) \in Nat
      BY <2>2
    <3> QED  BY <1>2, <2>1, <2>3, <3>1, <3>2 DEF new
  <2>7. CASE ~Has(all, row.text, 0)
    <3>1. new = Append(all, row)
      BY <2>2, <2>7 DEF NewsStep
    <3>2. /\ Len(new) = Len(all) + 1 /\ Len(all) \in Nat /\ new[Len(all) + 1] = row
          /\ DOMAIN new = 1 .. Len(all) + 1 /\ DOMAIN all = 1 .. Len(all)
      BY <2>2, <3>1
    <3>3. \A i \in 1 .. Len(all) : new[i] = all[i]
      BY <2>2, <3>1
    <3>4. \A i \in 1 .. Len(all) + 1 : i \in 1 .. Len(all) \/ i = Len(all) + 1
      BY <3>2
    <3>5. /\ Len(list) <= Len(all)
          /\ \A i \in 1 .. Len(list) : all[i] = list[i]
          /\ \A i \in 1 .. Len(all) : i > Len(list) => all[i] \in ToSet(rows)
      BY <2>3 DEF Grown
    <3>6. \A i \in 1 .. Len(list) : i \in 1 .. Len(all)
      BY <1>2, <3>2, <3>5
    <3>7. \A i \in 1 .. Len(list) : new[i] = list[i]
      BY <3>3, <3>5, <3>6
    <3>8. \A i \in 1 .. Len(new) : i > Len(list) => new[i] \in ToSet(rows)
      BY <2>4, <3>2, <3>3, <3>4, <3>5
    <3>9. \A i \in 1 .. Len(all) : Identified(all[i].text) # Identified(row.text)
      BY <2>7, <3>2 DEF Has
    <3>10. Twinless(list) => Twinless(new)
      <4> SUFFICES ASSUME Twinless(all), NEW i \in DOMAIN new, NEW j \in DOMAIN new,
                          Identified(new[i].text) = Identified(new[j].text)
                   PROVE  i = j
        BY <2>3 DEF Grown, Twinless
      <4>1. CASE i \in 1 .. Len(all) /\ j \in 1 .. Len(all)
        BY <3>2, <3>3, <4>1 DEF Twinless
      <4>2. CASE i = Len(all) + 1 /\ j \in 1 .. Len(all)
        BY <3>2, <3>3, <3>9, <4>2
      <4>3. CASE j = Len(all) + 1 /\ i \in 1 .. Len(all)
        BY <3>2, <3>3, <3>9, <4>3
      <4> QED  BY <3>2, <3>4, <4>1, <4>2, <4>3
    <3>11. ~\A i \in DOMAIN rows : Has(list, rows[i].text, 0)
      <4> SUFFICES ASSUME Has(list, row.text, 0) PROVE FALSE
        BY <2>5
      <4>1. PICK i \in DOMAIN list : Identified(list[i].text) = Identified(row.text)
        BY DEF Has
      <4>2. i \in 1 .. Len(list)
        OBVIOUS
      <4> QED  BY <3>5, <3>6, <3>9, <4>1, <4>2
    <3>12. Grown(list, rows, new)
      BY <1>2, <3>2, <3>5, <3>7, <3>8, <3>10, <3>11 DEF Grown
    <3>13. Len(new) <= Len(list) + (n + 1)
      BY <1>2, <2>1, <2>3, <3>2
    <3> QED  BY <2>1, <3>12, <3>13 DEF new
  <2> QED  BY <2>6, <2>7
<1>5. Len(rows) \in Good
  <2>1. \A n \in 0 .. Len(rows) - 1 : n \in Good => n + 1 \in Good
    BY <1>4
  <2> HIDE DEF Good
  <2>2. 0 .. Len(rows) \subseteq Good
    BY <1>2, <1>3, <2>1, Climbs
  <2> QED  BY <1>2, <2>2
<1>6. News(list, rows) = run[Len(rows)] /\ Len(rows) \in 0 .. Len(rows)
  BY <1>1, <1>2 DEF Gathers
<1> QED  BY <1>5, <1>6

\* An export that is read back brings nothing new.
LEMMA ReadsBack ==
  ASSUME NEW d \in Seq([id : Nat, text : Texts, on : BOOLEAN]),
         \A i \in DOMAIN d : d[i].text # "'=foo"
  PROVE  News(d, [i \in DOMAIN d |-> Row(0, FromCell(Exported(d)[i]), TRUE)]) = d
<1> DEFINE E    == [id : Nat, text : Texts, on : BOOLEAN]
           back == [i \in DOMAIN d |-> Row(0, FromCell(Exported(d)[i]), TRUE)]
<1>1. DOMAIN d = 1 .. Len(d) /\ Len(d) \in Nat /\ \A i \in DOMAIN d : d[i].text \in Texts
  <2>1. d \in Seq(E)
    OBVIOUS
  <2> HIDE DEF E
  <2>2. DOMAIN d = 1 .. Len(d) /\ Len(d) \in Nat /\ \A i \in DOMAIN d : d[i] \in E
    BY <2>1
  <2>3. \A x \in E : x.text \in Texts
    BY DEF E
  <2> QED  BY <2>2, <2>3
<1>2. \A t \in Texts : t # "'=foo" => FromCell(Cell(t)) = t
  BY DEF FromCell, Cell
<1>3. \A i \in DOMAIN d : FromCell(Exported(d)[i]) = d[i].text
  BY <1>1, <1>2 DEF Exported
<1>4. DOMAIN back = DOMAIN d /\ \A i \in DOMAIN d : back[i] = Row(0, d[i].text, TRUE)
  BY <1>3
<1>5. \A i \in DOMAIN d : back[i].text = d[i].text /\ back[i] \in E
  BY <1>1, <1>4 DEF Row
<1> HIDE DEF back, E
<1>6. back \in Seq(E)
  <2>1. back \in [1 .. Len(d) -> E]
    <3>1. back = [i \in 1 .. Len(d) |-> back[i]]
      BY <1>1, <1>4 DEF back
    <3> QED  BY <1>1, <1>5, <3>1
  <2> QED  BY <1>1, <2>1
<1>7. d \in Seq(E)
  BY DEF E
<1>8. Grown(d, back, News(d, back))
  BY <1>6, <1>7, NewsIs
<1>9. \A i \in DOMAIN back : Has(d, back[i].text, 0)
  BY <1>4, <1>5 DEF Has
<1> QED  BY <1>8, <1>9 DEF Grown, back

-----------------------------------------------------------------------------
(* The inductive invariant of the data base                                  *)

RowSet   == [id : Nat, text : Texts, on : BOOLEAN]
EntrySet == [id : Nat, day : Nat, app : {"none", "mail"}]
BaseSet  == [history : Seq(EntrySet), dictionary : Seq(RowSet), rules : Seq(RowSet),
             restored : SUBSET Sections]
WorkSet  == [pc : 1 .. 4, base : BaseSet, backup : Backups, policy : Policies]
Idle     == [pc : {"idle"}, stale : BOOLEAN, replaced : BOOLEAN]
Checked  == [pc : {"write"}, list : Lists, row : RowSet, stale : BOOLEAN, replaced : BOOLEAN]
Read     == [pc : {"import"}, rows : Seq(FileRows), read : BaseSet, stale : BOOLEAN, replaced : BOOLEAN]
Prunes   == [pc : {"prune", "expire"}, policy : Policies, now : Nat]

LibTyped ==
  /\ base \in BaseSet /\ work \in {NoWork} \cup WorkSet
  /\ command \in Idle \cup Checked \cup Read
  /\ adder \in [Adders -> {NoAdder} \cup Prunes]
  /\ running \in BOOLEAN /\ raced \in BOOLEAN
  /\ day \in Nat /\ ids \in Nat /\ starts \in Nat /\ newest \in Nat /\ unpruned \in Nat

\* A stop leaves nothing that goes on.
NothingLeft == ~running => work = NoWork /\ command.pc = "idle" /\ adder = [a \in Adders |-> NoAdder]

\* No two rows of a list have the same id, and ids to come are new.
IdsUpTo(list, n) ==
  /\ \A i \in DOMAIN list : list[i].id \in 1 .. n
  /\ \A i, j \in DOMAIN list : list[i].id = list[j].id => i = j

KeptUpTo(b, n, twins) == \A l \in Lists : IdsUpTo(b[l], n) /\ (~twins => Twinless(b[l]))

ListsKept(b) == KeptUpTo(b, ids, raced)

\* What a command has checked, or has read, still holds when it writes.
CommandStands ==
  /\ command.pc = "write" =>
       /\ command.row.id <= ids
       /\ ~command.replaced => ~Has(base[command.list], command.row.text, command.row.id)
  /\ command.pc = "import" /\ ~command.stale => command.read = base

\* At most one entry over the limit for each pruning to come, and for each that
\* has not come.
Over == unpruned + Pruning("dictation") + Pruning("ask")
Bounded(h) == \E p \in Policies : Len(h) <= p.max + Over

NamesNoApp(h) == \A i \in DOMAIN h : h[i].app = "none"

\* The newest entry is not older than the prunings to come.
NewestLast ==
  newest # 0 => /\ base.history # <<>> /\ Last(base.history).id = newest
                /\ \A a \in Adders : adder[a].pc # "idle" => adder[a].now <= Last(base.history).day

PrunesKnown == \A a \in Adders : adder[a].pc # "idle" => adder[a].now <= day

HistoryKept(h) == Bounded(h) /\ (running => NamesNoApp(h))

\* A restore has done the sections before the one it is at.
DoneBefore(n) == { Order[k] : k \in 1 .. n - 1 }

RestoreKnown ==
  work # NoWork =>
    /\ base.restored = {} /\ Accepts(work.backup)
    /\ work.base.restored = DOMAIN work.backup \cap DoneBefore(work.pc)
    /\ "history" \notin work.base.restored => work.base.history = base.history
    /\ ListsKept(work.base) /\ HistoryKept(work.base.history)

LibInv ==
  /\ LibTyped /\ NothingLeft /\ CommandStands /\ NewestLast /\ PrunesKnown /\ RestoreKnown
  /\ ListsKept(base) /\ HistoryKept(base.history) /\ RestoredTogether

-----------------------------------------------------------------------------
(* What the changes of a list and of the history keep                        *)

\* Ids that were handed out stay known when more of them are.
LEMMA MoreIds ==
  ASSUME NEW list \in Seq(RowSet), NEW n \in Nat, NEW m \in Nat, n <= m, IdsUpTo(list, n)
  PROVE  IdsUpTo(list, m)
BY DEF IdsUpTo

LEMMA AddedRow ==
  ASSUME NEW list \in Seq(RowSet), NEW n \in Nat, IdsUpTo(list, n),
         NEW row \in RowSet, row.id = n + 1
  PROVE  /\ Append(list, row) \in Seq(RowSet) /\ IdsUpTo(Append(list, row), n + 1)
         /\ Twinless(list) /\ ~Has(list, row.text, 0) => Twinless(Append(list, row))
<1> DEFINE new == Append(list, row)
<1>1. /\ new \in Seq(RowSet) /\ DOMAIN new = 1 .. Len(list) + 1 /\ DOMAIN list = 1 .. Len(list)
      /\ Len(list) \in Nat /\ new[Len(list) + 1] = row
  OBVIOUS
<1>2. \A i \in DOMAIN list : new[i] = list[i]
  OBVIOUS
<1>3. \A i \in DOMAIN new : i \in DOMAIN list \/ i = Len(list) + 1
  BY <1>1
<1> HIDE DEF new
<1>4. IdsUpTo(new, n + 1)
  <2>1. \A i \in DOMAIN list : list[i].id \in 1 .. n
    BY DEF IdsUpTo
  <2>2. \A i \in DOMAIN list : new[i].id \in 1 .. n + 1 /\ new[i].id # n + 1
    BY <1>2, <2>1
  <2>3. \A i \in DOMAIN new : new[i].id \in 1 .. n + 1
    BY <1>1, <1>3, <2>2
  <2>4. \A i, j \in DOMAIN new : new[i].id = new[j].id => i = j
    BY <1>1, <1>2, <1>3, <2>2 DEF IdsUpTo
  <2> QED  BY <2>3, <2>4 DEF IdsUpTo
<1>5. ASSUME Twinless(list), ~Has(list, row.text, 0)
      PROVE  Twinless(new)
  <2>1. \A i \in DOMAIN list : Identified(list[i].text) # Identified(row.text)
    BY <1>5 DEF Has
  <2> QED  BY <1>1, <1>2, <1>3, <1>5, <2>1 DEF Twinless
<1> QED  BY <1>1, <1>4, <1>5 DEF new

LEMMA ChangedRow ==
  ASSUME NEW list \in Seq(RowSet), NEW n \in Nat, IdsUpTo(list, n),
         NEW row \in RowSet, row.id # 0,
         NEW new, new = [i \in DOMAIN list |-> IF list[i].id = row.id THEN row ELSE list[i]]
  PROVE  /\ new \in Seq(RowSet) /\ IdsUpTo(new, n)
         /\ Twinless(list) /\ ~Has(list, row.text, row.id) => Twinless(new)
<1>1. DOMAIN list = 1 .. Len(list) /\ Len(list) \in Nat /\ \A i \in DOMAIN list : list[i] \in RowSet
  OBVIOUS
<1>2. DOMAIN new = DOMAIN list /\ \A i \in DOMAIN list : new[i] = IF list[i].id = row.id THEN row ELSE list[i]
  OBVIOUS
<1>3. new \in [1 .. Len(list) -> RowSet]
  BY <1>1
<1>4. new \in Seq(RowSet)
  BY <1>1, <1>3
<1> HIDE DEF RowSet
<1>5. \A i \in DOMAIN list : new[i].id = list[i].id
  BY <1>2
<1>6. IdsUpTo(new, n)
  BY <1>2, <1>5 DEF IdsUpTo
<1>7. ASSUME Twinless(list), ~Has(list, row.text, row.id)
      PROVE  Twinless(new)
  <2>1. \A i \in DOMAIN list : list[i].id # row.id => Identified(list[i].text) # Identified(row.text)
    BY <1>7 DEF Has
  <2> QED  BY <1>2, <1>7, <2>1 DEF Twinless, IdsUpTo
<1> QED  BY <1>4, <1>6, <1>7

LEMMA RemovedRow ==
  ASSUME NEW list \in Seq(RowSet), NEW n \in Nat, IdsUpTo(list, n), NEW k \in DOMAIN list
  PROVE  /\ RemoveAt(list, k) \in Seq(RowSet) /\ IdsUpTo(RemoveAt(list, k), n)
         /\ Twinless(list) => Twinless(RemoveAt(list, k))
<1> DEFINE new == RemoveAt(list, k)
           from(i) == IF i < k THEN i ELSE i + 1
<1>1. DOMAIN list = 1 .. Len(list) /\ Len(list) \in Nat /\ k \in 1 .. Len(list)
  OBVIOUS
<1>2. /\ SubSeq(list, 1, k - 1) \in Seq(RowSet) /\ Len(SubSeq(list, 1, k - 1)) = k - 1
      /\ \A i \in 1 .. k - 1 : SubSeq(list, 1, k - 1)[i] = list[i]
  BY <1>1
<1>3. /\ SubSeq(list, k + 1, Len(list)) \in Seq(RowSet) /\ Len(SubSeq(list, k + 1, Len(list))) = Len(list) - k
      /\ \A i \in 1 .. Len(list) - k : SubSeq(list, k + 1, Len(list))[i] = list[k + i]
  <2>1. k + 1 \in 1 .. Len(list) + 1 /\ Len(list) - (k + 1) + 1 = Len(list) - k
    BY <1>1
  <2> DEFINE m == k + 1
  <2>2. m \in 1 .. Len(list) + 1 /\ Len(list) - m + 1 = Len(list) - k
    BY <2>1
  <2> HIDE DEF m
  <2>3. SubSeq(list, m, Len(list)) \in Seq(RowSet) /\ Len(SubSeq(list, m, Len(list))) = Len(list) - m + 1
    BY <1>1, <2>2
  <2>4. \A i \in 1 .. Len(list) - m + 1 : SubSeq(list, m, Len(list))[i] = list[m + i - 1]
    BY <1>1, <2>2
  <2>5. \A i \in 1 .. Len(list) - m + 1 : m + i - 1 = k + i
    BY <1>1 DEF m
  <2>6. \A i \in 1 .. Len(list) - k : SubSeq(list, m, Len(list))[i] = list[k + i]
    BY <2>2, <2>4, <2>5
  <2> QED  BY <2>2, <2>3, <2>6 DEF m
<1>4. /\ new \in Seq(RowSet) /\ DOMAIN new = 1 .. Len(list) - 1
      /\ \A i \in 1 .. Len(list) - 1 : new[i] = list[from(i)] /\ from(i) \in DOMAIN list
  <2> DEFINE a == SubSeq(list, 1, k - 1)
             b == SubSeq(list, k + 1, Len(list))
  <2>1. new = a \o b
    BY DEF RemoveAt
  <2> HIDE DEF a, b, new
  <2>8. a \in Seq(RowSet) /\ b \in Seq(RowSet)
    BY <1>2, <1>3 DEF a, b
  <2>2. new \in Seq(RowSet) /\ DOMAIN new = 1 .. Len(a) + Len(b)
    BY <2>1, <2>8
  <2>3. \A i \in 1 .. Len(a) : new[i] = a[i]
    BY <2>1, <2>8
  <2>4. \A i \in 1 .. Len(b) : new[Len(a) + i] = b[i]
    BY <2>1, <2>8
  <2>5. Len(a) = k - 1 /\ Len(b) = Len(list) - k
    BY <1>2, <1>3 DEF a, b
  <2>6. ASSUME NEW i \in 1 .. Len(list) - 1
        PROVE  new[i] = list[from(i)] /\ from(i) \in DOMAIN list
    <3>1. CASE i < k
      <4>1. i \in 1 .. k - 1
        BY <1>1, <3>1
      <4> QED  BY <1>1, <1>2, <2>3, <2>5, <3>1, <4>1 DEF a
    <3>2. CASE ~(i < k)
      <4>1. i - (k - 1) \in 1 .. Len(b) /\ Len(a) + (i - (k - 1)) = i /\ k + (i - (k - 1)) = i + 1
        BY <1>1, <2>5, <3>2
      <4>2. new[i] = b[i - (k - 1)]
        BY <2>4, <4>1
      <4>3. b[i - (k - 1)] = list[i + 1]
        BY <1>3, <2>5, <4>1 DEF b
      <4> QED  BY <1>1, <3>2, <4>2, <4>3
    <3> QED  BY <3>1, <3>2
  <2>7. Len(a) + Len(b) = Len(list) - 1
    BY <1>1, <2>5
  <2> QED  BY <2>2, <2>6, <2>7
<1>5. \A i, j \in 1 .. Len(list) - 1 : from(i) = from(j) => i = j
  BY <1>1
<1> HIDE DEF new, from
<1>6. IdsUpTo(new, n)
  <2>1. \A i \in DOMAIN list : list[i].id \in 1 .. n
    BY DEF IdsUpTo
  <2>2. \A i, j \in DOMAIN list : list[i].id = list[j].id => i = j
    BY DEF IdsUpTo
  <2>3. \A i \in DOMAIN new : new[i].id \in 1 .. n
    BY <1>4, <2>1
  <2>4. \A i, j \in DOMAIN new : new[i].id = new[j].id => i = j
    BY <1>4, <1>5, <2>2
  <2> QED  BY <2>3, <2>4 DEF IdsUpTo
<1>7. Twinless(list) => Twinless(new)
  BY <1>4, <1>5 DEF Twinless
<1> QED  BY <1>4, <1>6, <1>7 DEF new

LEMMA ToggledRow ==
  ASSUME NEW list \in Seq(RowSet), NEW n \in Nat, IdsUpTo(list, n), NEW k \in DOMAIN list
  PROVE  /\ Toggled(list, k) \in Seq(RowSet) /\ IdsUpTo(Toggled(list, k), n)
         /\ Twinless(list) => Twinless(Toggled(list, k))
<1> DEFINE new == Toggled(list, k)
           row == [list[k] EXCEPT !.on = ~list[k].on]
<1>1. DOMAIN list = 1 .. Len(list) /\ Len(list) \in Nat /\ list[k] \in RowSet
  OBVIOUS
<1>2. row \in RowSet /\ row.id = list[k].id /\ row.text = list[k].text
  BY <1>1 DEF RowSet
<1>3. new = [list EXCEPT ![k] = row]
  BY DEF Toggled
<1> HIDE DEF row, RowSet, new
<1>4. DOMAIN new = DOMAIN list /\ \A i \in DOMAIN list : new[i] = IF i = k THEN row ELSE list[i]
  BY <1>3
<1>5. new \in Seq(RowSet)
  BY <1>2, <1>3
<1>6. \A i \in DOMAIN list : new[i].id = list[i].id /\ new[i].text = list[i].text
  BY <1>2, <1>4
<1>7. IdsUpTo(new, n) /\ (Twinless(list) => Twinless(new))
  BY <1>4, <1>6 DEF IdsUpTo, Twinless
<1> QED  BY <1>5, <1>7 DEF new

\* The rows that are new take the ids to come, the others keep theirs.
LEMMA NumberedRows ==
  ASSUME NEW list \in Seq(RowSet), NEW n \in Nat, NEW m \in Nat, n <= m, NEW k \in Nat,
         \A i \in DOMAIN list : IF i <= k THEN list[i].id \in 1 .. n ELSE list[i].id = 0,
         \A i, j \in DOMAIN list : i <= k /\ j <= k /\ list[i].id = list[j].id => i = j
  PROVE  /\ Numbered(list, m) \in Seq(RowSet) /\ IdsUpTo(Numbered(list, m), m + Len(list))
         /\ Len(Numbered(list, m)) = Len(list)
         /\ Twinless(list) => Twinless(Numbered(list, m))
<1> DEFINE new == Numbered(list, m)
<1>1. DOMAIN list = 1 .. Len(list) /\ Len(list) \in Nat /\ \A i \in DOMAIN list : list[i] \in RowSet
  OBVIOUS
<1>2. /\ DOMAIN new = DOMAIN list
      /\ \A i \in DOMAIN list : new[i] = [list[i] EXCEPT !.id = IF list[i].id = 0 THEN m + i ELSE list[i].id]
  BY DEF Numbered
<1> HIDE DEF new
<1>3. ASSUME NEW i \in DOMAIN list
      PROVE  /\ new[i] \in RowSet /\ new[i].text = list[i].text
             /\ new[i].id = IF i <= k THEN list[i].id ELSE m + i
             /\ new[i].id \in 1 .. m + Len(list)
  <2>1. list[i].id \in Nat /\ i \in 1 .. Len(list) /\ list[i] \in RowSet
    BY <1>1 DEF RowSet
  <2>2. /\ new[i].text = list[i].text
        /\ new[i].id = IF list[i].id = 0 THEN m + i ELSE list[i].id
        /\ new[i] \in RowSet
    <3> DEFINE x == IF list[i].id = 0 THEN m + i ELSE list[i].id
    <3>1. new[i] = [list[i] EXCEPT !.id = x]
      BY <1>2
    <3>2. x \in Nat
      BY <1>1, <2>1
    <3> HIDE DEF x
    <3>3. new[i].text = list[i].text /\ new[i].id = x /\ new[i] \in RowSet
      BY <2>1, <3>1, <3>2 DEF RowSet
    <3> QED  BY <3>3 DEF x
  <2> QED  BY <1>1, <2>1, <2>2
<1>4. new \in [1 .. Len(list) -> RowSet]
  <2>1. new = [i \in 1 .. Len(list) |-> new[i]]
    BY <1>1, <1>2 DEF new, Numbered
  <2> QED  BY <1>1, <1>3, <2>1
<1>5. new \in Seq(RowSet) /\ Len(new) = Len(list)
  BY <1>1, <1>4
<1>6. ASSUME NEW i \in DOMAIN list, NEW j \in DOMAIN list, new[i].id = new[j].id
      PROVE  i = j
  <2>1. i \in Nat /\ j \in Nat /\ i > 0 /\ j > 0
    BY <1>1
  <2>2. new[i].id = (IF i <= k THEN list[i].id ELSE m + i) /\ new[j].id = (IF j <= k THEN list[j].id ELSE m + j)
    BY <1>3
  <2>3. (i <= k => list[i].id \in 1 .. n) /\ (j <= k => list[j].id \in 1 .. n)
    OBVIOUS
  <2>4. CASE i <= k /\ j <= k
    BY <1>6, <2>2, <2>4
  <2>5. CASE i <= k /\ ~(j <= k)
    <3>1. new[i].id = list[i].id /\ new[j].id = m + j
      BY <2>2, <2>5, Zenon
    <3>2. m + j \in 1 .. n
      BY <1>6, <2>3, <2>5, <3>1, Zenon
    <3> QED  BY <2>1, <3>2
  <2>6. CASE ~(i <= k) /\ j <= k
    <3>1. new[j].id = list[j].id /\ new[i].id = m + i
      BY <2>2, <2>6, Zenon
    <3>2. m + i \in 1 .. n
      BY <1>6, <2>3, <2>6, <3>1, Zenon
    <3> QED  BY <2>1, <3>2
  <2>7. CASE ~(i <= k) /\ ~(j <= k)
    <3>1. new[i].id = m + i /\ new[j].id = m + j
      BY <2>2, <2>7, Zenon
    <3>2. m + i = m + j
      BY <1>6, <3>1, Zenon
    <3> QED  BY <2>1, <3>2
  <2> QED  BY <2>4, <2>5, <2>6, <2>7
<1>7. IdsUpTo(new, m + Len(list))
  BY <1>2, <1>3, <1>6 DEF IdsUpTo
<1>8. Twinless(list) => Twinless(new)
  BY <1>2, <1>3 DEF Twinless
<1> QED  BY <1>5, <1>7, <1>8 DEF new

LEMMA LeastOf ==
  ASSUME NEW a \in Nat, NEW b \in Nat
  PROVE  Min({a, b}) \in Nat /\ Min({a, b}) <= a /\ Min({a, b}) <= b /\ (Min({a, b}) = a \/ Min({a, b}) = b)
<1>1. \E x \in {a, b} : \A y \in {a, b} : x =< y
  OBVIOUS
<1> DEFINE x == Min({a, b})
<1>2. x \in {a, b} /\ \A y \in {a, b} : x =< y
  BY <1>1 DEF Min
<1> QED  BY <1>2

\* The last entries: no more than asked for, and the last one is among them.
LEMMA LastOnesIs ==
  ASSUME NEW rows \in Seq(EntrySet), NEW max \in Nat \ {0}
  PROVE  /\ LastOnes(rows, max) \in Seq(EntrySet) /\ Len(LastOnes(rows, max)) <= max
         /\ ToSet(LastOnes(rows, max)) \subseteq ToSet(rows)
         /\ rows # <<>> => LastOnes(rows, max) # <<>> /\ Last(LastOnes(rows, max)) = Last(rows)
<1> DEFINE n == Min({max, Len(rows)})
           new == LastOnes(rows, max)
           from == Len(rows) + 1 - n
<1>1. n \in Nat /\ n <= max /\ n <= Len(rows) /\ (n = max \/ n = Len(rows)) /\ Len(rows) \in Nat
  BY LeastOf
<1>2. new = SubSeq(rows, from, Len(rows))
  BY DEF LastOnes
<1> HIDE DEF n, new
<1>3. /\ new \in Seq(EntrySet) /\ Len(new) = n
      /\ \A i \in 1 .. n : new[i] = rows[from + i - 1] /\ from + i - 1 \in 1 .. Len(rows)
  BY <1>1, <1>2
<1>4. ToSet(new) \subseteq ToSet(rows)
  <2>1. DOMAIN new = 1 .. n /\ DOMAIN rows = 1 .. Len(rows)
    BY <1>3
  <2> QED  BY <1>3, <2>1 DEF ToSet
<1>5. ASSUME rows # <<>>
      PROVE  new # <<>> /\ Last(new) = Last(rows)
  <2>1. n \in 1 .. n /\ n # 0 /\ from + n - 1 = Len(rows)
    BY <1>1, <1>5
  <2> QED  BY <1>3, <2>1 DEF Last
<1> QED  BY <1>1, <1>3, <1>4, <1>5 DEF new

\* The entries that are not too old; the last one is among them if it is not.
LEMMA RecentIs ==
  ASSUME NEW E, NEW rows \in Seq(E), NEW policy, NEW now
  PROVE  /\ Recent(rows, policy, now) \in Seq(E) /\ Len(Recent(rows, policy, now)) <= Len(rows)
         /\ ToSet(Recent(rows, policy, now)) \subseteq ToSet(rows)
         /\ rows # <<>> /\ (policy.days > 0 => Last(rows).day + policy.days >= now)
              => Recent(rows, policy, now) # <<>> /\ Last(Recent(rows, policy, now)) = Last(rows)
<1> DEFINE S == { r \in ToSet(rows) : policy.days > 0 => r.day + policy.days >= now }
           new == Recent(rows, policy, now)
<1>1. new = Among(rows, S)
  BY DEF Recent
<1>2. S \subseteq ToSet(rows)
  OBVIOUS
<1>3. rows # <<>> => Last(rows) \in ToSet(rows)
  <2>1. rows # <<>> => Len(rows) \in DOMAIN rows
    OBVIOUS
  <2> QED  BY <2>1 DEF Last, ToSet
<1>4. ASSUME rows # <<>>, policy.days > 0 => Last(rows).day + policy.days >= now
      PROVE  Last(rows) \in S
  BY <1>3, <1>4
<1> HIDE DEF S, new
<1>5. new \in Seq(E \cap S) /\ Len(new) <= Len(rows)
  BY <1>1, AmongIs
<1>6. rows # <<>> /\ Last(rows) \in S => new # <<>> /\ Last(new) = Last(rows)
  BY <1>1, AmongIs
<1>7. ToSet(new) \subseteq S
  <2>1. \A i \in DOMAIN new : new[i] \in E \cap S
    BY <1>5
  <2> QED  BY <2>1 DEF ToSet
<1>8. new \in Seq(E)
  BY <1>5
<1> QED  BY <1>2, <1>4, <1>5, <1>6, <1>7, <1>8 DEF new

-----------------------------------------------------------------------------
(* The invariant holds at the start and is kept by the steps                 *)

LEMMA KeptMore ==
  ASSUME NEW b \in BaseSet, NEW n \in Nat, NEW m \in Nat, n <= m, NEW twins, NEW more,
         twins => more, KeptUpTo(b, n, twins)
  PROVE  KeptUpTo(b, m, more)
<1>1. \A l \in Lists : b[l] \in Seq(RowSet)
  BY DEF BaseSet, Lists
<1> QED  BY <1>1, MoreIds DEF KeptUpTo

LEMMA SameLists ==
  ASSUME NEW b, NEW c, b.dictionary = c.dictionary, b.rules = c.rules, NEW n, NEW twins,
         KeptUpTo(b, n, twins)
  PROVE  KeptUpTo(c, n, twins)
BY DEF KeptUpTo, Lists

LEMMA LibInitially == LibraryInit => LibInv
<1> SUFFICES ASSUME LibraryInit PROVE LibInv
  OBVIOUS
<1> DEFINE entry == [id |-> 1, day |-> 0, app |-> "mail"]
           row   == Row(2, "foo", TRUE)
<1>1. /\ base.history = <<entry>> /\ base.dictionary = <<row>> /\ base.rules = <<>> /\ base.restored = {}
      /\ base = [history |-> <<entry>>, dictionary |-> <<row>>, rules |-> <<>>, restored |-> {}]
  BY DEF LibraryInit
<1>2. /\ work = NoWork /\ command = NoCommand /\ adder = [a \in Adders |-> NoAdder]
      /\ running = FALSE /\ day = 0 /\ ids = 2 /\ starts = 0 /\ newest = 1 /\ raced = FALSE /\ unpruned = 0
  BY DEF LibraryInit
<1>3. entry \in EntrySet /\ row \in RowSet /\ row.id = 2
  BY DEF EntrySet, RowSet, Row, Texts
<1> HIDE DEF entry, row
<1>4. base \in BaseSet
  <2>1. <<entry>> \in Seq(EntrySet) /\ <<row>> \in Seq(RowSet) /\ <<>> \in Seq(RowSet)
    BY <1>3
  <2>2. {} \in SUBSET Sections
    OBVIOUS
  <2> QED  BY <1>1, <2>1, <2>2 DEF BaseSet
<1>5. LibTyped
  <2>1. command \in Idle
    BY <1>2 DEF NoCommand, Idle
  <2> QED  BY <1>2, <1>4, <2>1 DEF LibTyped
<1>6. NothingLeft /\ CommandStands /\ PrunesKnown /\ RestoreKnown /\ RestoredTogether
  <2>1. command.pc = "idle" /\ \A a \in Adders : adder[a].pc = "idle"
    BY <1>2 DEF NoCommand, NoAdder
  <2> QED  BY <1>1, <1>2, <2>1 DEF NothingLeft, CommandStands, PrunesKnown, RestoreKnown, RestoredTogether
<1>7. NewestLast
  <2>1. <<entry>> # <<>> /\ Last(<<entry>>) = entry
    BY DEF Last
  <2>2. entry.id = 1
    BY DEF entry
  <2>3. \A a \in Adders : adder[a].pc = "idle"
    BY <1>2 DEF NoAdder
  <2> QED  BY <1>1, <1>2, <2>1, <2>2, <2>3 DEF NewestLast
<1>8. ListsKept(base)
  <2>1. IdsUpTo(<<row>>, 2) /\ Twinless(<<row>>)
    BY <1>3 DEF IdsUpTo, Twinless
  <2>2. IdsUpTo(<<>>, 2) /\ Twinless(<<>>)
    BY DEF IdsUpTo, Twinless
  <2> QED  BY <1>1, <1>2, <2>1, <2>2 DEF ListsKept, KeptUpTo, Lists
<1>9. HistoryKept(base.history)
  <2>1. PICK p \in Policies : p.max \in Nat \ {0}
    BY LibraryAssumption
  <2>2. Len(<<entry>>) = 1
    OBVIOUS
  <2>3. Over = 0
    BY <1>2 DEF Pruning, NoAdder, Adders, Over
  <2> QED  BY <1>1, <1>2, <2>1, <2>2, <2>3 DEF HistoryKept, Bounded
<1> QED  BY <1>5, <1>6, <1>7, <1>8, <1>9 DEF LibInv

LEMMA CommandIs ==
  ASSUME LibTyped
  PROVE  /\ command.pc = "idle" => command \in Idle
         /\ command.pc = "write" => command \in Checked
         /\ command.pc = "import" => command \in Read
         /\ command.pc \in {"idle", "write", "import"}
<1>1. command \in Idle \cup Checked \cup Read
  BY DEF LibTyped
<1> QED  BY <1>1 DEF Idle, Checked, Read

\* A commit of the other connection keeps what a command stands on, if it leaves
\* the lists.
LEMMA OutdatedStands ==
  ASSUME LibTyped, CommandStands, Outdates, ids' \in Nat, ids <= ids',
         base'.dictionary = base.dictionary, base'.rules = base.rules
  PROVE  /\ CommandStands' /\ command' \in Idle \cup Checked \cup Read
         /\ command'.pc = command.pc
<1>1. CASE command.pc = "idle"
  <2>1. command \in Idle /\ command' = [command EXCEPT !.stale = FALSE]
    BY <1>1, CommandIs DEF Outdates
  <2>2. command' \in Idle /\ command'.pc = "idle"
    BY <2>1 DEF Idle
  <2> QED  BY <1>1, <2>2 DEF CommandStands
<1>2. CASE command.pc = "write"
  <2>1. command \in Checked /\ command' = [command EXCEPT !.stale = TRUE]
    BY <1>2, CommandIs DEF Outdates
  <2>2. /\ command'.pc = "write" /\ command'.row = command.row /\ command'.list = command.list
        /\ command'.replaced = command.replaced /\ command' \in Checked
    BY <2>1 DEF Checked
  <2>3. command.row.id \in Nat /\ command.list \in Lists
    BY <2>1 DEF Checked, RowSet
  <2>4. base'[command.list] = base[command.list]
    BY <2>3 DEF Lists
  <2>5. command.row.id <= ids /\ (~command.replaced => ~Has(base[command.list], command.row.text, command.row.id))
    BY <1>2 DEF CommandStands
  <2>6. command.row.id <= ids'
    BY <2>3, <2>5 DEF LibTyped
  <2>7. CommandStands'
    BY <2>2, <2>4, <2>5, <2>6 DEF CommandStands
  <2> QED  BY <1>2, <2>2, <2>7
<1>3. CASE command.pc = "import"
  <2>1. command \in Read /\ command' = [command EXCEPT !.stale = TRUE]
    BY <1>3, CommandIs DEF Outdates
  <2>2. command'.pc = "import" /\ command'.stale = TRUE /\ command' \in Read
    BY <2>1 DEF Read
  <2> QED  BY <1>3, <2>2 DEF CommandStands
<1> QED  BY <1>1, <1>2, <1>3, CommandIs

LEMMA StartsStep ==
  ASSUME LibInv, Starts
  PROVE  LibInv'
<1> DEFINE h == [i \in DOMAIN base.history |-> [base.history[i] EXCEPT !.app = "none"]]
<1>1. /\ ~running /\ running' = TRUE /\ base' = [base EXCEPT !.history = h]
      /\ UNCHANGED <<work, command, adder, day, ids, ops, starts, newest, raced, unpruned>>
  BY DEF Starts
<1>2. /\ LibTyped /\ work = NoWork /\ command.pc = "idle" /\ adder = [a \in Adders |-> NoAdder]
  BY <1>1 DEF LibInv, NothingLeft
<1>3. base \in BaseSet /\ base.history \in Seq(EntrySet)
  BY <1>2 DEF LibTyped, BaseSet
<1>4. /\ h \in Seq(EntrySet) /\ Len(h) = Len(base.history) /\ DOMAIN h = DOMAIN base.history
      /\ \A i \in DOMAIN h : h[i].app = "none" /\ h[i].id = base.history[i].id /\ h[i].day = base.history[i].day
  <2>1. DOMAIN base.history = 1 .. Len(base.history) /\ Len(base.history) \in Nat
    BY <1>3
  <2>2. \A i \in DOMAIN base.history : base.history[i] \in EntrySet
    BY <1>3
  <2>3. \A x \in EntrySet : /\ [x EXCEPT !.app = "none"] \in EntrySet /\ [x EXCEPT !.app = "none"].app = "none"
                            /\ [x EXCEPT !.app = "none"].id = x.id /\ [x EXCEPT !.app = "none"].day = x.day
    BY DEF EntrySet
  <2>4. h \in [1 .. Len(base.history) -> EntrySet]
    BY <2>1, <2>2, <2>3
  <2> QED  BY <2>1, <2>2, <2>3, <2>4
<1> HIDE DEF h
<1>5. /\ base' \in BaseSet /\ base'.history = h /\ base'.dictionary = base.dictionary
      /\ base'.rules = base.rules /\ base'.restored = base.restored
  BY <1>1, <1>3, <1>4 DEF BaseSet
<1>6. LibTyped'
  BY <1>1, <1>2, <1>5 DEF LibTyped
<1>7. ListsKept(base)'
  BY <1>1, <1>5, SameLists DEF LibInv, ListsKept
<1>8. NewestLast'
  <2>1. base.history # <<>> => h # <<>> /\ Last(h).id = Last(base.history).id
    <3>1. base.history # <<>> => Len(base.history) \in DOMAIN base.history
      BY <1>3
    <3> QED  BY <1>3, <1>4, <3>1 DEF Last
  <2>2. \A a \in Adders : adder'[a].pc = "idle"
    BY <1>1, <1>2 DEF NoAdder
  <2> QED  BY <1>1, <1>5, <2>1, <2>2 DEF LibInv, NewestLast
<1>9. HistoryKept(base.history)'
  <2>1. Over' = Over
    BY <1>1 DEF Pruning, Over
  <2>2. Bounded(base.history)'
    BY <1>1, <1>4, <1>5, <2>1 DEF LibInv, HistoryKept, Bounded
  <2> QED  BY <1>4, <1>5, <2>2 DEF HistoryKept, NamesNoApp
<1>10. (NothingLeft /\ CommandStands /\ PrunesKnown /\ RestoreKnown /\ RestoredTogether)'
  <2>1. command'.pc = "idle" /\ \A a \in Adders : adder'[a].pc = "idle"
    BY <1>1, <1>2 DEF NoCommand, NoAdder
  <2> QED  BY <1>1, <1>2, <1>5, <2>1 DEF LibInv, NothingLeft, CommandStands, PrunesKnown, RestoreKnown, RestoredTogether
<1> QED  BY <1>6, <1>7, <1>8, <1>9, <1>10 DEF LibInv

LEMMA CrashesStep ==
  ASSUME LibInv, Crashes
  PROVE  LibInv'
<1>1. /\ running' = FALSE /\ starts' = starts + 1 /\ work' = NoWork /\ command' = NoCommand
      /\ adder' = [a \in Adders |-> NoAdder] /\ unpruned' = Over
      /\ UNCHANGED <<base, day, ids, ops, newest, raced>>
  BY DEF Crashes, Over
<1>2. LibTyped'
  <2>1. adder' \in [Adders -> {NoAdder} \cup Prunes] /\ starts' \in Nat /\ unpruned' \in Nat
    BY <1>1 DEF LibInv, LibTyped, Over, Pruning
  <2>2. command' \in Idle
    BY <1>1 DEF NoCommand, Idle
  <2> QED  BY <1>1, <2>1, <2>2, Zenon DEF LibInv, LibTyped
<1>3. command'.pc = "idle" /\ \A a \in Adders : adder'[a].pc = "idle"
  BY <1>1 DEF NoCommand, NoAdder
<1>4. (NothingLeft /\ CommandStands /\ PrunesKnown /\ RestoreKnown /\ RestoredTogether)'
  BY <1>1, <1>3 DEF LibInv, NothingLeft, CommandStands, PrunesKnown, RestoreKnown, RestoredTogether
<1>5. NewestLast'
  BY <1>1, <1>3 DEF LibInv, NewestLast
<1>6. ListsKept(base)'
  BY <1>1 DEF LibInv, ListsKept
<1>7. HistoryKept(base.history)'
  <2>1. Pruning("dictation")' = 0 /\ Pruning("ask")' = 0
    BY <1>3 DEF Pruning, Adders
  <2>2. Over' = Over
    BY <1>1, <1>2, <2>1 DEF Over, LibTyped
  <2> QED  BY <1>1, <2>2 DEF LibInv, HistoryKept, Bounded
<1> QED  BY <1>2, <1>4, <1>5, <1>6, <1>7 DEF LibInv

LEMMA DayStep ==
  ASSUME LibInv, DayPasses
  PROVE  LibInv'
<1>1. day' = day + 1 /\ UNCHANGED <<base, work, command, adder, running, ids, ops, starts, newest, raced, unpruned>>
  BY DEF DayPasses
<1>2. LibTyped' /\ PrunesKnown'
  <2>1. \A a \in Adders : adder[a].pc # "idle" => adder[a].now \in Nat
    BY DEF LibInv, LibTyped, NoAdder, Prunes
  <2> QED  BY <1>1, <2>1 DEF LibInv, LibTyped, PrunesKnown
<1>3. (NothingLeft /\ CommandStands /\ RestoreKnown /\ RestoredTogether /\ NewestLast)'
  BY <1>1 DEF LibInv, NothingLeft, CommandStands, RestoreKnown, RestoredTogether, NewestLast, ListsKept,
              HistoryKept, Bounded, Over, Pruning
<1>4. ListsKept(base)' /\ HistoryKept(base.history)'
  BY <1>1 DEF LibInv, ListsKept, HistoryKept, Bounded, Over, Pruning
<1> QED  BY <1>2, <1>3, <1>4 DEF LibInv

LEMMA WorkIs ==
  ASSUME LibTyped
  PROVE  /\ work.pc = 0 <=> work = NoWork
         /\ work # NoWork => work \in WorkSet
BY DEF LibTyped, NoWork, WorkSet

\* A change of the history alone.
LEMMA HistoryFrame ==
  ASSUME LibInv, running, work.pc = 0, Outdates, NEW h \in Seq(EntrySet), base' = [base EXCEPT !.history = h],
         ids' \in Nat, ids <= ids', newest' \in Nat, unpruned' \in Nat, adder' \in [Adders -> {NoAdder} \cup Prunes],
         UNCHANGED <<work, running, day, starts, raced>>
  PROVE  /\ base'.history = h
         /\ (LibTyped /\ NothingLeft /\ CommandStands /\ RestoreKnown /\ RestoredTogether)'
         /\ ListsKept(base)'
<1>1. base \in BaseSet /\ LibTyped
  BY DEF LibInv, LibTyped
<1>2. /\ base' \in BaseSet /\ base'.history = h /\ base'.dictionary = base.dictionary
      /\ base'.rules = base.rules /\ base'.restored = base.restored
  BY <1>1 DEF BaseSet
<1>3. work = NoWork /\ running = TRUE
  BY <1>1, WorkIs DEF LibTyped
<1>4. CommandStands' /\ command' \in Idle \cup Checked \cup Read
  BY <1>1, <1>2, OutdatedStands DEF LibInv
<1>5. LibTyped'
  BY <1>2, <1>3, <1>4 DEF LibTyped, LibInv
<1>6. (NothingLeft /\ RestoreKnown /\ RestoredTogether)'
  BY <1>2, <1>3 DEF LibInv, NothingLeft, RestoreKnown, RestoredTogether
<1>7. ListsKept(base)'
  <2>1. ids \in Nat /\ KeptUpTo(base, ids', raced)
    BY <1>1, KeptMore DEF LibInv, LibTyped, ListsKept
  <2>2. KeptUpTo(base', ids', raced)
    BY <1>2, <2>1, SameLists
  <2> QED  BY <2>2 DEF ListsKept
<1> QED  BY <1>2, <1>4, <1>5, <1>6, <1>7

LEMMA OverIs ==
  /\ LibTyped => Over \in Nat
  /\ Over' = unpruned' + (IF adder'["dictation"].pc = "prune" THEN 1 ELSE 0)
                       + (IF adder'["ask"].pc = "prune" THEN 1 ELSE 0)
<1>1. LibTyped => Over \in Nat
  BY DEF LibTyped, Over, Pruning
<1> QED  BY <1>1 DEF Over, Pruning

LEMMA InsertsStep ==
  ASSUME LibInv, NEW a \in Adders, NEW policy \in Policies, HistoryInserts(a, policy)
  PROVE  LibInv'
<1> DEFINE entry == [id |-> ids + 1, day |-> day, app |-> "none"]
           h     == Append(base.history, entry)
<1>1. /\ running /\ work.pc = 0 /\ Outdates /\ adder[a].pc = "idle" /\ ids' = ids + 1 /\ newest' = ids + 1
      /\ base' = [base EXCEPT !.history = h]
      /\ adder' = [adder EXCEPT ![a] = [pc |-> "prune", policy |-> policy, now |-> day]]
      /\ UNCHANGED <<work, running, day, starts, raced, unpruned>>
  BY DEF HistoryInserts, HistoryFree
<1>2. /\ base \in BaseSet /\ base.history \in Seq(EntrySet) /\ ids \in Nat /\ day \in Nat /\ starts \in Nat
      /\ adder \in [Adders -> {NoAdder} \cup Prunes] /\ running = TRUE /\ unpruned \in Nat
  BY <1>1 DEF LibInv, LibTyped, BaseSet
<1>3. entry \in EntrySet /\ entry.id = ids + 1 /\ entry.day = day /\ entry.app = "none"
  BY <1>2 DEF EntrySet
<1> HIDE DEF entry
<1>4. /\ h \in Seq(EntrySet) /\ h # <<>> /\ Last(h) = entry /\ Len(h) = Len(base.history) + 1
      /\ Len(base.history) \in Nat
  <2>1. ASSUME NEW E, NEW s \in Seq(E), NEW e \in E
        PROVE  /\ Append(s, e) \in Seq(E) /\ Append(s, e) # <<>> /\ Len(Append(s, e)) = Len(s) + 1
               /\ Len(s) \in Nat /\ Append(s, e)[Len(Append(s, e))] = e
    OBVIOUS
  <2> QED  BY <1>2, <1>3, <2>1 DEF Last
<1>5. NamesNoApp(base.history) => NamesNoApp(h)
  <2>1. \A i \in DOMAIN h : (i \in DOMAIN base.history /\ h[i] = base.history[i]) \/ h[i] = entry
    BY <1>2, <1>3
  <2> QED  BY <1>3, <2>1 DEF NamesNoApp
<1>6. /\ adder' \in [Adders -> {NoAdder} \cup Prunes]
      /\ adder'[a].pc = "prune" /\ adder'[a].now = day
      /\ \A b \in Adders : b # a => adder'[b] = adder[b]
  BY <1>1, <1>2 DEF Prunes
<1> HIDE DEF h
<1>7. /\ base'.history = h
      /\ (LibTyped /\ NothingLeft /\ CommandStands /\ RestoreKnown /\ RestoredTogether)'
      /\ ListsKept(base)'
  BY <1>1, <1>2, <1>4, <1>6, HistoryFrame
<1>8. PrunesKnown'
  BY <1>1, <1>2, <1>6 DEF LibInv, PrunesKnown
<1>9. NewestLast'
  BY <1>1, <1>3, <1>4, <1>7, <1>8 DEF NewestLast, PrunesKnown
<1>10. HistoryKept(base.history)'
  <2>3. Over \in Nat /\ Over' = Over + 1
    <3>1. adder[a].pc # "prune" /\ adder'[a].pc = "prune" /\ unpruned' = unpruned
      BY <1>1, <1>6
    <3> QED  BY <1>2, <1>6, <3>1, OverIs DEF Over, Pruning, Adders
  <2>4. Bounded(base.history)'
    <3>1. PICK p \in Policies : Len(base.history) <= p.max + Over
      BY DEF LibInv, HistoryKept, Bounded
    <3>2. p.max \in Nat
      BY LibraryAssumption
    <3>3. Len(h) <= p.max + Over'
      BY <1>4, <2>3, <3>1, <3>2
    <3> QED  BY <1>7, <3>3 DEF Bounded
  <2>5. NamesNoApp(h)
    BY <1>2, <1>5 DEF LibInv, HistoryKept
  <2> QED  BY <1>7, <2>4, <2>5 DEF HistoryKept, NamesNoApp
<1> QED  BY <1>7, <1>8, <1>9, <1>10 DEF LibInv

LEMMA FewerNames ==
  ASSUME NEW h, NEW g, ToSet(g) \subseteq ToSet(h), NamesNoApp(h)
  PROVE  NamesNoApp(g)
BY DEF NamesNoApp, ToSet

\* What a deletion leaves of the history: with the newest entry, if that is not
\* older than what is kept.
LEMMA HistoryShrinks ==
  ASSUME LibInv, running, work.pc = 0, Outdates, NEW a \in Adders, adder[a].pc # "idle",
         NEW h \in Seq(EntrySet), base' = [base EXCEPT !.history = h], ToSet(h) \subseteq ToSet(base.history),
         newest # 0 => h # <<>> /\ Last(h) = Last(base.history),
         \E p \in Policies : Len(h) <= p.max + Over', unpruned' \in Nat,
         \/ adder' = [adder EXCEPT ![a] = NoAdder]
         \/ adder' = [adder EXCEPT ![a] = [adder[a] EXCEPT !.pc = "expire"]],
         UNCHANGED <<work, running, day, ids, starts, newest, raced>>
  PROVE  LibInv'
<1>1. /\ adder \in [Adders -> {NoAdder} \cup Prunes] /\ running = TRUE /\ ids \in Nat /\ newest \in Nat
      /\ adder[a] \in Prunes
  BY DEF LibInv, LibTyped, NoAdder
<1>2. /\ adder' \in [Adders -> {NoAdder} \cup Prunes] /\ \A b \in Adders : b # a => adder'[b] = adder[b]
      /\ adder'[a].pc # "idle" => adder'[a].now = adder[a].now
  <2> DEFINE r == [adder[a] EXCEPT !.pc = "expire"]
  <2>1. r \in Prunes /\ r.now = adder[a].now
    BY <1>1 DEF Prunes
  <2>2. NoAdder.pc = "idle"
    BY DEF NoAdder
  <2> HIDE DEF r
  <2>3. CASE adder' = [adder EXCEPT ![a] = NoAdder]
    BY <1>1, <2>2, <2>3
  <2>4. CASE adder' = [adder EXCEPT ![a] = r]
    BY <1>1, <2>1, <2>4
  <2> QED  BY <2>3, <2>4 DEF r
<1>3. /\ base'.history = h
      /\ (LibTyped /\ NothingLeft /\ CommandStands /\ RestoreKnown /\ RestoredTogether)'
      /\ ListsKept(base)'
  BY <1>1, <1>2, HistoryFrame
<1>4. PrunesKnown' /\ NewestLast'
  BY <1>1, <1>2, <1>3 DEF LibInv, PrunesKnown, NewestLast
<1>5. HistoryKept(base.history)'
  <2>1. NamesNoApp(h)
    BY <1>1, FewerNames DEF LibInv, HistoryKept
  <2>2. Bounded(base.history)'
    BY <1>3 DEF Bounded
  <2> QED  BY <1>3, <2>1, <2>2 DEF HistoryKept, NamesNoApp
<1> QED  BY <1>3, <1>4, <1>5 DEF LibInv

\* A deletion that fails.
LEMMA DeletionFails ==
  ASSUME LibInv, NEW a \in Adders, adder' = [adder EXCEPT ![a] = NoAdder], Over' = Over, unpruned' \in Nat,
         UNCHANGED <<base, command, work, running, day, ids, starts, newest, raced>>
  PROVE  LibInv'
<1>1. /\ adder' \in [Adders -> {NoAdder} \cup Prunes] /\ \A b \in Adders : adder'[b] \in {adder[b], NoAdder}
      /\ running = FALSE => adder' = adder
  <2>1. adder \in [Adders -> {NoAdder} \cup Prunes]
    BY DEF LibInv, LibTyped
  <2>2. ~running => adder = [b \in Adders |-> NoAdder]
    BY DEF LibInv, NothingLeft
  <2> QED  BY <2>1, <2>2
<1>2. (LibTyped /\ NothingLeft)'
  BY <1>1 DEF LibInv, LibTyped, NothingLeft
<1>3. NewestLast' /\ PrunesKnown'
  BY <1>1 DEF LibInv, NewestLast, PrunesKnown, NoAdder
<1>4. (CommandStands /\ RestoredTogether)' /\ ListsKept(base)' /\ HistoryKept(base.history)'
  BY DEF LibInv, CommandStands, RestoredTogether, ListsKept, HistoryKept, Bounded
<1>5. RestoreKnown'
  <2>1. (work # NoWork => ListsKept(work.base) /\ HistoryKept(work.base.history))'
    BY DEF LibInv, RestoreKnown, ListsKept, HistoryKept, Bounded
  <2> QED  BY <2>1 DEF LibInv, RestoreKnown
<1> QED  BY <1>2, <1>3, <1>4, <1>5 DEF LibInv

LEMMA PrunesStep ==
  ASSUME LibInv, NEW a \in Adders, HistoryPrunes(a)
  PROVE  LibInv'
<1> DEFINE max == adder[a].policy.max
           h   == LastOnes(base.history, max)
<1>1. /\ running /\ work.pc = 0 /\ adder[a].pc = "prune"
      /\ UNCHANGED <<work, running, day, ids, starts, newest, raced>>
  BY DEF HistoryPrunes, HistoryFree
<1>2. /\ LibTyped /\ base.history \in Seq(EntrySet) /\ unpruned \in Nat
      /\ adder \in [Adders -> {NoAdder} \cup Prunes]
  BY DEF LibInv, LibTyped, BaseSet
<1>3. adder[a].policy \in Policies /\ max \in Nat \ {0}
  <2>1. adder[a].policy \in Policies
    BY <1>1, <1>2 DEF NoAdder, Prunes
  <2> QED  BY <2>1, LibraryAssumption
<1>4. CASE /\ base' = [base EXCEPT !.history = h]
           /\ adder' = [adder EXCEPT ![a] = IF @.policy.days > 0 THEN [@ EXCEPT !.pc = "expire"] ELSE NoAdder]
           /\ unpruned' = 0 /\ Outdates
  <2>1. /\ h \in Seq(EntrySet) /\ Len(h) <= max /\ ToSet(h) \subseteq ToSet(base.history)
        /\ base.history # <<>> => h # <<>> /\ Last(h) = Last(base.history)
    BY <1>2, <1>3, LastOnesIs
  <2> HIDE DEF h
  <2>2. \E p \in Policies : Len(h) <= p.max + Over'
    <3>1. Over' \in Nat /\ Len(h) \in Nat
      BY <1>4, <2>1, OverIs
    <3>2. Len(h) <= max + Over'
      BY <1>3, <2>1, <3>1
    <3> QED  BY <1>3, <3>2
  <2>3. newest # 0 => h # <<>> /\ Last(h) = Last(base.history)
    BY <2>1 DEF LibInv, NewestLast
  <2>4. \/ adder' = [adder EXCEPT ![a] = NoAdder]
        \/ adder' = [adder EXCEPT ![a] = [adder[a] EXCEPT !.pc = "expire"]]
    BY <1>2, <1>4
  <2>5. running /\ work.pc = 0 /\ adder[a].pc # "idle" /\ unpruned' \in Nat
    BY <1>1, <1>4
  <2> QED  BY <1>1, <1>4, <2>1, <2>2, <2>3, <2>4, <2>5, HistoryShrinks
<1>5. CASE /\ adder' = [adder EXCEPT ![a] = NoAdder]
           /\ unpruned' = unpruned + 1 /\ UNCHANGED <<base, command>>
  <2>1. Over' = Over
    <3>1. adder'[a].pc # "prune" /\ \A b \in Adders : b # a => adder'[b] = adder[b]
      BY <1>2, <1>5 DEF NoAdder
    <3>2. unpruned' = unpruned + 1
      BY <1>5
    <3> QED  BY <1>1, <1>2, <3>1, <3>2, OverIs DEF Over, Pruning, Adders
  <2>2. unpruned' \in Nat
    BY <1>2, <1>5
  <2> QED  BY <1>1, <1>5, <2>1, <2>2, DeletionFails
<1> QED  BY <1>4, <1>5 DEF HistoryPrunes

LEMMA ExpiresStep ==
  ASSUME LibInv, NEW a \in Adders, HistoryExpires(a)
  PROVE  LibInv'
<1> DEFINE policy == adder[a].policy
           h      == Recent(base.history, policy, adder[a].now)
<1>1. /\ running /\ work.pc = 0 /\ adder[a].pc = "expire" /\ adder' = [adder EXCEPT ![a] = NoAdder]
      /\ UNCHANGED <<work, running, day, ids, starts, newest, raced, unpruned>>
  BY DEF HistoryExpires
<1>2. /\ LibTyped /\ base.history \in Seq(EntrySet) /\ unpruned \in Nat
      /\ adder \in [Adders -> {NoAdder} \cup Prunes]
  BY DEF LibInv, LibTyped, BaseSet
<1>3. policy \in Policies /\ policy.days \in Nat /\ adder[a].now \in Nat
  <2>1. policy \in Policies /\ adder[a].now \in Nat
    BY <1>1, <1>2 DEF NoAdder, Prunes
  <2> QED  BY <2>1, LibraryAssumption
<1>4. Over' = Over
  <2>1. adder'[a].pc # "prune" /\ \A b \in Adders : b # a => adder'[b] = adder[b]
    BY <1>1, <1>2 DEF NoAdder
  <2> QED  BY <1>1, <2>1, OverIs DEF Over, Pruning, Adders
<1>5. CASE base' = [base EXCEPT !.history = h] /\ Outdates
  <2> HIDE DEF policy
  <2>1. /\ h \in Seq(EntrySet) /\ Len(h) <= Len(base.history) /\ ToSet(h) \subseteq ToSet(base.history)
        /\ base.history # <<>> /\ (policy.days > 0 => Last(base.history).day + policy.days >= adder[a].now)
             => h # <<>> /\ Last(h) = Last(base.history)
    BY <1>2, RecentIs
  <2> HIDE DEF h
  <2>2. \E p \in Policies : Len(h) <= p.max + Over'
    <3>1. PICK p \in Policies : Len(base.history) <= p.max + Over
      BY DEF LibInv, HistoryKept, Bounded
    <3>2. p.max \in Nat /\ Over \in Nat /\ Len(h) \in Nat /\ Len(base.history) \in Nat
      BY <1>2, <2>1, LibraryAssumption, OverIs
    <3>3. Len(h) <= p.max + Over'
      BY <1>4, <2>1, <3>1, <3>2
    <3> QED  BY <3>3
  <2>3. newest # 0 => h # <<>> /\ Last(h) = Last(base.history)
    <3> SUFFICES ASSUME newest # 0 PROVE h # <<>> /\ Last(h) = Last(base.history)
      OBVIOUS
    <3>1. base.history # <<>> /\ adder[a].now <= Last(base.history).day
      BY <1>1 DEF LibInv, NewestLast
    <3>2. Last(base.history).day \in Nat
      <4>1. base.history[Len(base.history)] \in EntrySet
        BY <1>2, <3>1
      <4> QED  BY <4>1 DEF Last, EntrySet
    <3> QED  BY <1>3, <2>1, <3>1, <3>2
  <2> QED  BY <1>1, <1>2, <1>5, <2>1, <2>2, <2>3, HistoryShrinks
<1>6. CASE UNCHANGED <<base, command>>
  BY <1>1, <1>2, <1>4, <1>6, DeletionFails
<1> QED  BY <1>5, <1>6 DEF HistoryExpires

LEMMA ClearsStep ==
  ASSUME LibInv, ClearsHistory
  PROVE  LibInv'
<1>1. /\ running /\ work.pc = 0 /\ Outdates /\ base' = [base EXCEPT !.history = <<>>] /\ newest' = 0
      /\ unpruned' = 0 /\ UNCHANGED <<work, adder, running, day, ids, starts, raced>>
  BY DEF ClearsHistory, HistoryFree
<1>2. ids \in Nat /\ adder \in [Adders -> {NoAdder} \cup Prunes] /\ <<>> \in Seq(EntrySet) /\ running = TRUE
  BY <1>1 DEF LibInv, LibTyped
<1> DEFINE h == <<>>
<1>a. h \in Seq(EntrySet) /\ base' = [base EXCEPT !.history = h] /\ newest' \in Nat /\ ids' \in Nat /\ ids <= ids'
      /\ unpruned' \in Nat /\ adder' \in [Adders -> {NoAdder} \cup Prunes]
  BY <1>1, <1>2
<1>b. h = <<>>
  OBVIOUS
<1> HIDE DEF h
<1>3. /\ base'.history = h
      /\ (LibTyped /\ NothingLeft /\ CommandStands /\ RestoreKnown /\ RestoredTogether)'
      /\ ListsKept(base)'
  BY <1>1, <1>a, HistoryFrame
<1>4. PrunesKnown' /\ NewestLast'
  BY <1>1 DEF LibInv, PrunesKnown, NewestLast
<1>5. HistoryKept(base.history)'
  <2>1. Over' \in Nat
    BY <1>1 DEF Over, Pruning
  <2>2. PICK p \in Policies : p.max \in Nat \ {0}
    BY LibraryAssumption
  <2>3. Len(h) <= p.max + Over'
    BY <1>b, <2>1, <2>2
  <2>4. Bounded(base.history)'
    BY <1>3, <2>3 DEF Bounded
  <2> QED  BY <1>3, <1>b, <2>4 DEF HistoryKept, NamesNoApp
<1> QED  BY <1>3, <1>4, <1>5 DEF LibInv

LEMMA BeginsStep ==
  ASSUME LibInv, NEW backup \in Backups, NEW policy \in Policies, BackupBegins(backup, policy)
  PROVE  LibInv'
<1>1. /\ running = TRUE /\ base.restored = {} /\ Accepts(backup)
      /\ work' = [pc |-> 1, base |-> base, backup |-> backup, policy |-> policy]
      /\ UNCHANGED <<base, command, adder, running, day, ids, starts, newest, raced, unpruned>>
  BY DEF BackupBegins, HistoryFree, LibInv, LibTyped
<1>2. work' \in WorkSet /\ work'.pc = 1 /\ work'.base = base /\ work'.backup = backup
  BY <1>1 DEF LibInv, LibTyped, WorkSet
<1>3. LibTyped'
  BY <1>1, <1>2 DEF LibInv, LibTyped
<1>4. ListsKept(base)' /\ HistoryKept(base.history)'
  BY <1>1 DEF LibInv, ListsKept, HistoryKept, Bounded, Over, Pruning
<1>5. RestoreKnown'
  <2>1. DoneBefore(1) = {}
    BY DEF DoneBefore
  <2>2. ListsKept(work.base)' /\ HistoryKept(work.base.history)'
    BY <1>2, <1>4, <1>1 DEF ListsKept, HistoryKept, Bounded, Over, Pruning
  <2> QED  BY <1>1, <1>2, <2>1, <2>2 DEF RestoreKnown
<1>6. (NothingLeft /\ CommandStands /\ NewestLast /\ PrunesKnown /\ RestoredTogether)'
  BY <1>1 DEF LibInv, NothingLeft, CommandStands, NewestLast, PrunesKnown, RestoredTogether
<1> QED  BY <1>3, <1>4, <1>5, <1>6 DEF LibInv

\* The entries of a backup come with no name of an application, and no more of
\* them than the policy allows.
LEMMA RestoredEntries ==
  ASSUME NEW rows \in Seq([id : {0}, day : Nat, app : {"none"}]), NEW policy \in Policies, ids \in Nat
  PROVE  LET h == Restored("history", rows, policy)
         IN  h \in Seq(EntrySet) /\ NamesNoApp(h) /\ Len(h) <= policy.max
<1> DEFINE E      == [id : {0}, day : Nat, app : {"none"}]
           h      == Restored("history", rows, policy)
           recent == Recent(rows, policy, day)
           n      == Min({policy.max, Len(recent)})
           first  == SubSeq(recent, 1, n)
           back   == Reverse(first)
<1>1. policy.max \in Nat
  BY LibraryAssumption
<1>2. CASE ~policy.enabled
  <2>1. h = <<>>
    BY <1>2 DEF Restored
  <2> HIDE DEF h
  <2>2. h \in Seq(EntrySet) /\ Len(h) = 0 /\ NamesNoApp(h)
    BY <2>1 DEF NamesNoApp
  <2> QED  BY <1>1, <2>2 DEF h
<1>3. CASE policy.enabled
  <2>1. h = Numbered(back, ids)
    BY <1>3 DEF Restored
  <2>a. rows \in Seq(E)
    OBVIOUS
  <2> HIDE DEF h, E
  <2>2. recent \in Seq(E)
    BY <2>a, RecentIs
  <2>b. Len(recent) \in Nat
    BY <2>2
  <2> HIDE DEF recent
  <2>3. n \in Nat /\ n <= policy.max /\ n <= Len(recent)
    BY <1>1, <2>b, LeastOf
  <2> HIDE DEF n
  <2>4. first \in Seq(E) /\ Len(first) = n
    BY <2>2, <2>3, <2>b
  <2> HIDE DEF first
  <2>5. back \in Seq(E) /\ Len(back) = n
    <3>1. back = [i \in 1 .. Len(first) |-> first[(Len(first) - i) + 1]]
      BY DEF Reverse
    <3>2. \A i \in 1 .. Len(first) : (Len(first) - i) + 1 \in 1 .. Len(first)
      BY <2>4, <2>3
    <3>3. \A i \in 1 .. Len(first) : first[i] \in E
      BY <2>4
    <3>4. back \in [1 .. Len(first) -> E]
      BY <3>1, <3>2, <3>3
    <3> QED  BY <2>3, <2>4, <3>4
  <2> HIDE DEF back
  <2>6. /\ h = [i \in DOMAIN back |-> [back[i] EXCEPT !.id = IF @ = 0 THEN ids + i ELSE @]]
        /\ DOMAIN back = 1 .. n
    BY <2>1, <2>3, <2>5 DEF Numbered
  <2>7. ASSUME NEW i \in 1 .. n
        PROVE  h[i] \in EntrySet /\ h[i].app = "none"
    <3>1. back[i] \in E
      BY <2>5, <2>6
    <3>2. back[i].id = 0 /\ back[i] \in [id : {0}, day : Nat, app : {"none"}]
      BY <3>1 DEF E
    <3>3. h[i] = [back[i] EXCEPT !.id = ids + i] /\ ids + i \in Nat
      BY <2>3, <2>6, <3>2
    <3> QED  BY <3>2, <3>3 DEF EntrySet
  <2>8. h \in [1 .. n -> EntrySet] /\ DOMAIN h = 1 .. n
    <3>1. h = [i \in 1 .. n |-> h[i]]
      BY <2>6
    <3> QED  BY <2>7, <3>1
  <2>9. h \in Seq(EntrySet) /\ Len(h) = n
    BY <2>3, <2>8
  <2>10. NamesNoApp(h)
    BY <2>7, <2>8 DEF NamesNoApp
  <2> QED  BY <2>3, <2>9, <2>10 DEF h
<1> QED  BY <1>2, <1>3

\* What a restore writes into a table has new ids and no twins.
LEMMA RestoredRows ==
  ASSUME NEW s \in Lists, NEW rows \in Seq(NewRows), NEW policy, ids \in Nat
  PROVE  LET r == Restored(s, rows, policy)
         IN  r \in Seq(RowSet) /\ IdsUpTo(r, ids + Len(rows)) /\ Twinless(r)
<1> DEFINE r   == Restored(s, rows, policy)
           new == News(<<>>, rows)
           none == <<>>
<1>1. r = Numbered(new, ids)
  BY DEF Restored, Lists
<1> HIDE DEF r
<1>2. none \in Seq(NewRows) /\ Len(none) = 0 /\ Twinless(none) /\ Len(rows) \in Nat
  BY DEF Twinless
<1>3. new \in Seq(NewRows) /\ Len(new) <= Len(rows) /\ Twinless(new)
  <2>1. none = <<>>
    OBVIOUS
  <2> HIDE DEF none
  <2>2. /\ News(none, rows) \in Seq(NewRows) /\ Len(News(none, rows)) <= Len(none) + Len(rows)
        /\ Grown(none, rows, News(none, rows))
    BY <1>2, NewsIs
  <2> QED  BY <1>2, <2>1, <2>2 DEF Grown
<1> HIDE DEF new, none
<1>4. \A i \in DOMAIN new : new[i].id = 0 /\ i > 0
  <2>1. \A i \in DOMAIN new : new[i] \in NewRows /\ i \in Nat \ {0}
    BY <1>3
  <2> QED  BY <2>1 DEF NewRows
<1>5. new \in Seq(RowSet) /\ Len(new) \in Nat
  <2>1. NewRows \subseteq RowSet
    BY DEF NewRows, RowSet
  <2> QED  BY <1>3, <2>1
<1>6. /\ Numbered(new, ids) \in Seq(RowSet) /\ IdsUpTo(Numbered(new, ids), ids + Len(new))
      /\ Twinless(Numbered(new, ids))
  <2>0. \A i \in DOMAIN new : i \in Nat
    BY <1>5
  <2> DEFINE k == 0
  <2>1. /\ k \in Nat /\ k <= ids
        /\ \A i \in DOMAIN new : IF i <= k THEN new[i].id \in 1 .. k ELSE new[i].id = 0
        /\ \A i, j \in DOMAIN new : i <= k /\ j <= k /\ new[i].id = new[j].id => i = j
    BY <1>4, <2>0
  <2> HIDE DEF k
  <2> QED  BY <1>3, <1>5, <2>1, NumberedRows
<1>7. IdsUpTo(r, ids + Len(rows))
  BY <1>1, <1>2, <1>3, <1>5, <1>6, MoreIds
<1> QED  BY <1>1, <1>6, <1>7 DEF r

\* The entries and the rows of a backup that is accepted.
LEMMA BackupIs ==
  ASSUME NEW backup \in Backups, Accepts(backup)
  PROVE  /\ DOMAIN backup \subseteq Sections
         /\ "history" \in DOMAIN backup => backup["history"] \in Seq([id : {0}, day : Nat, app : {"none"}])
         /\ \A l \in Lists \cap DOMAIN backup : backup[l] \in Seq(NewRows)
<1>1. /\ DOMAIN backup \subseteq Sections
      /\ "history" \in DOMAIN backup => backup["history"] \in Seq(NewEntries)
      /\ \A l \in Lists \cap DOMAIN backup : backup[l] \in Seq(NewRows)
  BY InputAssumption
<1>2. ASSUME "history" \in DOMAIN backup
      PROVE  backup["history"] \in Seq([id : {0}, day : Nat, app : {"none"}])
  <2> DEFINE h == backup["history"]
             E == [id : {0}, day : Nat, app : {"none"}]
  <2>1. \A i \in DOMAIN h : h[i].app # "bad"
    BY <1>2 DEF Accepts
  <2>2. h \in Seq(NewEntries)
    BY <1>1, <1>2
  <2> HIDE DEF h
  <2>3. \A i \in DOMAIN h : h[i] \in NewEntries
    BY <2>2
  <2>4. \A i \in DOMAIN h : h[i] \in E
    BY <2>1, <2>3 DEF NewEntries
  <2> HIDE DEF E
  <2>5. h \in Seq(E)
    BY <2>2, <2>4
  <2> QED  BY <2>5 DEF h, E
<1> QED  BY <1>1, <1>2

LEMMA DoneNext ==
  ASSUME NEW n \in 1 .. 3
  PROVE  DoneBefore(n + 1) = DoneBefore(n) \cup {Order[n]} /\ Order[n] \in Sections /\ Order[n] \notin DoneBefore(n)
<1>1. 1 .. (2 - 1) = {1} /\ 1 .. (3 - 1) = {1, 2} /\ 1 .. (4 - 1) = {1, 2, 3} /\ 1 .. (1 - 1) = {}
  OBVIOUS
<1>2. Order[1] = "history" /\ Order[2] = "dictionary" /\ Order[3] = "rules"
  BY DEF Order
<1>3. /\ DoneBefore(1) = {} /\ DoneBefore(2) = {"history"} /\ DoneBefore(3) = {"history", "dictionary"}
      /\ DoneBefore(4) = {"history", "dictionary", "rules"}
  BY <1>1, <1>2 DEF DoneBefore
<1>4. n = 1 \/ n = 2 \/ n = 3
  OBVIOUS
<1>5. 1 + 1 = 2 /\ 2 + 1 = 3 /\ 3 + 1 = 4
  OBVIOUS
<1> QED  BY <1>2, <1>3, <1>4, <1>5 DEF Sections, Lists

\* What a section takes the place of.
Put(b, s, rows) == [b EXCEPT ![s] = rows, !.restored = @ \cup {s}]

LEMMA PutIs ==
  ASSUME NEW b \in BaseSet, NEW s \in Sections, NEW rows,
         s = "history" => rows \in Seq(EntrySet), s \in Lists => rows \in Seq(RowSet)
  PROVE  /\ Put(b, s, rows) \in BaseSet /\ Put(b, s, rows).restored = b.restored \cup {s}
         /\ Put(b, s, rows)[s] = rows
         /\ \A x \in Sections : x # s => Put(b, s, rows)[x] = b[x]
<1>1. b.restored \cup {s} \in SUBSET Sections
  BY DEF BaseSet
<1>2. CASE s = "history"
  <2>0. rows \in Seq(EntrySet) /\ b.restored \cup {"history"} \in SUBSET Sections
    BY <1>1, <1>2 DEF Lists
  <2>1. /\ Put(b, "history", rows) \in BaseSet /\ Put(b, "history", rows).restored = b.restored \cup {"history"}
        /\ Put(b, "history", rows)["history"] = rows
        /\ \A x \in Sections : x # "history" => Put(b, "history", rows)[x] = b[x]
    <3> DEFINE c == [b EXCEPT !["history"] = rows]
    <3>1. /\ c \in BaseSet /\ c.restored = b.restored
          /\ c["history"] = rows
          /\ \A x \in Sections : x # "history" => c[x] = b[x]
      BY <2>0 DEF BaseSet, Sections, Lists
    <3>2. Put(b, "history", rows) = [c EXCEPT !.restored = b.restored \cup {"history"}]
      BY Zenon DEF Put
    <3> HIDE DEF c
    <3> DEFINE e == Put(b, "history", rows)
    <3>3. e \in BaseSet /\ e.restored = b.restored \cup {"history"}
      BY <2>0, <3>1, <3>2 DEF BaseSet
    <3>4. \A x \in Sections : e[x] = c[x]
      BY <3>1, <3>2 DEF BaseSet, Sections, Lists
    <3> QED  BY <3>1, <3>3, <3>4 DEF Sections, Lists
  <2> QED  BY <1>2, <2>1
<1>3. CASE s = "dictionary"
  <2>0. rows \in Seq(RowSet) /\ b.restored \cup {"dictionary"} \in SUBSET Sections
    BY <1>1, <1>3 DEF Lists
  <2>1. /\ Put(b, "dictionary", rows) \in BaseSet /\ Put(b, "dictionary", rows).restored = b.restored \cup {"dictionary"}
        /\ Put(b, "dictionary", rows)["dictionary"] = rows
        /\ \A x \in Sections : x # "dictionary" => Put(b, "dictionary", rows)[x] = b[x]
    <3> DEFINE c == [b EXCEPT !["dictionary"] = rows]
    <3>1. /\ c \in BaseSet /\ c.restored = b.restored
          /\ c["dictionary"] = rows
          /\ \A x \in Sections : x # "dictionary" => c[x] = b[x]
      BY <2>0 DEF BaseSet, Sections, Lists
    <3>2. Put(b, "dictionary", rows) = [c EXCEPT !.restored = b.restored \cup {"dictionary"}]
      BY Zenon DEF Put
    <3> HIDE DEF c
    <3> DEFINE e == Put(b, "dictionary", rows)
    <3>3. e \in BaseSet /\ e.restored = b.restored \cup {"dictionary"}
      BY <2>0, <3>1, <3>2 DEF BaseSet
    <3>4. \A x \in Sections : e[x] = c[x]
      BY <3>1, <3>2 DEF BaseSet, Sections, Lists
    <3> QED  BY <3>1, <3>3, <3>4 DEF Sections, Lists
  <2> QED  BY <1>3, <2>1
<1>4. CASE s = "rules"
  <2>0. rows \in Seq(RowSet) /\ b.restored \cup {"rules"} \in SUBSET Sections
    BY <1>1, <1>4 DEF Lists
  <2>1. /\ Put(b, "rules", rows) \in BaseSet /\ Put(b, "rules", rows).restored = b.restored \cup {"rules"}
        /\ Put(b, "rules", rows)["rules"] = rows
        /\ \A x \in Sections : x # "rules" => Put(b, "rules", rows)[x] = b[x]
    <3> DEFINE c == [b EXCEPT !["rules"] = rows]
    <3>1. /\ c \in BaseSet /\ c.restored = b.restored
          /\ c["rules"] = rows
          /\ \A x \in Sections : x # "rules" => c[x] = b[x]
      BY <2>0 DEF BaseSet, Sections, Lists
    <3>2. Put(b, "rules", rows) = [c EXCEPT !.restored = b.restored \cup {"rules"}]
      BY Zenon DEF Put
    <3> HIDE DEF c
    <3> DEFINE e == Put(b, "rules", rows)
    <3>3. e \in BaseSet /\ e.restored = b.restored \cup {"rules"}
      BY <2>0, <3>1, <3>2 DEF BaseSet
    <3>4. \A x \in Sections : e[x] = c[x]
      BY <3>1, <3>2 DEF BaseSet, Sections, Lists
    <3> QED  BY <3>1, <3>3, <3>4 DEF Sections, Lists
  <2> QED  BY <1>4, <2>1
<1> QED  BY <1>2, <1>3, <1>4 DEF Sections, Lists

\* What the transaction of a restore holds after a section, with the ids up to n.
WorkKept(next, n) ==
  /\ next \in BaseSet /\ n \in Nat /\ ids <= n
  /\ next.restored = DOMAIN work.backup \cap DoneBefore(work.pc + 1)
  /\ "history" \notin next.restored => next.history = base.history
  /\ KeptUpTo(next, n, raced) /\ HistoryKept(next.history)

LEMMA WritesFrame ==
  ASSUME LibInv, work.pc \in 1 .. 3, work \in WorkSet, NEW next, WorkKept(next, ids'), Writes(next),
         UNCHANGED <<command, adder, running, day, ops, starts, newest, raced, unpruned>>
  PROVE  LibInv'
<1>0. /\ work' = [work EXCEPT !.base = next, !.pc = work.pc + 1] /\ base' = base
      /\ work # NoWork
  BY DEF Writes, NoWork
<1>1. /\ LibTyped /\ work.backup \in Backups /\ ids \in Nat /\ running = TRUE
  BY <1>0 DEF LibInv, WorkSet, LibTyped, NothingLeft
<1>2. /\ base.restored = {} /\ Accepts(work.backup)
  BY <1>0 DEF LibInv, RestoreKnown
<1>3. next \in BaseSet /\ ids' \in Nat /\ ids <= ids' /\ KeptUpTo(next, ids', raced) /\ HistoryKept(next.history)
  BY DEF WorkKept
<1>4. /\ work' \in WorkSet /\ work'.base = next /\ work'.backup = work.backup /\ work'.pc = work.pc + 1
  <2> DEFINE m == work.pc + 1
  <2>1. m \in 1 .. 4
    OBVIOUS
  <2> HIDE DEF m
  <2>2. work' = [work EXCEPT !.base = next, !.pc = m]
    BY <1>0 DEF m
  <2>3. /\ work' \in WorkSet /\ work'.base = next /\ work'.backup = work.backup /\ work'.pc = m
    BY <1>3, <2>1, <2>2 DEF WorkSet
  <2> QED  BY <2>3 DEF m
<1>5. LibTyped'
  BY <1>0, <1>1, <1>3, <1>4 DEF LibTyped
<1>6. ListsKept(base)'
  <2>1. KeptUpTo(base, ids', raced)
    BY <1>1, <1>3, KeptMore DEF LibInv, LibTyped, ListsKept
  <2> QED  BY <1>0, <2>1 DEF ListsKept
<1>7. HistoryKept(base.history)'
  BY <1>0 DEF LibInv, HistoryKept, Bounded, Over, Pruning
<1>8. RestoreKnown'
  <2>1. ListsKept(work.base)' /\ HistoryKept(work.base.history)'
    BY <1>3, <1>4 DEF ListsKept, HistoryKept, Bounded, Over, Pruning
  <2> QED  BY <1>0, <1>2, <1>4, <2>1 DEF RestoreKnown, WorkKept
<1>9. CommandStands'
  <2>1. command.pc = "write" => command.row.id \in Nat
    BY <1>1, CommandIs DEF Checked, RowSet
  <2>2. command.pc = "write" => command.row.id <= ids'
    BY <1>1, <1>3, <2>1 DEF LibInv, CommandStands
  <2> QED  BY <1>0, <2>2 DEF LibInv, CommandStands
<1>10. (NothingLeft /\ NewestLast /\ PrunesKnown /\ RestoredTogether)'
  BY <1>0, <1>1 DEF LibInv, NothingLeft, NewestLast, PrunesKnown, RestoredTogether
<1> QED  BY <1>5, <1>6, <1>7, <1>8, <1>9, <1>10 DEF LibInv

\* One section of a backup is written.
LEMMA WritesStep ==
  ASSUME LibInv, BackupWrites
  PROVE  LibInv'
<1> DEFINE s    == Order[work.pc]
           rows == Restored(s, work.backup[s], work.policy)
           next == Put(work.base, s, rows)
<1>a. /\ work.pc \in DOMAIN Order
      /\ UNCHANGED <<command, adder, running, day, ops, starts, newest, raced, unpruned>>
      /\ \/ s \in DOMAIN work.backup /\ Writes(next) /\ ids' = ids + Len(work.backup[s])
         \/ s \notin DOMAIN work.backup /\ Writes(work.base) /\ UNCHANGED ids
  BY Zenon DEF BackupWrites, Put
<1>1. work.pc \in 1 .. 3 /\ work \in WorkSet /\ work # NoWork
  <2>1. DOMAIN Order = 1 .. 3
    BY DEF Order
  <2>2. work.pc \in 1 .. 3
    BY <1>a, <2>1
  <2>3. work # NoWork
    BY <2>2 DEF NoWork
  <2> QED  BY <2>2, <2>3, WorkIs DEF LibInv
<1>2. /\ LibTyped /\ work.backup \in Backups /\ work.base \in BaseSet /\ work.policy \in Policies /\ ids \in Nat
      /\ Accepts(work.backup)
  BY <1>1 DEF LibInv, WorkSet, RestoreKnown, LibTyped
<1>3. /\ work.base.restored = DOMAIN work.backup \cap DoneBefore(work.pc)
      /\ "history" \notin work.base.restored => work.base.history = base.history
      /\ ListsKept(work.base) /\ HistoryKept(work.base.history)
  BY <1>1 DEF LibInv, RestoreKnown
<1>4. DoneBefore(work.pc + 1) = DoneBefore(work.pc) \cup {s} /\ s \in Sections
  BY <1>1, DoneNext
<1>5. /\ DOMAIN work.backup \subseteq Sections
      /\ "history" \in DOMAIN work.backup => work.backup["history"] \in Seq([id : {0}, day : Nat, app : {"none"}])
      /\ \A l \in Lists \cap DOMAIN work.backup : work.backup[l] \in Seq(NewRows)
  BY <1>2, BackupIs
<1> HIDE DEF s, next, rows
<1>6. CASE s \notin DOMAIN work.backup /\ Writes(work.base) /\ UNCHANGED ids
  <2>1. work.base.restored = DOMAIN work.backup \cap DoneBefore(work.pc + 1)
    BY <1>3, <1>4, <1>6
  <2>2. WorkKept(work.base, ids')
    BY <1>2, <1>3, <1>6, <2>1 DEF ListsKept, WorkKept
  <2> QED  BY <1>a, <1>1, <1>6, <2>2, WritesFrame
<1>7. CASE s \in DOMAIN work.backup /\ Writes(next) /\ ids' = ids + Len(work.backup[s])
  <2>1. Len(work.backup[s]) \in Nat
    <3>1. CASE s = "history"
      <4>1. work.backup[s] \in Seq([id : {0}, day : Nat, app : {"none"}])
        BY <1>5, <1>7, <3>1
      <4> QED  BY <4>1
    <3>2. CASE s \in Lists
      <4>1. work.backup[s] \in Seq(NewRows)
        BY <1>5, <1>7, <3>2
      <4> QED  BY <4>1
    <3> QED  BY <1>4, <3>1, <3>2 DEF Sections
  <2>2. ids' \in Nat /\ ids <= ids'
    BY <1>2, <1>7, <2>1
  <2>3. KeptUpTo(work.base, ids', raced)
    BY <1>2, <1>3, <2>2, KeptMore DEF ListsKept
  <2>4. work.base.restored \cup {s} = DOMAIN work.backup \cap DoneBefore(work.pc + 1)
    BY <1>3, <1>4, <1>7
  <2>5. CASE s = "history"
    <3>1. rows \in Seq(EntrySet) /\ NamesNoApp(rows) /\ Len(rows) <= work.policy.max
      BY <1>2, <1>5, <1>7, <2>5, RestoredEntries DEF rows
    <3>2. /\ next \in BaseSet /\ next.restored = work.base.restored \cup {s} /\ next.history = rows
          /\ next.dictionary = work.base.dictionary /\ next.rules = work.base.rules
      BY <1>2, <1>4, <2>5, <3>1, PutIs DEF next, Sections, Lists
    <3>3. KeptUpTo(next, ids', raced)
      BY <2>3, <3>2, SameLists
    <3>4. HistoryKept(rows)
      <4>1. Over \in Nat
        BY <1>2, OverIs
      <4>2. work.policy.max \in Nat /\ Len(rows) \in Nat
        BY <1>2, <3>1, LibraryAssumption
      <4>3. Len(rows) <= work.policy.max + Over
        BY <3>1, <4>1, <4>2
      <4> QED  BY <1>2, <3>1, <4>3 DEF HistoryKept, Bounded
    <3>5. "history" \in next.restored
      BY <2>5, <3>2
    <3>6. WorkKept(next, ids')
      BY <2>2, <2>4, <3>2, <3>3, <3>4, <3>5 DEF WorkKept
    <3> QED  BY <1>a, <1>1, <1>7, <3>6, WritesFrame
  <2>6. CASE s \in Lists
    <3>1. rows \in Seq(RowSet) /\ IdsUpTo(rows, ids') /\ Twinless(rows)
      BY <1>2, <1>5, <1>7, <2>6, RestoredRows DEF rows
    <3>2. s # "history" /\ "history" \in Sections /\ Lists \subseteq Sections
      BY <2>6 DEF Lists, Sections
    <3>3. /\ next \in BaseSet /\ next[s] = rows /\ next.restored = work.base.restored \cup {s}
          /\ \A x \in Sections : x # s => next[x] = work.base[x]
      BY <1>2, <1>4, <3>1, <3>2, PutIs DEF next
    <3>a. next.history = work.base.history
      BY <3>2, <3>3
    <3>4. KeptUpTo(next, ids', raced)
      BY <2>3, <3>1, <3>2, <3>3 DEF KeptUpTo
    <3>5. "history" \notin next.restored => next.history = base.history
      BY <1>3, <3>3, <3>a
    <3>6. WorkKept(next, ids')
      BY <1>3, <2>2, <2>4, <3>3, <3>4, <3>5, <3>a DEF WorkKept
    <3> QED  BY <1>a, <1>1, <1>7, <3>6, WritesFrame
  <2> QED  BY <1>4, <2>5, <2>6 DEF Sections
<1> QED  BY <1>a, <1>6, <1>7

LEMMA FailsStep ==
  ASSUME LibInv, BackupFails
  PROVE  LibInv'
<1>1. work' = NoWork /\ UNCHANGED <<base, command, adder, running, day, ids, ops, starts, newest, raced, unpruned>>
  BY DEF BackupFails
<1>2. (LibTyped /\ NothingLeft /\ CommandStands /\ NewestLast /\ PrunesKnown /\ RestoreKnown /\ RestoredTogether)'
  BY <1>1 DEF LibInv, LibTyped, NothingLeft, CommandStands, NewestLast, PrunesKnown, RestoreKnown, RestoredTogether
<1>3. ListsKept(base)' /\ HistoryKept(base.history)'
  BY <1>1 DEF LibInv, ListsKept, HistoryKept, Bounded, Over, Pruning
<1> QED  BY <1>2, <1>3 DEF LibInv

LEMMA CommitsStep ==
  ASSUME LibInv, BackupCommits
  PROVE  LibInv'
<1>1. /\ work.pc = 4 /\ base' = work.base /\ work' = NoWork
      /\ newest' = IF "history" \in work.base.restored THEN 0 ELSE newest
      /\ command' = [command EXCEPT !.stale = command.pc # "idle", !.replaced = command.pc # "idle"]
      /\ UNCHANGED <<adder, running, day, ids, ops, starts, raced, unpruned>>
  <2>1. Len(Order) + 1 = 4
    BY DEF Order
  <2> QED  BY <2>1 DEF BackupCommits
<1>2. work # NoWork /\ work \in WorkSet
  <2>1. work # NoWork
    BY <1>1 DEF NoWork
  <2> QED  BY <2>1, WorkIs DEF LibInv
<1>3. /\ LibTyped /\ work.base \in BaseSet /\ work.backup \in Backups /\ running = TRUE /\ ids \in Nat
  BY <1>2 DEF LibInv, WorkSet, LibTyped, NothingLeft
<1>4. /\ work.base.restored = DOMAIN work.backup \cap DoneBefore(4) /\ Accepts(work.backup)
      /\ "history" \notin work.base.restored => work.base.history = base.history
      /\ ListsKept(work.base) /\ HistoryKept(work.base.history)
  BY <1>1, <1>2 DEF LibInv, RestoreKnown
<1>5. RestoredTogether'
  <2>1. DoneBefore(4) = Sections
    <3>1. 1 .. (4 - 1) = {1, 2, 3} /\ Order[1] = "history" /\ Order[2] = "dictionary" /\ Order[3] = "rules"
      BY DEF Order
    <3> QED  BY <3>1 DEF DoneBefore, Sections, Lists
  <2>2. work.base.restored = DOMAIN work.backup
    BY <1>3, <1>4, <2>1, BackupIs
  <2> QED  BY <1>1, <1>3, <2>2 DEF RestoredTogether
<1>6. CommandStands' /\ command' \in Idle \cup Checked \cup Read
  <2>1. CASE command.pc = "idle"
    <3>1. command \in Idle /\ command' = [command EXCEPT !.stale = FALSE, !.replaced = FALSE]
      BY <1>1, <1>3, <2>1, CommandIs
    <3>2. command' \in Idle /\ command'.pc = "idle"
      BY <3>1 DEF Idle
    <3> QED  BY <3>2 DEF CommandStands
  <2>2. CASE command.pc = "write"
    <3>1. command \in Checked /\ command' = [command EXCEPT !.stale = TRUE, !.replaced = TRUE]
      BY <1>1, <1>3, <2>2, CommandIs
    <3>2. command' \in Checked /\ command'.pc = "write" /\ command'.replaced = TRUE /\ command'.row = command.row
      BY <3>1 DEF Checked
    <3> QED  BY <1>1, <2>2, <3>2 DEF LibInv, CommandStands
  <2>3. CASE command.pc = "import"
    <3>1. command \in Read /\ command' = [command EXCEPT !.stale = TRUE, !.replaced = TRUE]
      BY <1>1, <1>3, <2>3, CommandIs
    <3>2. command' \in Read /\ command'.pc = "import" /\ command'.stale = TRUE
      BY <3>1 DEF Read
    <3> QED  BY <3>2 DEF CommandStands
  <2> QED  BY <1>3, <2>1, <2>2, <2>3, CommandIs
<1>7. LibTyped'
  <2>1. newest' \in Nat
    BY <1>1, <1>3 DEF LibTyped
  <2> QED  BY <1>1, <1>3, <1>6, <2>1 DEF LibTyped
<1>8. NewestLast'
  <2>1. CASE "history" \in work.base.restored
    BY <1>1, <2>1 DEF NewestLast
  <2>2. CASE "history" \notin work.base.restored
    <3>1. newest' = newest /\ base'.history = base.history
      BY <1>1, <1>4, <2>2
    <3> QED  BY <1>1, <3>1 DEF LibInv, NewestLast
  <2> QED  BY <2>1, <2>2
<1>9. (NothingLeft /\ PrunesKnown /\ RestoreKnown)'
  BY <1>1, <1>3 DEF LibInv, NothingLeft, PrunesKnown, RestoreKnown
<1>10. ListsKept(base)' /\ HistoryKept(base.history)'
  BY <1>1, <1>4 DEF ListsKept, HistoryKept, Bounded, Over, Pruning
<1> QED  BY <1>5, <1>6, <1>7, <1>8, <1>9, <1>10 DEF LibInv

\* A step on the connection of the dictionary that leaves the data base as it is.
LEMMA CommandFrame ==
  ASSUME LibInv, running = TRUE, command' \in Checked \cup Read, CommandStands',
         UNCHANGED <<base, work, adder, running, day, ids, starts, newest, raced, unpruned>>
  PROVE  LibInv'
<1>1. (LibTyped /\ NothingLeft)'
  BY DEF LibInv, LibTyped, NothingLeft
<1>2. (NewestLast /\ PrunesKnown /\ RestoredTogether)' /\ ListsKept(base)' /\ HistoryKept(base.history)'
  BY DEF LibInv, NewestLast, PrunesKnown, RestoredTogether, ListsKept, HistoryKept, Bounded, Over, Pruning
<1>3. RestoreKnown'
  <2>1. (work # NoWork => ListsKept(work.base) /\ HistoryKept(work.base.history))'
    BY DEF LibInv, RestoreKnown, ListsKept, HistoryKept, Bounded, Over, Pruning
  <2> QED  BY <2>1 DEF LibInv, RestoreKnown
<1> QED  BY <1>1, <1>2, <1>3 DEF LibInv

LEMMA ChecksStep ==
  ASSUME LibInv, NEW l \in Lists, NEW t \in Texts, NEW id \in {0} \cup { r.id : r \in ToSet(base[l]) },
         CommandChecks(l, Row(id, t, TRUE))
  PROVE  LibInv'
<1> DEFINE row == Row(id, t, TRUE)
<1>1. /\ running = TRUE /\ ~Has(base[l], row.text, row.id)
      /\ command' = [pc |-> "write", list |-> l, row |-> row, stale |-> FALSE, replaced |-> FALSE]
      /\ UNCHANGED <<base, work, adder, running, day, ids, starts, newest, raced, unpruned>>
  BY DEF CommandChecks, CommandFree, LibInv, LibTyped
<1>2. id \in Nat /\ id <= ids
  <2>1. ids \in Nat /\ IdsUpTo(base[l], ids)
    BY DEF LibInv, LibTyped, ListsKept, KeptUpTo
  <2>2. \A i \in DOMAIN base[l] : base[l][i].id \in 1 .. ids
    BY <2>1 DEF IdsUpTo
  <2> QED  BY <2>1, <2>2 DEF ToSet
<1>3. row \in RowSet /\ row.id = id
  BY <1>2 DEF Row, RowSet
<1> HIDE DEF row
<1>4. command' \in Checked /\ command'.pc = "write" /\ command'.row = row /\ command'.list = l
  BY <1>1, <1>3 DEF Checked
<1>5. CommandStands'
  BY <1>1, <1>2, <1>3, <1>4 DEF CommandStands
<1> QED  BY <1>1, <1>4, <1>5, CommandFrame

\* A step on the connection of the dictionary that writes its lists.
LEMMA ListsFrame ==
  ASSUME LibInv, MayWrite, NEW next \in BaseSet, base' = next,
         next.history = base.history, next.restored = base.restored,
         ids' \in Nat, raced' \in BOOLEAN, KeptUpTo(next, ids', raced'), command' \in Idle,
         UNCHANGED <<work, adder, running, day, starts, newest, unpruned>>
  PROVE  LibInv'
<1>1. running = TRUE /\ work = NoWork /\ LibTyped
  BY WorkIs DEF LibInv, LibTyped, MayWrite
<1>2. (LibTyped /\ NothingLeft /\ RestoreKnown)'
  BY <1>1 DEF LibTyped, NothingLeft, RestoreKnown
<1>3. (NewestLast /\ PrunesKnown /\ RestoredTogether)'
  BY DEF LibInv, NewestLast, PrunesKnown, RestoredTogether
<1>4. ListsKept(base)' /\ HistoryKept(base.history)'
  BY DEF LibInv, ListsKept, HistoryKept, Bounded, Over, Pruning
<1>5. CommandStands'
  BY DEF CommandStands, Idle
<1> QED  BY <1>2, <1>3, <1>4, <1>5 DEF LibInv

\* One list of the data base takes another form, and the ids grow.
LEMMA OneListStep ==
  ASSUME LibInv, MayWrite, NEW l \in Lists, NEW rows \in Seq(RowSet), base' = [base EXCEPT ![l] = rows],
         ids' \in Nat, ids <= ids', raced' \in BOOLEAN, raced => raced', command' \in Idle,
         IdsUpTo(rows, ids'), ~raced' => Twinless(rows),
         UNCHANGED <<work, adder, running, day, starts, newest, unpruned>>
  PROVE  LibInv'
<1> DEFINE next == [base EXCEPT ![l] = rows]
<1>1. base \in BaseSet /\ ids \in Nat /\ KeptUpTo(base, ids', raced')
  BY KeptMore DEF LibInv, LibTyped, ListsKept
<1>3. base' = next /\ next = [base EXCEPT ![l] = rows]
  OBVIOUS
<1> HIDE DEF next
<1>2. /\ next \in BaseSet /\ next[l] = rows /\ next.history = base.history /\ next.restored = base.restored
      /\ next.dictionary = (IF l = "dictionary" THEN rows ELSE base.dictionary)
      /\ next.rules = (IF l = "rules" THEN rows ELSE base.rules)
  <2>1. CASE l = "dictionary"
    BY <1>1, <1>3, <2>1 DEF BaseSet, Lists
  <2>2. CASE l = "rules"
    BY <1>1, <1>3, <2>2 DEF BaseSet, Lists
  <2> QED  BY <2>1, <2>2 DEF Lists
<1>4. KeptUpTo(next, ids', raced')
  BY <1>1, <1>2 DEF KeptUpTo, Lists
<1> QED  BY <1>2, <1>3, <1>4, ListsFrame

LEMMA ListOf ==
  ASSUME LibInv, NEW l \in Lists
  PROVE  /\ base \in BaseSet /\ base[l] \in Seq(RowSet) /\ ids \in Nat /\ raced \in BOOLEAN
         /\ IdsUpTo(base[l], ids) /\ (~raced => Twinless(base[l]))
BY DEF LibInv, LibTyped, BaseSet, Lists, ListsKept, KeptUpTo

LEMMA CommandWritesStep ==
  ASSUME LibInv, CommandWrites
  PROVE  LibInv'
<1> DEFINE row  == command.row
           l    == command.list
           list == base[l]
           new  == [row EXCEPT !.id = ids + 1]
           rows == IF row.id = 0 THEN Append(list, new)
                   ELSE [i \in DOMAIN list |-> IF list[i].id = row.id THEN row ELSE list[i]]
<1>1. /\ command.pc = "write" /\ MayWrite /\ ids' = ids + 1 /\ raced' = (raced \/ command.replaced)
      /\ command' = NoCommand /\ UNCHANGED <<work, adder, running, day, ops, starts, newest, unpruned>>
      /\ base' = [base EXCEPT ![l] = rows]
  BY DEF CommandWrites
<1>2. command \in Checked /\ row \in RowSet /\ l \in Lists /\ command.replaced \in BOOLEAN
  BY <1>1, CommandIs DEF LibInv, Checked
<1>3. ~command.replaced => ~Has(list, row.text, row.id)
  BY <1>1 DEF LibInv, CommandStands
<1>4. list \in Seq(RowSet) /\ ids \in Nat /\ raced \in BOOLEAN /\ IdsUpTo(list, ids) /\ (~raced => Twinless(list))
  BY <1>2, ListOf
<1>5. command' \in Idle /\ ids' \in Nat /\ ids <= ids' /\ raced' \in BOOLEAN /\ (raced => raced')
      /\ (~raced' => ~raced /\ ~command.replaced)
  BY <1>1, <1>2, <1>4 DEF NoCommand, Idle
<1>6. new \in RowSet /\ new.id = ids + 1 /\ new.text = row.text
  BY <1>2, <1>4 DEF RowSet
<1> HIDE DEF row, l, list, new, rows
<1>7. rows \in Seq(RowSet) /\ IdsUpTo(rows, ids') /\ (~raced' => Twinless(rows))
  <2>1. CASE row.id = 0
    <3>1. rows = Append(list, new)
      BY <2>1 DEF rows
    <3>2. /\ Append(list, new) \in Seq(RowSet) /\ IdsUpTo(Append(list, new), ids + 1)
          /\ Twinless(list) /\ ~Has(list, new.text, 0) => Twinless(Append(list, new))
      BY <1>4, <1>6, AddedRow
    <3> QED  BY <1>1, <1>3, <1>4, <1>5, <1>6, <2>1, <3>1, <3>2
  <2>2. CASE row.id # 0
    <3>1. rows = [i \in DOMAIN list |-> IF list[i].id = row.id THEN row ELSE list[i]]
      BY <2>2 DEF rows
    <3>2. /\ rows \in Seq(RowSet) /\ IdsUpTo(rows, ids)
          /\ Twinless(list) /\ ~Has(list, row.text, row.id) => Twinless(rows)
      BY <1>2, <1>4, <2>2, <3>1, ChangedRow
    <3> QED  BY <1>3, <1>4, <1>5, <3>2, MoreIds
  <2> QED  BY <2>1, <2>2
<1> QED  BY <1>1, <1>2, <1>5, <1>7, OneListStep

LEMMA ChangesStep ==
  ASSUME LibInv, NEW l \in Lists, NEW i, RowChanges(l, i)
  PROVE  LibInv'
<1>1. /\ command.pc = "idle" /\ MayWrite /\ i \in DOMAIN base[l]
      /\ UNCHANGED <<work, command, adder, running, day, ids, starts, newest, raced, unpruned>>
  BY DEF RowChanges, CommandFree
<1>a. \/ base' = [base EXCEPT ![l] = RemoveAt(base[l], i)]
      \/ l = "rules" /\ base' = [base EXCEPT !.rules = Toggled(base.rules, i)]
  BY Zenon DEF RowChanges
<1>2. /\ base[l] \in Seq(RowSet) /\ ids \in Nat /\ raced \in BOOLEAN
      /\ IdsUpTo(base[l], ids) /\ (~raced => Twinless(base[l]))
  BY ListOf
<1>3. command' \in Idle
  BY <1>1, CommandIs DEF LibInv
<1>4. ASSUME NEW rows \in Seq(RowSet), base' = [base EXCEPT ![l] = rows], IdsUpTo(rows, ids),
             Twinless(base[l]) => Twinless(rows)
      PROVE  LibInv'
  <2>1. /\ ids' \in Nat /\ ids <= ids' /\ raced' \in BOOLEAN /\ (raced => raced')
        /\ IdsUpTo(rows, ids') /\ (~raced' => Twinless(rows))
    BY <1>1, <1>2, <1>4
  <2>2. UNCHANGED <<work, adder, running, day, starts, newest, unpruned>> /\ MayWrite
    BY <1>1
  <2> QED  BY <1>3, <1>4, <2>1, <2>2, OneListStep
<1>5. CASE base' = [base EXCEPT ![l] = RemoveAt(base[l], i)]
  <2>1. /\ RemoveAt(base[l], i) \in Seq(RowSet) /\ IdsUpTo(RemoveAt(base[l], i), ids)
        /\ Twinless(base[l]) => Twinless(RemoveAt(base[l], i))
    BY <1>1, <1>2, RemovedRow
  <2> QED  BY <1>4, <1>5, <2>1
<1>6. CASE l = "rules" /\ base' = [base EXCEPT !.rules = Toggled(base.rules, i)]
  <2> DEFINE rows == Toggled(base.rules, i)
  <2>1. base' = [base EXCEPT ![l] = rows] /\ base[l] = base.rules
    BY <1>6, Zenon
  <2>4. base.rules \in Seq(RowSet) /\ IdsUpTo(base.rules, ids) /\ i \in DOMAIN base.rules
    BY <1>1, <1>2, <2>1
  <2>2. rows \in Seq(RowSet) /\ IdsUpTo(rows, ids) /\ (Twinless(base.rules) => Twinless(rows))
    BY <1>2, <2>4, ToggledRow
  <2> HIDE DEF rows
  <2> QED  BY <1>4, <2>1, <2>2
<1> QED  BY <1>a, <1>5, <1>6

\* An import reads rows of a file.
LEMMA ParsedIs ==
  ASSUME NEW file \in Files
  PROVE  Parsed(file) \in Seq(FileRows)
<1> DEFINE listed == file.rows
           rows  == [i \in DOMAIN listed |-> [listed[i] EXCEPT !.text = IF file.marked THEN FromCell(@) ELSE @]]
           S     == { r \in ToSet(rows) : IsText(r.text) }
<1>1. listed \in Seq(FileRows)
  BY InputAssumption
<1>2. Parsed(file) = Among(rows, S)
  BY Zenon DEF Parsed
<1> HIDE DEF listed, S
<1>3. DOMAIN listed = 1 .. Len(listed) /\ Len(listed) \in Nat /\ \A i \in DOMAIN listed : listed[i] \in FileRows
  BY <1>1
<1>4. ASSUME NEW i \in DOMAIN listed
      PROVE  rows[i] \in FileRows
  <2> DEFINE t == IF file.marked THEN FromCell(listed[i].text) ELSE listed[i].text
  <2>1. t \in Texts
    BY <1>3 DEF FromCell, Texts, FileRows
  <2>2. rows[i] = [listed[i] EXCEPT !.text = t]
    BY Zenon
  <2> HIDE DEF t
  <2> QED  BY <1>3, <2>1, <2>2 DEF FileRows
<1>5. rows \in Seq(FileRows)
  <2>1. rows = [i \in 1 .. Len(listed) |-> rows[i]]
    BY <1>3
  <2> HIDE DEF rows
  <2> QED  BY <1>3, <1>4, <2>1
<1> HIDE DEF rows
<1>6. Among(rows, S) \in Seq(FileRows \cap S)
  BY <1>5, AmongIs
<1> QED  BY <1>2, <1>6

LEMMA ImportReadsStep ==
  ASSUME LibInv, NEW file \in Files, ImportReads(file)
  PROVE  LibInv'
<1> DEFINE rows == Parsed(file)
<1>1. /\ running = TRUE
      /\ command' = [pc |-> "import", rows |-> rows, read |-> base, stale |-> FALSE, replaced |-> FALSE]
      /\ UNCHANGED <<base, work, adder, running, day, ids, starts, newest, raced, unpruned>>
  BY DEF ImportReads, CommandFree, LibInv, LibTyped
<1>2. rows \in Seq(FileRows) /\ base \in BaseSet
  BY ParsedIs DEF LibInv, LibTyped
<1> HIDE DEF rows
<1>3. command' \in Read /\ command'.pc = "import" /\ command'.read = base
  BY <1>1, <1>2 DEF Read
<1>4. CommandStands'
  BY <1>1, <1>3 DEF CommandStands
<1> QED  BY <1>1, <1>3, <1>4, CommandFrame

\* What an import makes of a list: the rows it has and, after them, those of the
\* file that are new.
LEMMA ImportedList ==
  ASSUME NEW list \in Seq(RowSet), NEW n \in Nat, IdsUpTo(list, n), NEW m \in Nat, n <= m,
         NEW rows \in Seq(FileRows), NEW l
  PROVE  LET new == News(list, Plain(RowsFor(rows, l)))
         IN  /\ Numbered(new, m) \in Seq(RowSet) /\ IdsUpTo(Numbered(new, m), m + Len(new))
             /\ Len(new) \in Nat /\ Len(new) <= Len(list) + Len(RowsFor(rows, l))
             /\ Twinless(list) => Twinless(Numbered(new, m))
<1> DEFINE some  == RowsFor(rows, l)
           plain == Plain(some)
           new   == News(list, plain)
           k     == Len(list)
<1>1. some \in Seq(FileRows)
  <2> DEFINE S == { r \in ToSet(rows) : r.list = l }
  <2>1. some = Among(rows, S)
    BY DEF RowsFor
  <2> HIDE DEF S
  <2>2. Among(rows, S) \in Seq(FileRows \cap S)
    BY AmongIs
  <2> QED  BY <2>1, <2>2
<1> HIDE DEF some
<1>2. DOMAIN some = 1 .. Len(some) /\ Len(some) \in Nat /\ \A i \in DOMAIN some : some[i] \in FileRows
  BY <1>1
<1>3. plain \in Seq(RowSet) /\ Len(plain) = Len(some) /\ \A r \in ToSet(plain) : r.id = 0
  <2>1. plain = [i \in 1 .. Len(some) |-> Row(0, some[i].text, some[i].on)]
    BY <1>2 DEF Plain
  <2>2. \A i \in 1 .. Len(some) : Row(0, some[i].text, some[i].on) \in RowSet /\ Row(0, some[i].text, some[i].on).id = 0
    BY <1>2 DEF Row, RowSet, FileRows
  <2> HIDE DEF plain
  <2>3. plain \in [1 .. Len(some) -> RowSet] /\ \A i \in 1 .. Len(some) : plain[i].id = 0
    BY <2>1, <2>2
  <2>4. plain \in Seq(RowSet) /\ Len(plain) = Len(some) /\ DOMAIN plain = 1 .. Len(some)
    BY <1>2, <2>3
  <2> QED  BY <2>3, <2>4 DEF ToSet
<1> HIDE DEF plain
<1>4. new \in Seq(RowSet) /\ Len(new) <= Len(list) + Len(plain) /\ Grown(list, plain, new)
  BY <1>3, NewsIs
<1> HIDE DEF new
<1>5. k \in Nat /\ Len(new) \in Nat /\ DOMAIN new = 1 .. Len(new) /\ DOMAIN list = 1 .. k
  BY <1>4
<1>a. /\ k <= Len(new) /\ \A i \in 1 .. k : new[i] = list[i]
      /\ \A i \in 1 .. Len(new) : i > k => new[i] \in ToSet(plain)
      /\ Twinless(list) => Twinless(new)
  BY <1>4 DEF Grown
<1>b. \A i \in DOMAIN new : i <= k => i \in DOMAIN list /\ new[i] = list[i]
  BY <1>5, <1>a
<1> HIDE DEF k
<1>6. \A i \in DOMAIN new : IF i <= k THEN new[i].id \in 1 .. n ELSE new[i].id = 0
  <2>1. ASSUME NEW i \in DOMAIN new, i <= k
        PROVE  new[i].id \in 1 .. n
    BY <1>b, <2>1 DEF IdsUpTo
  <2>2. ASSUME NEW i \in DOMAIN new, ~(i <= k)
        PROVE  new[i].id = 0
    BY <1>3, <1>5, <1>a, <2>2
  <2> QED  BY <2>1, <2>2
<1>7. \A i, j \in DOMAIN new : i <= k /\ j <= k /\ new[i].id = new[j].id => i = j
  BY <1>b DEF IdsUpTo
<1>8. /\ Numbered(new, m) \in Seq(RowSet) /\ IdsUpTo(Numbered(new, m), m + Len(new))
      /\ Twinless(new) => Twinless(Numbered(new, m))
  BY <1>4, <1>5, <1>6, <1>7, NumberedRows
<1> QED  BY <1>3, <1>4, <1>5, <1>8, <1>a DEF new, plain, some

LEMMA TwoParts ==
  ASSUME NEW rows \in Seq(FileRows)
  PROVE  /\ Len(RowsFor(rows, "dictionary")) + Len(RowsFor(rows, "rules")) <= Len(rows)
         /\ Len(RowsFor(rows, "dictionary")) \in Nat /\ Len(RowsFor(rows, "rules")) \in Nat /\ Len(rows) \in Nat
<1> DEFINE S == { r \in ToSet(rows) : r.list = "dictionary" }
           T == { r \in ToSet(rows) : r.list = "rules" }
<1>1. RowsFor(rows, "dictionary") = Among(rows, S) /\ RowsFor(rows, "rules") = Among(rows, T) /\ S \cap T = {}
  BY DEF RowsFor
<1> HIDE DEF S, T
<1>2. Len(Among(rows, S)) + Len(Among(rows, T)) <= Len(rows)
  BY <1>1, AmongTwo
<1>3. Among(rows, S) \in Seq(FileRows \cap S) /\ Among(rows, T) \in Seq(FileRows \cap T)
  BY AmongIs
<1>4. Len(Among(rows, S)) \in Nat /\ Len(Among(rows, T)) \in Nat /\ Len(rows) \in Nat
  BY <1>3
<1> QED  BY <1>1, <1>2, <1>4

LEMMA SumUp ==
  ASSUME NEW n \in Nat, NEW l \in Nat, NEW d \in Nat, NEW r \in Nat, NEW new, new = n + l + d + r
  PROVE  new \in Nat /\ n <= new
OBVIOUS

LEMMA ImportWritesStep ==
  ASSUME LibInv, ImportWrites
  PROVE  LibInv'
<1> DEFINE newd == News(command.read["dictionary"], Plain(RowsFor(command.rows, "dictionary")))
           newr == News(command.read["rules"], Plain(RowsFor(command.rows, "rules")))
           d    == Numbered(newd, ids)
           r    == Numbered(newr, ids + Len(newd))
<1>1. /\ command.pc = "import" /\ MayWrite /\ command' = NoCommand
      /\ ids' = ids + Len(command.rows) + Len(base.dictionary) + Len(base.rules)
      /\ UNCHANGED <<work, adder, running, day, ops, starts, newest, raced, unpruned>>
  BY DEF ImportWrites
<1>2. \/ base' = base
      \/ ~command.stale /\ base' = [base EXCEPT !.dictionary = d, !.rules = r]
  <2>1. [l \in Lists |-> News(command.read[l], Plain(RowsFor(command.rows, l)))]["dictionary"] = newd
    BY DEF Lists
  <2>2. [l \in Lists |-> News(command.read[l], Plain(RowsFor(command.rows, l)))]["rules"] = newr
    BY DEF Lists
  <2> HIDE DEF newd, newr
  <2> QED  BY <2>1, <2>2, Zenon DEF ImportWrites
<1>3. command \in Read /\ command.rows \in Seq(FileRows) /\ (~command.stale => command.read = base)
  <2>1. command \in Read
    BY <1>1, CommandIs DEF LibInv
  <2> QED  BY <1>1, <2>1 DEF Read, LibInv, CommandStands
<1>4. /\ base \in BaseSet /\ ids \in Nat /\ raced \in BOOLEAN
      /\ base.dictionary \in Seq(RowSet) /\ IdsUpTo(base.dictionary, ids) /\ (~raced => Twinless(base.dictionary))
      /\ base.rules \in Seq(RowSet) /\ IdsUpTo(base.rules, ids) /\ (~raced => Twinless(base.rules))
  BY ListOf DEF Lists
<1>5. command' \in Idle /\ raced' = raced
  BY <1>1 DEF NoCommand, Idle
<1>6. ids' \in Nat /\ ids <= ids' /\ Len(base.dictionary) \in Nat /\ Len(base.rules) \in Nat /\ Len(command.rows) \in Nat
  <2>1. Len(base.dictionary) \in Nat /\ Len(base.rules) \in Nat /\ Len(command.rows) \in Nat
    BY <1>3, <1>4
  <2>2. ids' = ids + Len(command.rows) + Len(base.dictionary) + Len(base.rules)
    BY <1>1
  <2> QED  BY <1>4, <2>1, <2>2, SumUp
<1>7. CASE base' = base
  <2>1. KeptUpTo(base, ids', raced')
    BY <1>4, <1>5, <1>6, KeptMore DEF LibInv, ListsKept
  <2> QED  BY <1>1, <1>4, <1>5, <1>6, <1>7, <2>1, ListsFrame
<1>8. CASE ~command.stale /\ base' = [base EXCEPT !.dictionary = d, !.rules = r]
  <2>1. /\ newd = News(base.dictionary, Plain(RowsFor(command.rows, "dictionary")))
        /\ newr = News(base.rules, Plain(RowsFor(command.rows, "rules")))
    BY <1>3, <1>8
  <2>a. d = Numbered(newd, ids) /\ ids <= ids
    BY <1>4
  <2> HIDE DEF newd, newr, d
  <2>2. /\ d \in Seq(RowSet) /\ IdsUpTo(d, ids + Len(newd)) /\ Len(newd) \in Nat
        /\ Len(newd) <= Len(base.dictionary) + Len(RowsFor(command.rows, "dictionary"))
        /\ Twinless(base.dictionary) => Twinless(d)
    BY <1>3, <1>4, <2>1, <2>a, ImportedList
  <2> DEFINE m == ids + Len(newd)
  <2>3. m \in Nat /\ ids <= m
    BY <1>4, <2>2
  <2>4. r = Numbered(newr, m)
    OBVIOUS
  <2> HIDE DEF m, r
  <2>5. /\ r \in Seq(RowSet) /\ IdsUpTo(r, m + Len(newr)) /\ Len(newr) \in Nat
        /\ Len(newr) <= Len(base.rules) + Len(RowsFor(command.rows, "rules"))
        /\ Twinless(base.rules) => Twinless(r)
    BY <1>3, <1>4, <2>1, <2>3, <2>4, ImportedList
  <2>6. /\ Len(RowsFor(command.rows, "dictionary")) + Len(RowsFor(command.rows, "rules")) <= Len(command.rows)
        /\ Len(RowsFor(command.rows, "dictionary")) \in Nat /\ Len(RowsFor(command.rows, "rules")) \in Nat
    BY <1>3, TwoParts
  <2>7. m + Len(newr) \in Nat /\ m + Len(newr) <= ids'
    <3> DEFINE l == Len(command.rows)
               a == Len(base.dictionary)
               b == Len(base.rules)
               x == Len(RowsFor(command.rows, "dictionary"))
               y == Len(RowsFor(command.rows, "rules"))
               p == Len(newd)
               q == Len(newr)
    <3>1. /\ ids \in Nat /\ l \in Nat /\ a \in Nat /\ b \in Nat /\ x \in Nat /\ y \in Nat /\ p \in Nat /\ q \in Nat
          /\ ids' = ids + l + a + b
          /\ x + y <= l /\ p <= a + x /\ q <= b + y
      BY <1>1, <1>4, <1>6, <2>2, <2>5, <2>6
    <3> HIDE DEF l, a, b, x, y, p, q
    <3>2. (ids + p) + q \in Nat /\ (ids + p) + q <= ids'
      BY <3>1
    <3> QED  BY <3>2 DEF m, p, q
  <2>8. IdsUpTo(r, ids')
    BY <1>6, <2>5, <2>7, MoreIds
  <2>9. m <= ids'
    BY <1>6, <2>3, <2>5, <2>7
  <2>10. IdsUpTo(d, m)
    BY <2>2 DEF m
  <2>11. IdsUpTo(d, ids')
    BY <1>6, <2>2, <2>3, <2>9, <2>10, MoreIds
  <2> DEFINE next == [base EXCEPT !.dictionary = d, !.rules = r]
  <2>12. /\ next \in BaseSet /\ next.dictionary = d /\ next.rules = r
         /\ next.history = base.history /\ next.restored = base.restored
    BY <1>4, <2>2, <2>5 DEF BaseSet
  <2>13. base' = next
    BY <1>8
  <2> HIDE DEF next
  <2>14. KeptUpTo(next, ids', raced')
    BY <1>4, <1>5, <2>2, <2>5, <2>8, <2>11, <2>12 DEF KeptUpTo, Lists
  <2> QED  BY <1>1, <1>4, <1>5, <1>6, <2>12, <2>13, <2>14, ListsFrame
<1> QED  BY <1>2, <1>7, <1>8

\* The invariant holds in every reachable state.
LEMMA LibraryKept ==
  ASSUME LibInv, [LibraryNext]_libraryVars
  PROVE  LibInv'
<1>1. CASE UNCHANGED libraryVars
  BY <1>1 DEF libraryVars, LibInv, LibTyped, NothingLeft, CommandStands, NewestLast, PrunesKnown, RestoreKnown,
              RestoredTogether, ListsKept, HistoryKept, Bounded, Over, Pruning
<1>2. CASE LibraryNext
  <2>1. \/ Starts \/ Crashes \/ DayPasses \/ ClearsHistory
        \/ (\E p \in Policies : \E a \in Adders : HistoryInserts(a, p))
        \/ (\E p \in Policies : \E b \in Backups : BackupBegins(b, p))
        \/ (\E a \in Adders : HistoryPrunes(a) \/ HistoryExpires(a))
        \/ BackupWrites \/ BackupFails \/ BackupCommits
        \/ (\E l \in Lists : \E t \in Texts, id \in {0} \cup { r.id : r \in ToSet(base[l]) } :
                           CommandChecks(l, Row(id, t, TRUE)))
        \/ (\E l \in Lists : \E i \in 1..2 : RowChanges(l, i))
        \/ CommandWrites \/ (\E f \in Files : ImportReads(f)) \/ ImportWrites
    BY <1>2, Zenon DEF LibraryNext
  <2>2. Starts => LibInv'  BY StartsStep
  <2>3. Crashes => LibInv'  BY CrashesStep
  <2>4. DayPasses => LibInv'  BY DayStep
  <2>5. ClearsHistory => LibInv'  BY ClearsStep
  <2>6. \A p \in Policies : \A a \in Adders : HistoryInserts(a, p) => LibInv'  BY InsertsStep
  <2>7. \A p \in Policies : \A b \in Backups : BackupBegins(b, p) => LibInv'  BY BeginsStep
  <2>8. \A a \in Adders : HistoryPrunes(a) \/ HistoryExpires(a) => LibInv'  BY PrunesStep, ExpiresStep
  <2>9. BackupWrites => LibInv'  BY WritesStep
  <2>10. BackupFails => LibInv'  BY FailsStep
  <2>11. BackupCommits => LibInv'  BY CommitsStep
  <2>12. \A l \in Lists : \A t \in Texts, id \in {0} \cup { r.id : r \in ToSet(base[l]) } :
            CommandChecks(l, Row(id, t, TRUE)) => LibInv'
    BY ChecksStep
  <2>13. \A l \in Lists : \A i \in 1..2 : RowChanges(l, i) => LibInv'  BY ChangesStep
  <2>14. CommandWrites => LibInv'  BY CommandWritesStep
  <2>15. \A f \in Files : ImportReads(f) => LibInv'  BY ImportReadsStep
  <2>16. ImportWrites => LibInv'  BY ImportWritesStep
  <2> QED  BY <2>1, <2>2, <2>3, <2>4, <2>5, <2>6, <2>7, <2>8, <2>9, <2>10, <2>11, <2>12, <2>13, <2>14, <2>15,
              <2>16, Zenon
<1> QED  BY <1>1, <1>2

\* The invariant says at least what the property says.
LEMMA KeptIsWhole == LibInv => LibraryIsWhole
<1> SUFFICES ASSUME LibInv PROVE LibraryIsWhole
  OBVIOUS
<1>1. NoTwins
  BY DEF LibInv, ListsKept, KeptUpTo, Twinless, NoTwins
<1>2. RestoredTogether
  BY DEF LibInv
<1>3. HistoryKeeps
  <2>1. newest # 0 => base.history # <<>> /\ Last(base.history).id = newest
    BY DEF LibInv, NewestLast
  <2>2. ASSUME \A a \in Adders : adder[a].pc # "prune"
        PROVE  \E p \in Policies : Len(base.history) <= p.max + unpruned
    <3>1. PICK p \in Policies : Len(base.history) <= p.max + Over
      BY DEF LibInv, HistoryKept, Bounded
    <3>2. Over = unpruned
      BY <2>2 DEF Pruning, Adders, Over, LibInv, LibTyped
    <3>3. p.max \in Nat
      BY LibraryAssumption
    <3>4. Len(base.history) <= p.max + unpruned
      BY <3>1, <3>2, <3>3
    <3> QED  BY <3>4
  <2>3. running => \A i \in DOMAIN base.history : base.history[i].app = "none"
    BY DEF LibInv, HistoryKept, NamesNoApp
  <2> QED  BY <2>1, <2>2, <2>3 DEF HistoryKeeps
<1>4. ExportReadsBack
  <2> DEFINE d == base.dictionary
  <2>1. d \in Seq([id : Nat, text : Texts, on : BOOLEAN])
    BY DEF LibInv, LibTyped, BaseSet, RowSet
  <2> HIDE DEF d
  <2>2. (\A i \in DOMAIN d : d[i].text # "'=foo")
          => News(d, [i \in DOMAIN d |-> Row(0, FromCell(Exported(d)[i]), TRUE)]) = d
    BY <2>1, ReadsBack
  <2> QED  BY <2>2 DEF ExportReadsBack, d
<1> QED  BY <1>1, <1>2, <1>3, <1>4 DEF LibraryIsWhole

\* Whatever the policies, the backups and the files, and however many operations,
\* days and starts there are: dictionary and rules have no twins but those of a
\* restore that overlaps a command, a backup replaces all of its sections or none,
\* the history keeps to a policy and keeps the last dictation, and an export that
\* is imported again brings nothing new.
THEOREM LibraryStaysWhole == LibrarySpec => []LibraryIsWhole
<1>1. LibraryInit => LibInv
  BY LibInitially
<1>2. LibInv /\ [LibraryNext]_libraryVars => LibInv'
  BY LibraryKept
<1>3. LibInv => LibraryIsWhole
  BY KeptIsWhole
<1> QED  BY <1>1, <1>2, <1>3, PTL DEF LibrarySpec

-----------------------------------------------------------------------------
(* The types of the data base                                                *)

\* Only texts that are valid are in the lists, and the entries of the history
\* are of days that have come, or that a backup says.
FineTexts       == Texts \ {"bad"}
FineRow         == [id : Nat, text : FineTexts, on : BOOLEAN]
FineFileRow     == [list : Lists, text : FineTexts, on : BOOLEAN]
FineEntry(n, d) == [id : 1 .. n, day : (0 .. d) \cup BackupDays, app : {"none", "mail"}]

FineBase(b, n, d) ==
  /\ b.history \in Seq(FineEntry(n, d))
  /\ b.dictionary \in Seq(FineRow) /\ b.rules \in Seq(FineRow)

FineCommand(c) ==
  /\ c.pc = "write" => c.row \in FineRow
  /\ c.pc = "import" => c.rows \in Seq(FineFileRow)

LibraryTyped ==
  /\ LibInv
  /\ FineBase(base, ids, day) /\ (work # NoWork => FineBase(work.base, ids, day))
  /\ FineCommand(command)

LEMMA SeqMore ==
  ASSUME NEW S, NEW T, S \subseteq T, NEW s \in Seq(S)
  PROVE  s \in Seq(T)
OBVIOUS

\* What is fine stays so as ids are given and days pass.
LEMMA FineMore ==
  ASSUME NEW b, NEW n \in Nat, NEW d \in Nat, FineBase(b, n, d), NEW m \in Nat, NEW e \in Nat, n <= m, d <= e
  PROVE  FineBase(b, m, e)
<1>1. FineEntry(n, d) \subseteq FineEntry(m, e)
  BY DEF FineEntry
<1>2. b.history \in Seq(FineEntry(m, e))
  BY <1>1, SeqMore DEF FineBase
<1> QED  BY <1>2 DEF FineBase

\* A step that leaves the base, or makes another fine one of it.
LEMMA TypedFrame ==
  ASSUME LibraryTyped, LibInv', ids <= ids', day <= day', FineBase(base', ids', day'),
         work' = work \/ work' = NoWork, FineCommand(command')
  PROVE  LibraryTyped'
<1>1. {ids, day, ids', day'} \subseteq Nat
  BY DEF LibraryTyped, LibInv, LibTyped
<1>2. work' # NoWork => FineBase(work'.base, ids', day')
  <2>1. work # NoWork => FineBase(work.base, ids', day')
    BY <1>1, FineMore DEF LibraryTyped
  <2> QED  BY <2>1
<1> QED  BY <1>2 DEF LibraryTyped

LEMMA BaseStays ==
  ASSUME LibraryTyped, LibInv', ids <= ids', day <= day', base' = base
  PROVE  FineBase(base', ids', day')
<1>1. {ids, day, ids', day'} \subseteq Nat
  BY DEF LibraryTyped, LibInv, LibTyped
<1> QED  BY <1>1, FineMore DEF LibraryTyped

\* A commit of the other connection leaves what a command has read.
LEMMA OutdatedFine ==
  ASSUME LibraryTyped,
         \E s, r : \/ command' = [command EXCEPT !.stale = s]
                  \/ command' = [command EXCEPT !.stale = s, !.replaced = r]
  PROVE  FineCommand(command')
<1>1. /\ command.pc = "idle" => command \in Idle
      /\ command.pc = "write" => command \in Checked
      /\ command.pc = "import" => command \in Read
      /\ command.pc \in {"idle", "write", "import"}
  BY CommandIs DEF LibraryTyped, LibInv
<1>2. command'.pc = command.pc
  BY <1>1 DEF Idle, Checked, Read
<1>3. command.pc = "write" => command'.row = command.row
  BY <1>1 DEF Checked
<1>4. command.pc = "import" => command'.rows = command.rows
  BY <1>1 DEF Read
<1> QED  BY <1>2, <1>3, <1>4 DEF LibraryTyped, FineCommand

LEMMA CommitLeaves ==
  ASSUME LibraryTyped, Outdates
  PROVE  FineCommand(command')
<1> DEFINE stale == command.pc # "idle"
<1>1. command' = [command EXCEPT !.stale = stale]
  BY Zenon DEF Outdates
<1> HIDE DEF stale
<1>2. \E s, r : \/ command' = [command EXCEPT !.stale = s]
               \/ command' = [command EXCEPT !.stale = s, !.replaced = r]
  BY <1>1, Zenon
<1> QED  BY <1>2, OutdatedFine, Zenon

\* A change of the history alone.
LEMMA HistoryFine ==
  ASSUME LibraryTyped, NEW n, NEW d, NEW h \in Seq(FineEntry(n, d)), base' = [base EXCEPT !.history = h]
  PROVE  FineBase(base', n, d)
<1>1. base \in BaseSet
  BY DEF LibraryTyped, LibInv, LibTyped
<1>2. base'.history = h /\ base'.dictionary = base.dictionary /\ base'.rules = base.rules
  BY <1>1 DEF BaseSet
<1> QED  BY <1>2 DEF LibraryTyped, FineBase

\* A change of one list.
LEMMA ListFine ==
  ASSUME LibraryTyped, NEW l \in Lists, NEW rows \in Seq(FineRow), base' = [base EXCEPT ![l] = rows]
  PROVE  FineBase(base', ids, day)
<1>1. base \in BaseSet
  BY DEF LibraryTyped, LibInv, LibTyped
<1>2. /\ base'.history = base.history
      /\ base'.dictionary = (IF l = "dictionary" THEN rows ELSE base.dictionary)
      /\ base'.rules = (IF l = "rules" THEN rows ELSE base.rules)
  BY <1>1 DEF BaseSet, Lists
<1> QED  BY <1>2 DEF LibraryTyped, FineBase

LEMMA LibraryTypesStart ==
  ASSUME LibraryInit
  PROVE  LibraryTyped
<1> DEFINE entry == [id |-> 1, day |-> 0, app |-> "mail"]
           row   == Row(2, "foo", TRUE)
<1>1. LibInv
  BY LibInitially
<1>2. /\ base.history = <<entry>> /\ base.dictionary = <<row>> /\ base.rules = <<>>
      /\ work = NoWork /\ command = NoCommand /\ day = 0 /\ ids = 2
  BY DEF LibraryInit
<1>3. entry \in FineEntry(2, 0) /\ row \in FineRow
  BY DEF FineEntry, Row, FineRow, FineTexts, Texts
<1> HIDE DEF entry, row
<1>4. <<entry>> \in Seq(FineEntry(2, 0)) /\ <<row>> \in Seq(FineRow) /\ <<>> \in Seq(FineRow)
  BY <1>3
<1>5. FineCommand(command)
  BY <1>2 DEF FineCommand, NoCommand
<1> QED  BY <1>1, <1>2, <1>4, <1>5 DEF LibraryTyped, FineBase

LEMMA StartsTyped ==
  ASSUME LibraryTyped, LibInv', Starts
  PROVE  LibraryTyped'
<1> DEFINE old == base.history
           h == [i \in DOMAIN old |-> [old[i] EXCEPT !.app = "none"]]
           E == FineEntry(ids, day)
<1>1. /\ base' = [base EXCEPT !.history = h]
      /\ UNCHANGED <<work, command, day, ids>>
  BY DEF Starts
<1>2. {ids, day} \subseteq Nat
  BY DEF LibraryTyped, LibInv, LibTyped
<1>3. old \in Seq(E)
  BY DEF LibraryTyped, FineBase
<1>4. \A x \in E : [x EXCEPT !.app = "none"] \in E
  BY DEF FineEntry
<1> HIDE DEF E, old
<1>5. DOMAIN old = 1 .. Len(old) /\ Len(old) \in Nat /\ \A i \in DOMAIN old : old[i] \in E
  BY <1>3
<1>6. h \in [1 .. Len(old) -> E]
  BY <1>4, <1>5
<1>7. h \in Seq(E)
  BY <1>5, <1>6
<1> HIDE DEF h
<1>8. FineBase(base', ids, day)
  BY <1>1, <1>7, HistoryFine DEF E
<1>9. FineCommand(command')
  BY <1>1 DEF LibraryTyped
<1> QED  BY <1>1, <1>2, <1>8, <1>9, TypedFrame

LEMMA InsertsTyped ==
  ASSUME LibraryTyped, LibInv', NEW a, NEW policy, HistoryInserts(a, policy)
  PROVE  LibraryTyped'
<1> DEFINE entry == [id |-> ids + 1, day |-> day, app |-> "none"]
           h     == Append(base.history, entry)
           E     == FineEntry(ids + 1, day)
<1>1. /\ Outdates /\ ids' = ids + 1 /\ base' = [base EXCEPT !.history = h] /\ UNCHANGED <<work, day>>
  BY DEF HistoryInserts
<1>2. {ids, day} \subseteq Nat
  BY DEF LibraryTyped, LibInv, LibTyped
<1>3. base.history \in Seq(E)
  <2>1. FineBase(base, ids + 1, day)
    BY <1>2, FineMore DEF LibraryTyped
  <2> QED  BY <2>1 DEF FineBase
<1>4. entry \in E
  BY <1>2 DEF FineEntry
<1> HIDE DEF entry
<1>5. h \in Seq(E)
  BY <1>3, <1>4
<1> HIDE DEF h
<1>6. FineBase(base', ids', day')
  BY <1>1, <1>5, HistoryFine
<1>7. FineCommand(command')
  BY <1>1, CommitLeaves
<1> QED  BY <1>1, <1>2, <1>6, <1>7, TypedFrame

LEMMA LastOnesFine ==
  ASSUME NEW E, NEW rows \in Seq(E), NEW max \in Nat
  PROVE  LastOnes(rows, max) \in Seq(E)
<1> DEFINE n    == Min({max, Len(rows)})
           from == Len(rows) + 1 - n
<1>1. n \in Nat /\ n <= Len(rows) /\ Len(rows) \in Nat
  BY LeastOf
<1>2. LastOnes(rows, max) = SubSeq(rows, from, Len(rows))
  BY DEF LastOnes
<1> HIDE DEF n
<1>3. from \in 1 .. Len(rows) + 1
  BY <1>1
<1> HIDE DEF from
<1> QED  BY <1>1, <1>2, <1>3

\* Steps that leave the base, what is to come into it, and the command.
LEMMA LeavesTyped ==
  ASSUME LibraryTyped, LibInv', ids' = ids, day <= day', base' = base, work' = work \/ work' = NoWork,
         command' = command \/ command' = NoCommand
  PROVE  LibraryTyped'
<1>1. ids \in Nat
  BY DEF LibraryTyped, LibInv, LibTyped
<1>2. FineBase(base', ids', day')
  BY <1>1, BaseStays
<1>3. FineCommand(command')
  BY DEF LibraryTyped, FineCommand, NoCommand
<1> QED  BY <1>1, <1>2, <1>3, TypedFrame

LEMMA PrunesTyped ==
  ASSUME LibraryTyped, LibInv', NEW a \in Adders, HistoryPrunes(a)
  PROVE  LibraryTyped'
<1> DEFINE policy == adder[a].policy
           h      == LastOnes(base.history, policy.max)
           E      == FineEntry(ids, day)
<1>1. /\ adder[a].pc = "prune" /\ UNCHANGED <<work, ids, day>>
      /\ \/ base' = [base EXCEPT !.history = h] /\ Outdates
         \/ UNCHANGED <<base, command>>
  BY DEF HistoryPrunes
<1>2. {ids, day} \subseteq Nat /\ adder \in [Adders -> {NoAdder} \cup Prunes]
  BY DEF LibraryTyped, LibInv, LibTyped
<1>3. policy.max \in Nat
  <2>1. adder[a] \in Prunes
    BY <1>1, <1>2 DEF NoAdder
  <2>2. policy \in Policies
    BY <2>1 DEF Prunes
  <2> QED  BY <2>2, LibraryAssumption
<1>4. base.history \in Seq(E)
  BY DEF LibraryTyped, FineBase
<1> HIDE DEF policy, E
<1>5. h \in Seq(E)
  BY <1>3, <1>4, LastOnesFine
<1> HIDE DEF h
<1>6. CASE base' = [base EXCEPT !.history = h] /\ Outdates
  <2>1. FineBase(base', ids, day)
    BY <1>5, <1>6, HistoryFine DEF E
  <2>2. FineCommand(command')
    BY <1>6, CommitLeaves
  <2> QED  BY <1>1, <1>2, <2>1, <2>2, TypedFrame
<1>7. CASE UNCHANGED <<base, command>>
  BY <1>1, <1>2, <1>7, LeavesTyped
<1> QED  BY <1>1, <1>6, <1>7

LEMMA ExpiresTyped ==
  ASSUME LibraryTyped, LibInv', NEW a \in Adders, HistoryExpires(a)
  PROVE  LibraryTyped'
<1> DEFINE h == Recent(base.history, adder[a].policy, adder[a].now)
           E == FineEntry(ids, day)
<1>1. /\ UNCHANGED <<work, ids, day>>
      /\ \/ base' = [base EXCEPT !.history = h] /\ Outdates
         \/ UNCHANGED <<base, command>>
  BY DEF HistoryExpires
<1>2. {ids, day} \subseteq Nat
  BY DEF LibraryTyped, LibInv, LibTyped
<1>3. base.history \in Seq(E)
  BY DEF LibraryTyped, FineBase
<1> HIDE DEF E
<1>4. h \in Seq(E)
  BY <1>3, RecentIs
<1> HIDE DEF h
<1>5. CASE base' = [base EXCEPT !.history = h] /\ Outdates
  <2>1. FineBase(base', ids, day)
    BY <1>4, <1>5, HistoryFine DEF E
  <2>2. FineCommand(command')
    BY <1>5, CommitLeaves
  <2> QED  BY <1>1, <1>2, <2>1, <2>2, TypedFrame
<1>6. CASE UNCHANGED <<base, command>>
  BY <1>1, <1>2, <1>6, LeavesTyped
<1> QED  BY <1>1, <1>5, <1>6

LEMMA CrashesTyped ==
  ASSUME LibraryTyped, LibInv', Crashes \/ DayPasses \/ BackupFails
  PROVE  LibraryTyped'
<1>1. {ids, day} \subseteq Nat
  BY DEF LibraryTyped, LibInv, LibTyped
<1>2. ids' = ids /\ day <= day' /\ base' = base /\ (work' = work \/ work' = NoWork)
  BY <1>1 DEF Crashes, DayPasses, BackupFails
<1>3. command' = command \/ command' = NoCommand
  BY DEF Crashes, DayPasses, BackupFails
<1> QED  BY <1>2, <1>3, LeavesTyped

LEMMA ClearsTyped ==
  ASSUME LibraryTyped, LibInv', ClearsHistory
  PROVE  LibraryTyped'
<1> DEFINE h == <<>>
<1>1. /\ Outdates /\ base' = [base EXCEPT !.history = h] /\ UNCHANGED <<work, ids, day>>
  BY DEF ClearsHistory
<1>2. {ids, day} \subseteq Nat
  BY DEF LibraryTyped, LibInv, LibTyped
<1>3. h \in Seq(FineEntry(ids, day))
  OBVIOUS
<1> HIDE DEF h
<1>4. FineBase(base', ids, day)
  BY <1>1, <1>3, HistoryFine
<1>5. FineCommand(command')
  BY <1>1, CommitLeaves
<1> QED  BY <1>1, <1>2, <1>4, <1>5, TypedFrame

LEMMA RestoreBeginsTyped ==
  ASSUME LibraryTyped, LibInv', NEW backup, NEW policy, BackupBegins(backup, policy)
  PROVE  LibraryTyped'
<1>1. /\ work' = [pc |-> 1, base |-> base, backup |-> backup, policy |-> policy]
      /\ UNCHANGED <<base, command, day, ids>>
  BY DEF BackupBegins
<1>2. work'.base = base
  BY <1>1
<1> QED  BY <1>1, <1>2 DEF LibraryTyped

LEMMA CommitsTyped ==
  ASSUME LibraryTyped, LibInv', BackupCommits
  PROVE  LibraryTyped'
<1> DEFINE stale == command.pc # "idle"
<1>1. /\ base' = work.base /\ work' = NoWork /\ work.pc = 4 /\ UNCHANGED <<ids, day>>
      /\ command' = [command EXCEPT !.stale = stale, !.replaced = stale]
  <2>1. Len(Order) + 1 = 4
    BY DEF Order
  <2> QED  BY <2>1, Zenon DEF BackupCommits
<1> HIDE DEF stale
<1>a. \E s, r : \/ command' = [command EXCEPT !.stale = s]
               \/ command' = [command EXCEPT !.stale = s, !.replaced = r]
  BY <1>1, Zenon
<1>2. FineCommand(command')
  BY <1>a, OutdatedFine, Zenon
<1>3. work # NoWork
  BY <1>1 DEF NoWork
<1> QED  BY <1>1, <1>2, <1>3 DEF LibraryTyped

\* Rows that take the ids to come.
LEMMA NumberedFine ==
  ASSUME NEW rows \in Seq(FineRow), NEW n \in Nat
  PROVE  Numbered(rows, n) \in Seq(FineRow)
<1> DEFINE new == Numbered(rows, n)
<1>1. DOMAIN rows = 1 .. Len(rows) /\ Len(rows) \in Nat /\ \A i \in DOMAIN rows : rows[i] \in FineRow
  OBVIOUS
<1>2. new = [i \in 1 .. Len(rows) |-> [rows[i] EXCEPT !.id = IF rows[i].id = 0 THEN n + i ELSE rows[i].id]]
  BY <1>1 DEF Numbered
<1> HIDE DEF new
<1>3. ASSUME NEW i \in 1 .. Len(rows)
      PROVE  new[i] \in FineRow
  <2> DEFINE k == IF rows[i].id = 0 THEN n + i ELSE rows[i].id
  <2>1. k \in Nat
    BY <1>1 DEF FineRow
  <2>2. new[i] = [rows[i] EXCEPT !.id = k]
    BY <1>2
  <2> HIDE DEF k
  <2> QED  BY <1>1, <2>1, <2>2 DEF FineRow
<1>4. new = [i \in 1 .. Len(rows) |-> new[i]]
  BY <1>2
<1>5. new \in Seq(FineRow)
  BY <1>1, <1>3, <1>4
<1> QED  BY <1>5 DEF new

\* The rows of a section of a backup.
LEMMA RestoredFine ==
  ASSUME LibraryTyped, NEW backup \in Backups, Accepts(backup), NEW l \in Lists, l \in DOMAIN backup, NEW policy
  PROVE  Restored(l, backup[l], policy) \in Seq(FineRow)
<1> DEFINE rows == backup[l]
           new  == News(<<>>, rows)
           none == <<>>
<1>1. Restored(l, rows, policy) = Numbered(new, ids) /\ ids \in Nat
  BY DEF Restored, Lists, LibraryTyped, LibInv, LibTyped
<1>2. rows \in Seq(NewRows)
  BY BackupIs
<1>3. \A i \in DOMAIN rows : IsText(rows[i].text)
  <2>1. l # "history"
    BY DEF Lists
  <2> QED  BY <2>1 DEF Accepts
<1> HIDE DEF rows
<1>4. \A i \in DOMAIN rows : rows[i] \in FineRow
  <2>1. \A i \in DOMAIN rows : rows[i] \in NewRows
    BY <1>2
  <2> QED  BY <1>3, <2>1 DEF NewRows, FineRow, FineTexts, IsText
<1>5. rows \in Seq(FineRow) /\ none \in Seq(FineRow)
  BY <1>2, <1>4
<1>6. new \in Seq(FineRow)
  <2>1. none = <<>>
    OBVIOUS
  <2> HIDE DEF none
  <2>2. News(none, rows) \in Seq(FineRow)
    BY <1>5, NewsIs
  <2> QED  BY <2>1, <2>2
<1> HIDE DEF new, none
<1>7. Numbered(new, ids) \in Seq(FineRow)
  BY <1>1, <1>6, NumberedFine
<1> QED  BY <1>1, <1>7 DEF rows

\* The entries of a backup: of days that it says.
LEMMA RestoredEntriesFine ==
  ASSUME LibraryTyped, NEW backup \in Backups, Accepts(backup), "history" \in DOMAIN backup, NEW policy \in Policies
  PROVE  Restored("history", backup["history"], policy)
           \in Seq(FineEntry(ids + Len(backup["history"]), day))
<1> DEFINE rows   == backup["history"]
           size   == Len(rows)
           B      == [id : {0}, day : BackupDays, app : {"none"}]
           E      == FineEntry(ids + size, day)
           recent == Recent(rows, policy, day)
           n      == Min({policy.max, Len(recent)})
           first  == SubSeq(recent, 1, n)
           back   == Reverse(first)
           h      == Restored("history", rows, policy)
<1>1. ids \in Nat /\ day \in Nat
  BY DEF LibraryTyped, LibInv, LibTyped
<1>a. policy.max \in Nat
  BY LibraryAssumption
<1>2. rows \in Seq([id : {0}, day : Nat, app : {"none"}])
  BY BackupIs
<1>3. \A i \in DOMAIN rows : rows[i].day \in BackupDays
  BY DEF BackupDays
<1>4. h = IF policy.enabled THEN Numbered(back, ids) ELSE <<>>
  BY DEF Restored
<1>5. rows \in Seq(B) /\ size \in Nat
  <2> DEFINE N == [id : {0}, day : Nat, app : {"none"}]
  <2>a. rows \in Seq(N)
    BY <1>2
  <2> HIDE DEF rows, N
  <2>1. \A i \in DOMAIN rows : rows[i] \in N
    BY <2>a
  <2>2. \A i \in DOMAIN rows : rows[i] \in B
    BY <1>3, <2>1 DEF N
  <2> HIDE DEF B
  <2> QED  BY <1>2, <2>2
<1> HIDE DEF h, B
<1>6. recent \in Seq(B) /\ Len(recent) <= size
  BY <1>5, RecentIs
<1> HIDE DEF rows, recent, size
<1>7. n \in Nat /\ n <= Len(recent) /\ n <= size /\ Len(recent) \in Nat
  <2>1. Len(recent) \in Nat
    BY <1>6
  <2>2. n \in Nat /\ n <= Len(recent)
    BY <1>a, <2>1, LeastOf
  <2> HIDE DEF n
  <2> QED  BY <1>5, <1>6, <2>1, <2>2
<1> HIDE DEF n
<1>8. first \in Seq(B) /\ Len(first) = n
  BY <1>6, <1>7
<1> HIDE DEF first
<1>9. back = [i \in 1 .. n |-> first[(n - i) + 1]]
  BY <1>8 DEF Reverse
<1> HIDE DEF back
<1>10. \A i \in 1 .. n : back[i] \in B
  <2>1. \A i \in 1 .. n : (n - i) + 1 \in 1 .. n
    BY <1>7
  <2>2. \A i \in 1 .. n : first[i] \in B
    BY <1>8
  <2> QED  BY <1>9, <2>1, <2>2
<1>11. Numbered(back, ids) = [i \in 1 .. n |-> [back[i] EXCEPT !.id = IF back[i].id = 0 THEN ids + i ELSE back[i].id]]
  BY <1>9 DEF Numbered
<1>12. ASSUME NEW i \in 1 .. n
       PROVE  Numbered(back, ids)[i] \in E
  <2>1. back[i] \in [id : {0}, day : BackupDays, app : {"none"}]
    BY <1>10 DEF B
  <2>2. ids + i \in 1 .. ids + size
    BY <1>1, <1>5, <1>7
  <2>3. Numbered(back, ids)[i] = [back[i] EXCEPT !.id = ids + i]
    BY <1>11, <2>1
  <2> QED  BY <2>1, <2>2, <2>3 DEF FineEntry
<1> HIDE DEF E
<1>13. Numbered(back, ids) \in Seq(E)
  <2> DEFINE new == Numbered(back, ids)
  <2>1. new = [i \in 1 .. n |-> new[i]] /\ \A i \in 1 .. n : new[i] \in E
    BY <1>11, <1>12
  <2> HIDE DEF new
  <2>2. new \in Seq(E)
    BY <1>7, <2>1
  <2> QED  BY <2>2 DEF new
<1>14. <<>> \in Seq(E)
  OBVIOUS
<1> QED  BY <1>4, <1>13, <1>14 DEF h, E, rows, size

LEMMA WritesTyped ==
  ASSUME LibraryTyped, LibInv', BackupWrites
  PROVE  LibraryTyped'
<1> DEFINE s    == Order[work.pc]
           rows == Restored(s, work.backup[s], work.policy)
           next == Put(work.base, s, rows)
<1>1. /\ work.pc \in DOMAIN Order /\ UNCHANGED <<command, day>>
      /\ \/ s \in DOMAIN work.backup /\ Writes(next) /\ ids' = ids + Len(work.backup[s])
         \/ s \notin DOMAIN work.backup /\ Writes(work.base) /\ UNCHANGED ids
  BY Zenon DEF BackupWrites, Put
<1>2. work.pc \in 1 .. 3 /\ work # NoWork /\ LibInv
  <2>1. DOMAIN Order = 1 .. 3
    BY DEF Order
  <2> QED  BY <1>1, <2>1 DEF NoWork, LibraryTyped
<1>3. /\ work \in WorkSet /\ work.backup \in Backups /\ work.base \in BaseSet /\ work.policy \in Policies
      /\ {ids, day} \subseteq Nat /\ Accepts(work.backup)
  BY <1>2, WorkIs DEF LibInv, WorkSet, RestoreKnown, LibTyped
<1>4. s \in Sections
  BY <1>2, DoneNext
<1>5. FineBase(work.base, ids, day) /\ FineCommand(command')
  BY <1>1, <1>2 DEF LibraryTyped
<1> HIDE DEF s, next, rows
<1>6. ASSUME NEW b, Writes(b), FineBase(b, ids', day), ids' \in Nat, ids <= ids'
      PROVE  LibraryTyped'
  <2>1. base' = base /\ day' = day /\ work'.base = b
    BY <1>1, <1>3, <1>6 DEF Writes, WorkSet
  <2>2. FineBase(base', ids', day')
    BY <1>3, <1>6, <2>1, FineMore DEF LibraryTyped
  <2> QED  BY <1>5, <1>6, <2>1, <2>2 DEF LibraryTyped
<1>7. CASE Writes(work.base) /\ UNCHANGED ids
  BY <1>3, <1>5, <1>6, <1>7
<1>8. CASE s \in DOMAIN work.backup /\ Writes(next) /\ ids' = ids + Len(work.backup[s])
  <2>1. Len(work.backup[s]) \in Nat
    <3>1. CASE s = "history"
      <4>1. work.backup[s] \in Seq([id : {0}, day : Nat, app : {"none"}])
        BY <1>3, <1>8, <3>1, BackupIs
      <4> QED  BY <4>1
    <3>2. CASE s \in Lists
      <4>1. work.backup[s] \in Seq(NewRows)
        BY <1>3, <1>8, <3>2, BackupIs
      <4> QED  BY <4>1
    <3> QED  BY <1>4, <3>1, <3>2 DEF Sections
  <2>2. ids' \in Nat /\ ids <= ids'
    BY <1>3, <1>8, <2>1
  <2>3. FineBase(work.base, ids', day)
    BY <1>3, <1>5, <2>2, FineMore
  <2>4. CASE s = "history"
    <3>1. rows \in Seq(EntrySet)
      BY <1>3, <1>8, <2>4, BackupIs, RestoredEntries DEF rows
    <3>2. next.history = rows /\ next.dictionary = work.base.dictionary /\ next.rules = work.base.rules
      BY <1>3, <1>4, <2>4, <3>1, PutIs DEF next, Sections, Lists
    <3>3. rows \in Seq(FineEntry(ids', day))
      BY <1>3, <1>8, <2>4, RestoredEntriesFine DEF rows
    <3>4. FineBase(next, ids', day)
      BY <2>3, <3>2, <3>3 DEF FineBase
    <3> QED  BY <1>6, <1>8, <2>2, <3>4
  <2>5. CASE s \in Lists
    <3>1. rows \in Seq(RowSet)
      BY <1>3, <1>8, <2>5, BackupIs, RestoredRows DEF rows
    <3>2. s # "history"
      BY <2>5 DEF Lists
    <3>3. next[s] = rows /\ \A x \in Sections : x # s => next[x] = work.base[x]
      BY <1>3, <1>4, <3>1, <3>2, PutIs DEF next
    <3>4. rows \in Seq(FineRow)
      BY <1>3, <1>8, <2>5, RestoredFine DEF rows
    <3>5. /\ next.history = work.base.history
          /\ next.dictionary = (IF s = "dictionary" THEN rows ELSE work.base.dictionary)
          /\ next.rules = (IF s = "rules" THEN rows ELSE work.base.rules)
      BY <2>5, <3>2, <3>3 DEF Sections, Lists
    <3>6. FineBase(next, ids', day)
      BY <2>3, <3>4, <3>5 DEF FineBase
    <3> QED  BY <1>6, <1>8, <2>2, <3>6
  <2> QED  BY <1>4, <2>4, <2>5 DEF Sections
<1> QED  BY <1>1, <1>7, <1>8

\* A step of a command that leaves the base.
LEMMA CommandTyped ==
  ASSUME LibraryTyped, LibInv', UNCHANGED <<base, work, day, ids>>, FineCommand(command')
  PROVE  LibraryTyped'
<1>1. {ids, day} \subseteq Nat
  BY DEF LibraryTyped, LibInv, LibTyped
<1> QED  BY <1>1, BaseStays, TypedFrame

LEMMA ChecksTyped ==
  ASSUME LibraryTyped, LibInv', NEW l \in Lists, NEW t \in Texts, NEW id \in {0} \cup { r.id : r \in ToSet(base[l]) },
         CommandChecks(l, Row(id, t, TRUE))
  PROVE  LibraryTyped'
<1> DEFINE row == Row(id, t, TRUE)
<1>1. /\ IsText(row.text) /\ UNCHANGED <<base, work, day, ids>>
      /\ command' = [pc |-> "write", list |-> l, row |-> row, stale |-> FALSE, replaced |-> FALSE]
  BY DEF CommandChecks
<1>2. id \in Nat
  <2>1. base[l] \in Seq(RowSet)
    BY ListOf DEF LibraryTyped
  <2>a. \A i \in DOMAIN base[l] : base[l][i] \in RowSet
    BY <2>1
  <2>2. \A i \in DOMAIN base[l] : base[l][i].id \in Nat
    BY <2>a DEF RowSet
  <2> QED  BY <2>2 DEF ToSet
<1>3. row \in FineRow
  BY <1>1, <1>2 DEF Row, FineRow, FineTexts, IsText
<1> HIDE DEF row
<1>4. FineCommand(command')
  BY <1>1, <1>3 DEF FineCommand
<1> QED  BY <1>1, <1>4, CommandTyped

\* A list of the base takes another form.
LEMMA OneListTyped ==
  ASSUME LibraryTyped, LibInv', NEW l \in Lists, NEW rows \in Seq(FineRow), base' = [base EXCEPT ![l] = rows],
         ids' \in Nat, ids <= ids', UNCHANGED <<work, day>>, command' = command \/ command' = NoCommand
  PROVE  LibraryTyped'
<1>1. {ids, day} \subseteq Nat
  BY DEF LibraryTyped, LibInv, LibTyped
<1>2. FineBase(base', ids, day)
  BY ListFine
<1>3. FineBase(base', ids', day')
  BY <1>1, <1>2, FineMore
<1>4. FineCommand(command')
  BY DEF LibraryTyped, FineCommand, NoCommand
<1> QED  BY <1>1, <1>3, <1>4, TypedFrame

LEMMA FineList ==
  ASSUME LibraryTyped, NEW l \in Lists
  PROVE  base[l] \in Seq(FineRow)
BY DEF LibraryTyped, FineBase, Lists

LEMMA CommandWritesTyped ==
  ASSUME LibraryTyped, LibInv', CommandWrites
  PROVE  LibraryTyped'
<1> DEFINE row  == command.row
           l    == command.list
           list == base[l]
           new  == [row EXCEPT !.id = ids + 1]
           rows == IF row.id = 0 THEN Append(list, new)
                   ELSE [i \in DOMAIN list |-> IF list[i].id = row.id THEN row ELSE list[i]]
<1>1. /\ command.pc = "write" /\ ids' = ids + 1 /\ command' = NoCommand /\ UNCHANGED <<work, day>>
      /\ base' = [base EXCEPT ![l] = rows]
  BY DEF CommandWrites
<1>2. l \in Lists
  BY <1>1, CommandIs DEF LibraryTyped, LibInv, Checked
<1>3. row \in FineRow
  BY <1>1 DEF LibraryTyped, FineCommand
<1>4. ids \in Nat
  BY DEF LibraryTyped, LibInv, LibTyped
<1>5. list \in Seq(FineRow)
  BY <1>2, FineList
<1>6. new \in FineRow
  BY <1>3, <1>4 DEF FineRow
<1> HIDE DEF row, l, list, new
<1>7. rows \in Seq(FineRow)
  <2>1. CASE row.id = 0
    BY <1>5, <1>6, <2>1
  <2>2. CASE row.id # 0
    <3>1. rows = [i \in 1 .. Len(list) |-> IF list[i].id = row.id THEN row ELSE list[i]]
      BY <1>5, <2>2
    <3>2. \A i \in 1 .. Len(list) : (IF list[i].id = row.id THEN row ELSE list[i]) \in FineRow
      BY <1>3, <1>5
    <3>3. Len(list) \in Nat
      BY <1>5
    <3> HIDE DEF rows
    <3> QED  BY <3>1, <3>2, <3>3
  <2> QED  BY <2>1, <2>2
<1> HIDE DEF rows
<1>8. ids' \in Nat /\ ids <= ids'
  BY <1>1, <1>4
<1> QED  BY <1>1, <1>2, <1>7, <1>8, OneListTyped

LEMMA ChangesTyped ==
  ASSUME LibraryTyped, LibInv', NEW l \in Lists, NEW i, RowChanges(l, i)
  PROVE  LibraryTyped'
<1> DEFINE list == base[l]
<1>1. i \in DOMAIN list /\ UNCHANGED <<work, command, day, ids>>
  BY DEF RowChanges
<1>2. \/ base' = [base EXCEPT ![l] = RemoveAt(list, i)]
      \/ l = "rules" /\ base' = [base EXCEPT !.rules = Toggled(base.rules, i)]
  BY Zenon DEF RowChanges
<1>3. list \in Seq(FineRow) /\ ids \in Nat
  BY FineList DEF LibraryTyped, LibInv, LibTyped
<1>4. ASSUME NEW rows \in Seq(FineRow), base' = [base EXCEPT ![l] = rows]
      PROVE  LibraryTyped'
  <2> HIDE DEF list
  <2>1. ids' \in Nat /\ ids <= ids' /\ UNCHANGED <<work, day>> /\ command' = command
    BY <1>1, <1>3
  <2> QED  BY <1>4, <2>1, OneListTyped
<1>5. CASE base' = [base EXCEPT ![l] = RemoveAt(list, i)]
  <2> HIDE DEF list
  <2>1. DOMAIN list = 1 .. Len(list) /\ Len(list) \in Nat /\ i \in 1 .. Len(list)
    BY <1>1, <1>3
  <2> DEFINE before == SubSeq(list, 1, i - 1)
             after  == SubSeq(list, i + 1, Len(list))
  <2>2. before \in Seq(FineRow) /\ after \in Seq(FineRow)
    BY <1>3, <2>1
  <2>3. RemoveAt(list, i) = before \o after
    BY DEF RemoveAt
  <2> HIDE DEF before, after
  <2>4. RemoveAt(list, i) \in Seq(FineRow)
    BY <2>2, <2>3
  <2> QED  BY <1>4, <1>5, <2>4
<1>6. CASE l = "rules" /\ base' = [base EXCEPT !.rules = Toggled(base.rules, i)]
  <2> DEFINE new == Toggled(list, i)
             row == [list[i] EXCEPT !.on = ~list[i].on]
  <2>1. base' = [base EXCEPT ![l] = new]
    BY <1>6, Zenon
  <2>2. new = [list EXCEPT ![i] = row]
    BY DEF Toggled
  <2> HIDE DEF list, new
  <2>3. list[i] \in FineRow
    BY <1>1, <1>3
  <2>4. row \in FineRow
    BY <2>3 DEF FineRow
  <2> HIDE DEF row
  <2>5. new \in Seq(FineRow)
    BY <1>1, <1>3, <2>2, <2>4
  <2> QED  BY <1>4, <2>1, <2>5
<1> QED  BY <1>2, <1>5, <1>6

LEMMA ImportReadsTyped ==
  ASSUME LibraryTyped, LibInv', NEW file \in Files, ImportReads(file)
  PROVE  LibraryTyped'
<1> DEFINE listed == file.rows
           rows   == [i \in DOMAIN listed |-> [listed[i] EXCEPT !.text = IF file.marked THEN FromCell(@) ELSE @]]
           S      == { r \in ToSet(rows) : IsText(r.text) }
           some   == Parsed(file)
<1>1. /\ UNCHANGED <<base, work, day, ids>>
      /\ command' = [pc |-> "import", rows |-> some, read |-> base, stale |-> FALSE, replaced |-> FALSE]
  BY DEF ImportReads
<1>2. some \in Seq(FileRows)
  BY ParsedIs
<1>3. some = Among(rows, S)
  BY Zenon DEF Parsed
<1>4. DOMAIN listed = 1 .. Len(listed) /\ Len(listed) \in Nat
  BY InputAssumption
<1> HIDE DEF listed, some
<1>5. rows \in Seq(ToSet(rows))
  <2>1. rows = [i \in 1 .. Len(listed) |-> rows[i]] /\ \A i \in 1 .. Len(listed) : rows[i] \in ToSet(rows)
    BY <1>4 DEF ToSet
  <2> HIDE DEF rows
  <2> QED  BY <1>4, <2>1
<1> HIDE DEF rows
<1>6. some \in Seq(ToSet(rows) \cap S)
  BY <1>3, <1>5, AmongIs
<1>7. \A i \in DOMAIN some : IsText(some[i].text)
  BY <1>6
<1>8. \A i \in DOMAIN some : some[i] \in FineFileRow
  <2>1. \A i \in DOMAIN some : some[i] \in FileRows
    BY <1>2
  <2> QED  BY <1>7, <2>1 DEF FileRows, FineFileRow, FineTexts, IsText
<1>9. some \in Seq(FineFileRow)
  BY <1>2, <1>8
<1>10. FineCommand(command')
  BY <1>1, <1>9 DEF FineCommand
<1> QED  BY <1>1, <1>10, CommandTyped

\* What an import makes of a list that is fine.
LEMMA ImportedFine ==
  ASSUME NEW list \in Seq(FineRow), NEW n \in Nat, NEW rows \in Seq(FineFileRow), NEW l
  PROVE  LET new == News(list, Plain(RowsFor(rows, l)))
         IN  Numbered(new, n) \in Seq(FineRow) /\ Len(new) \in Nat
<1> DEFINE some  == RowsFor(rows, l)
           plain == Plain(some)
           new   == News(list, plain)
           S     == { r \in ToSet(rows) : r.list = l }
<1>1. some = Among(rows, S)
  BY DEF RowsFor
<1> HIDE DEF S, some
<1>2. Among(rows, S) \in Seq(FineFileRow \cap S)
  BY AmongIs
<1>3. Len(some) \in Nat /\ DOMAIN some = 1 .. Len(some) /\ \A i \in 1 .. Len(some) : some[i] \in FineFileRow
  BY <1>1, <1>2
<1>4. plain = [i \in 1 .. Len(some) |-> Row(0, some[i].text, some[i].on)]
  BY <1>3 DEF Plain
<1>5. \A i \in 1 .. Len(some) : Row(0, some[i].text, some[i].on) \in FineRow
  BY <1>3 DEF Row, FineRow, FineFileRow
<1> HIDE DEF plain
<1>6. plain \in Seq(FineRow)
  BY <1>3, <1>4, <1>5
<1>7. new \in Seq(FineRow)
  BY <1>6, NewsIs
<1> HIDE DEF new
<1>8. Numbered(new, n) \in Seq(FineRow) /\ Len(new) \in Nat
  <2>1. Numbered(new, n) \in Seq(FineRow)
    BY <1>7, NumberedFine
  <2>2. Len(new) \in Nat
    BY <1>7
  <2> QED  BY <2>1, <2>2
<1> QED  BY <1>8 DEF new, plain, some

LEMMA ImportWritesTyped ==
  ASSUME LibraryTyped, LibInv', ImportWrites
  PROVE  LibraryTyped'
<1> DEFINE newd == News(command.read["dictionary"], Plain(RowsFor(command.rows, "dictionary")))
           newr == News(command.read["rules"], Plain(RowsFor(command.rows, "rules")))
           d    == Numbered(newd, ids)
           r    == Numbered(newr, ids + Len(newd))
<1>1. /\ command.pc = "import" /\ command' = NoCommand
      /\ ids' = ids + Len(command.rows) + Len(base.dictionary) + Len(base.rules)
      /\ UNCHANGED <<work, day>>
  BY DEF ImportWrites
<1>2. \/ base' = base
      \/ ~command.stale /\ base' = [base EXCEPT !.dictionary = d, !.rules = r]
  <2>1. [l \in Lists |-> News(command.read[l], Plain(RowsFor(command.rows, l)))]["dictionary"] = newd
    BY DEF Lists
  <2>2. [l \in Lists |-> News(command.read[l], Plain(RowsFor(command.rows, l)))]["rules"] = newr
    BY DEF Lists
  <2> HIDE DEF newd, newr
  <2> QED  BY <2>1, <2>2, Zenon DEF ImportWrites
<1>3. /\ base \in BaseSet /\ {ids, day} \subseteq Nat /\ FineBase(base, ids, day)
      /\ command.rows \in Seq(FineFileRow) /\ (~command.stale => command.read = base)
  BY <1>1 DEF LibraryTyped, LibInv, LibTyped, CommandStands, FineCommand
<1>4. base.dictionary \in Seq(FineRow) /\ base.rules \in Seq(FineRow)
  BY <1>3 DEF FineBase
<1>5. ids' \in Nat /\ ids <= ids'
  <2>1. Len(base.dictionary) \in Nat /\ Len(base.rules) \in Nat /\ Len(command.rows) \in Nat
    BY <1>3, <1>4
  <2>2. ids' = ids + Len(command.rows) + Len(base.dictionary) + Len(base.rules) /\ ids \in Nat
    BY <1>1, <1>3
  <2> QED  BY <2>1, <2>2, SumUp
<1>6. FineCommand(command')
  BY <1>1 DEF FineCommand, NoCommand
<1>7. FineBase(base, ids', day)
  BY <1>3, <1>5, FineMore
<1>8. CASE base' = base
  BY <1>1, <1>3, <1>5, <1>6, <1>7, <1>8, TypedFrame
<1>9. CASE ~command.stale /\ base' = [base EXCEPT !.dictionary = d, !.rules = r]
  <2>1. /\ newd = News(base.dictionary, Plain(RowsFor(command.rows, "dictionary")))
        /\ newr = News(base.rules, Plain(RowsFor(command.rows, "rules")))
    BY <1>3, <1>9
  <2>2. d = Numbered(newd, ids)
    OBVIOUS
  <2> HIDE DEF newd, newr, d
  <2>3. d \in Seq(FineRow) /\ Len(newd) \in Nat
    BY <1>3, <1>4, <2>1, <2>2, ImportedFine
  <2> DEFINE m == ids + Len(newd)
  <2>4. m \in Nat /\ r = Numbered(newr, m)
    BY <1>3, <2>3
  <2> HIDE DEF m, r
  <2>5. r \in Seq(FineRow)
    BY <1>3, <1>4, <2>1, <2>4, ImportedFine
  <2>6. base'.dictionary = d /\ base'.rules = r /\ base'.history = base.history
    BY <1>3, <1>9 DEF BaseSet
  <2>7. FineBase(base', ids', day)
    BY <1>7, <2>3, <2>5, <2>6 DEF FineBase
  <2> QED  BY <1>1, <1>3, <1>5, <1>6, <2>7, TypedFrame
<1> QED  BY <1>2, <1>8, <1>9

LEMMA LibraryTypesStep ==
  ASSUME LibraryTyped, [LibraryNext]_libraryVars
  PROVE  LibraryTyped'
<1>1. LibInv'
  BY LibraryKept DEF LibraryTyped
<1>2. CASE UNCHANGED libraryVars
  BY <1>1, <1>2 DEF libraryVars, LibraryTyped
<1>3. CASE LibraryNext
  <2>1. \/ Starts \/ Crashes \/ DayPasses \/ ClearsHistory
        \/ (\E p \in Policies : \E a \in Adders : HistoryInserts(a, p))
        \/ (\E p \in Policies : \E b \in Backups : BackupBegins(b, p))
        \/ (\E a \in Adders : HistoryPrunes(a) \/ HistoryExpires(a))
        \/ BackupWrites \/ BackupFails \/ BackupCommits
        \/ (\E l \in Lists : \E t \in Texts, id \in {0} \cup { r.id : r \in ToSet(base[l]) } :
                           CommandChecks(l, Row(id, t, TRUE)))
        \/ (\E l \in Lists : \E i \in 1..2 : RowChanges(l, i))
        \/ CommandWrites \/ (\E f \in Files : ImportReads(f)) \/ ImportWrites
    BY <1>3, Zenon DEF LibraryNext
  <2>2. Starts => LibraryTyped'  BY <1>1, StartsTyped
  <2>3. Crashes \/ DayPasses \/ BackupFails => LibraryTyped'  BY <1>1, CrashesTyped
  <2>4. ClearsHistory => LibraryTyped'  BY <1>1, ClearsTyped
  <2>5. \A p, a : HistoryInserts(a, p) => LibraryTyped'  BY <1>1, InsertsTyped
  <2>6. \A p, b : BackupBegins(b, p) => LibraryTyped'  BY <1>1, RestoreBeginsTyped
  <2>7. \A a \in Adders : HistoryPrunes(a) \/ HistoryExpires(a) => LibraryTyped'
    BY <1>1, PrunesTyped, ExpiresTyped
  <2>8. BackupWrites => LibraryTyped'  BY <1>1, WritesTyped
  <2>9. BackupCommits => LibraryTyped'  BY <1>1, CommitsTyped
  <2>10. \A l \in Lists : \A t \in Texts, id \in {0} \cup { r.id : r \in ToSet(base[l]) } :
            CommandChecks(l, Row(id, t, TRUE)) => LibraryTyped'
    BY <1>1, ChecksTyped
  <2>11. \A l \in Lists : \A i : RowChanges(l, i) => LibraryTyped'  BY <1>1, ChangesTyped
  <2>12. CommandWrites => LibraryTyped'  BY <1>1, CommandWritesTyped
  <2>13. \A f \in Files : ImportReads(f) => LibraryTyped'  BY <1>1, ImportReadsTyped
  <2>14. ImportWrites => LibraryTyped'  BY <1>1, ImportWritesTyped
  <2> QED  BY <2>1, <2>2, <2>3, <2>4, <2>5, <2>6, <2>7, <2>8, <2>9, <2>10, <2>11, <2>12, <2>13, <2>14, Zenon
<1> QED  BY <1>2, <1>3

LEMMA LibraryTypesFollow == LibraryTyped => LibraryTypeOK
<1> SUFFICES ASSUME LibraryTyped PROVE LibraryTypeOK
  OBVIOUS
<1>1. LibTyped /\ ListsKept(base) /\ base \in BaseSet
  BY DEF LibraryTyped, LibInv, LibTyped
<1>2. ASSUME NEW l \in Lists, NEW i \in DOMAIN base[l]
      PROVE  base[l][i].id \in 1 .. ids /\ IsText(base[l][i].text) /\ base[l][i].on \in BOOLEAN
  <2>1. base[l] \in Seq(FineRow)
    BY FineList
  <2>2. base[l][i] \in FineRow
    BY <2>1
  <2>3. base[l][i].id \in 1 .. ids
    BY <1>1 DEF ListsKept, KeptUpTo, IdsUpTo
  <2> QED  BY <2>2, <2>3 DEF FineRow, FineTexts, IsText
<1>3. ASSUME NEW i \in DOMAIN base.history
      PROVE  base.history[i].id \in 1 .. ids /\ base.history[i].day \in (0 .. day) \cup BackupDays
  <2>1. base.history \in Seq(FineEntry(ids, day))
    BY DEF LibraryTyped, FineBase
  <2>2. base.history[i] \in FineEntry(ids, day)
    BY <2>1
  <2> QED  BY <2>2 DEF FineEntry
<1>4. base.restored \subseteq ToSet(Order)
  <2>1. DOMAIN Order = {1, 2, 3} /\ Order[1] = "history" /\ Order[2] = "dictionary" /\ Order[3] = "rules"
    BY DEF Order
  <2>2. base.restored \subseteq Sections
    BY <1>1 DEF BaseSet
  <2> QED  BY <2>1, <2>2 DEF ToSet, Sections, Lists
<1>5. work.pc \in 0 .. Len(Order) + 1
  <2>1. Len(Order) + 1 = 4
    BY DEF Order
  <2>2. work.pc \in 0 .. 4
    BY <1>1 DEF LibTyped, NoWork, WorkSet
  <2> QED  BY <2>1, <2>2
<1>6. command.pc \in {"idle", "write", "import"}
  BY <1>1, CommandIs
<1> QED  BY <1>2, <1>3, <1>4, <1>5, <1>6 DEF LibraryTypeOK

\* Whatever the backups and the files hold: no invalid text gets into the lists,
\* every row and entry has an id that was handed out, and every entry is of a day
\* that has come, or that a backup says.
THEOREM LibraryTypes == LibrarySpec => []LibraryTypeOK
<1>1. LibraryInit => LibraryTyped
  BY LibraryTypesStart
<1>2. LibraryTyped /\ [LibraryNext]_libraryVars => LibraryTyped'
  BY LibraryTypesStep
<1> QED  BY <1>1, <1>2, LibraryTypesFollow, PTL DEF LibrarySpec

-----------------------------------------------------------------------------
(* Settings: what a config says of the keys, and what leaves it as it is     *)

Shape(c) == {"provider", "key", "customKey", "llmKey"} \subseteq DOMAIN c

Same(c, d) ==
  /\ DOMAIN d = DOMAIN c
  /\ d.provider = c.provider /\ d.key = c.key /\ d.customKey = c.customKey /\ d.llmKey = c.llmKey

\* To say the same of the keys is transitive, and keeps the fields.
LEMMA SameThen ==
  ASSUME NEW c, NEW d, NEW e, Same(c, d), Same(d, e)
  PROVE  Same(c, e)
BY DEF Same

LEMMA SameShape ==
  ASSUME NEW c, NEW d, Same(c, d), Shape(c)
  PROVE  Shape(d)
BY DEF Same, Shape

\* No part of normalising or loading changes a key or the provider.
LEMMA ScenesSame ==
  ASSUME NEW c, Shape(c)
  PROVE  Same(c, NormalScenes(c))
<1> DEFINE v == IF c.assigned \in KnownScenes(c) THEN c.assigned ELSE Nothing
<1>1. NormalScenes(c) = [c EXCEPT !.assigned = v]
  BY Zenon DEF NormalScenes
<1> HIDE DEF v
<1> QED  BY <1>1 DEF Same, Shape

LEMMA TranslationSame ==
  ASSUME NEW c, Shape(c)
  PROVE  Same(c, NormalTranslation(c))
<1> DEFINE known  == FoldLeft(AddTarget, <<>>, c.targets)
           legacy == c.targetLang \in Languages20
           some   == IF known # <<>> THEN known ELSE <<IF legacy THEN c.targetLang ELSE "en">>
           all    == IF legacy THEN AddTarget(some, c.targetLang) ELSE some
           active == IF legacy /\ c.targetLang \in ToSet(all) THEN c.targetLang
                     ELSE IF c.active \in ToSet(all) THEN c.active
                     ELSE all[1]
<1>1. NormalTranslation(c) = [c EXCEPT !.targets = all, !.active = active, !.targetLang = active]
  BY Zenon DEF NormalTranslation
<1> HIDE DEF known, legacy, some, all, active
<1> QED  BY <1>1 DEF Same, Shape

LEMMA InsertionSame ==
  ASSUME NEW c, Shape(c)
  PROVE  Same(c, NormalInsertion(c))
<1> DEFINE s == IF c.insertion \in Insertions THEN c.insertion ELSE "auto"
           o == IF s \in {"paste", "copy"} THEN "clipboard" ELSE "keyboard"
<1>1. NormalInsertion(c) = [c EXCEPT !.insertion = s, !.outputMode = o]
  BY Zenon DEF NormalInsertion
<1> HIDE DEF s, o
<1> QED  BY <1>1 DEF Same, Shape

LEMMA UnretireSame ==
  ASSUME NEW c, Shape(c)
  PROVE  Same(c, Unretire(c))
<1>1. CASE c.dictation = "retired"
  BY <1>1 DEF Unretire, Same, Shape
<1>2. CASE c.dictation # "retired"
  BY <1>2 DEF Unretire, Same, Shape
<1> QED  BY <1>1, <1>2

LEMMA MirrorSame ==
  ASSUME NEW c, Shape(c)
  PROVE  Same(c, MirrorHotkeys(c))
<1> DEFINE list == IF c.list = <<>> THEN Lifted(c.dictation) ELSE NormalList(c.list)
           full == IF list = <<>> THEN <<"default">> ELSE list
           asks == IF c.asks = <<>> THEN Lifted(c.ask) ELSE NormalList(c.asks)
           one  == full[1]
           ask  == FirstOf(asks)
           n    == NormalHotkeys(c)
<1>1. n = [c EXCEPT !.list = full, !.dictation = one, !.asks = asks, !.ask = ask]
  BY Zenon DEF NormalHotkeys
<1> HIDE DEF list, full, asks, one, ask, n
<1>2. Same(c, n)
  BY <1>1 DEF Same, Shape
<1>3. Shape(n)
  BY <1>2, SameShape
<1> DEFINE dictation == n.dictation
           asked == n.ask
           mode  == n.mode
<1>4. MirrorHotkeys(c) = [n EXCEPT !.hotkey = dictation, !.askHotkey = asked, !.hotkeyMode = mode]
  BY Zenon DEF MirrorHotkeys, n
<1> HIDE DEF dictation, asked, mode
<1>5. Same(n, MirrorHotkeys(c))
  BY <1>3, <1>4 DEF Same, Shape
<1> QED  BY <1>2, <1>5, SameThen

LEMMA NormalSame ==
  ASSUME NEW c, Shape(c)
  PROVE  Same(c, Normal(c))
<1> DEFINE a == NormalScenes(c)
           b == NormalTranslation(a)
           d == NormalInsertion(b)
           e == Unretire(d)
           f == MirrorHotkeys(e)
           l == Limit(f)
<1>1. Normal(c) = [f EXCEPT !.limit = l]
  BY Zenon DEF Normal
<1> HIDE DEF l
<1>2. Same(c, a) /\ Shape(a)
  BY ScenesSame, SameShape
<1> HIDE DEF a
<1>3. Same(a, b) /\ Shape(b)
  BY <1>2, TranslationSame, SameShape
<1> HIDE DEF b
<1>4. Same(b, d) /\ Shape(d)
  BY <1>3, InsertionSame, SameShape
<1> HIDE DEF d
<1>5. Same(d, e) /\ Shape(e)
  BY <1>4, UnretireSame, SameShape
<1> HIDE DEF e
<1>6. Same(e, f) /\ Shape(f)
  BY <1>5, MirrorSame, SameShape
<1> HIDE DEF f
<1>7. Same(f, Normal(c))
  BY <1>1, <1>6 DEF Same, Shape
<1>8. Same(c, f)
  BY <1>2, <1>3, <1>4, <1>5, <1>6 DEF Same
<1> QED  BY <1>7, <1>8, SameThen

LEMMA LegacyHotkeysSame ==
  ASSUME NEW c, Shape(c)
  PROVE  Same(c, FromLegacyHotkeys(c))
<1> DEFINE retired == c.hotkey = "retired" /\ c.hotkeyMode = "toggle"
           b    == IF retired \/ c.hotkey = "invalid" THEN "default" ELSE c.hotkey
           ask  == IF c.askHotkey = "invalid" THEN DefaultAsk ELSE c.askHotkey
           bs   == <<b>>
           asks == Lifted(ask)
           mode == IF retired THEN "hold" ELSE c.hotkeyMode
<1>1. FromLegacyHotkeys(c) = [c EXCEPT !.hotkey = b, !.dictation = b, !.list = bs, !.ask = ask,
                                       !.asks = asks, !.mode = mode]
  BY Zenon DEF FromLegacyHotkeys
<1> HIDE DEF retired, b, ask, bs, asks, mode
<1> QED  BY <1>1 DEF Same, Shape

LEMMA LegacyTargetSame ==
  ASSUME NEW c, Shape(c)
  PROVE  Same(c, FromLegacyTarget(c))
<1> DEFINE lang == IF c.targetLang \in Languages20 THEN c.targetLang ELSE "en"
           ts   == <<lang>>
<1>1. FromLegacyTarget(c) = [c EXCEPT !.targets = ts, !.active = lang]
  BY Zenon DEF FromLegacyTarget
<1> HIDE DEF lang, ts
<1> QED  BY <1>1 DEF Same, Shape

LEMMA LegacyLimitSame ==
  ASSUME NEW c, Shape(c)
  PROVE  Same(c, FromLegacyLimit(c))
<1> DEFINE l == c.limit
<1>1. \/ FromLegacyLimit(c) = [c EXCEPT !.limitMode = "auto", !.customLimit = 600]
      \/ FromLegacyLimit(c) = [c EXCEPT !.limitMode = "custom", !.customLimit = l]
  BY Zenon DEF FromLegacyLimit
<1> HIDE DEF l
<1> QED  BY <1>1 DEF Same, Shape

LEMMA LegacyOutputSame ==
  ASSUME NEW c, Shape(c)
  PROVE  Same(c, FromLegacyOutput(c))
<1> DEFINE v == IF c.outputMode = "clipboard" THEN "paste" ELSE "auto"
<1>1. FromLegacyOutput(c) = [c EXCEPT !.insertion = v]
  BY Zenon DEF FromLegacyOutput
<1> HIDE DEF v
<1> QED  BY <1>1 DEF Same, Shape

LEMMA FromStoredSame ==
  ASSUME NEW stored, Shape(stored.config)
  PROVE  Same(stored.config, FromStored(stored))
<1> DEFINE c0 == stored.config
           c1 == IF "limitMode" \notin stored.has THEN FromLegacyLimit(c0)
                 ELSE IF "customLimit" \notin stored.has THEN [c0 EXCEPT !.customLimit = 600]
                 ELSE c0
           c2 == IF "translation" \notin stored.has THEN FromLegacyTarget(c1)
                 ELSE IF "targetLang" \notin stored.has THEN [c1 EXCEPT !.targetLang = c1.active]
                 ELSE c1
           c3 == IF "insertion" \in stored.has THEN c2 ELSE FromLegacyOutput(c2)
           c4 == IF "hotkeys" \in stored.has THEN MirrorHotkeys(c3) ELSE FromLegacyHotkeys(c3)
<1>0. FromStored(stored) = Normal(c4)
  BY Zenon DEF FromStored
<1>1. \A c : Same(c, c)
  BY DEF Same
<1>2. Same(c0, c1) /\ Shape(c1)
  <2>1. Shape(c0)
    OBVIOUS
  <2>2. c1 \in {FromLegacyLimit(c0), [c0 EXCEPT !.customLimit = 600], c0}
    BY Zenon
  <2> HIDE DEF c0, c1
  <2>3. Same(c0, [c0 EXCEPT !.customLimit = 600])
    BY <2>1 DEF Same, Shape
  <2>4. Same(c0, c1)
    BY <1>1, <2>1, <2>2, <2>3, LegacyLimitSame
  <2> QED  BY <2>1, <2>4, SameShape
<1> HIDE DEF c1
<1>3. Same(c1, c2) /\ Shape(c2)
  <2> DEFINE v == c1.active
  <2>2. c2 \in {FromLegacyTarget(c1), [c1 EXCEPT !.targetLang = v], c1}
    BY Zenon
  <2> HIDE DEF c2, v
  <2>3. Same(c1, [c1 EXCEPT !.targetLang = v])
    BY <1>2 DEF Same, Shape
  <2>4. Same(c1, c2)
    BY <1>1, <1>2, <2>2, <2>3, LegacyTargetSame
  <2> QED  BY <1>2, <2>4, SameShape
<1> HIDE DEF c2
<1>4. Same(c2, c3) /\ Shape(c3)
  <2>2. c3 \in {FromLegacyOutput(c2), c2}
    BY Zenon
  <2> HIDE DEF c3
  <2>4. Same(c2, c3)
    BY <1>1, <1>3, <2>2, LegacyOutputSame
  <2> QED  BY <1>3, <2>4, SameShape
<1> HIDE DEF c3
<1>5. Same(c3, c4) /\ Shape(c4)
  <2>2. c4 \in {MirrorHotkeys(c3), FromLegacyHotkeys(c3)}
    BY Zenon
  <2> HIDE DEF c4
  <2>4. Same(c3, c4)
    BY <1>4, <2>2, MirrorSame, LegacyHotkeysSame
  <2> QED  BY <1>4, <2>4, SameShape
<1> HIDE DEF c4
<1>6. Same(c4, Normal(c4))
  BY <1>5, NormalSame
<1>7. Same(c0, c4)
  BY <1>2, <1>3, <1>4, <1>5 DEF Same
<1> QED  BY <1>0, <1>6, <1>7, SameThen

LEMMA SyncSame ==
  ASSUME NEW c, Shape(c)
  PROVE  Same(c, SyncHotkeys(c))
<1> DEFINE d == DefaultConfig
           lists   == c.list # d.list \/ c.asks # d.asks
           scalars == c.dictation # d.dictation \/ c.ask # d.ask
           typed   == lists \/ scalars \/ c.mode # d.mode
           legacy  == c.hotkey # d.hotkey \/ c.askHotkey # d.askHotkey \/ c.hotkeyMode # d.hotkeyMode
           l1 == ReplaceFirst(c.list, c.dictation)
           a1 == ReplaceFirst(c.asks, c.ask)
           d2 == IF c.list = <<>> THEN c.dictation ELSE c.list[1]
           a2 == FirstOf(c.asks)
           s1 == [c EXCEPT !.list = l1, !.asks = a1]
           s2 == [c EXCEPT !.dictation = d2, !.ask = a2]
           synced == IF scalars /\ ~lists THEN s1 ELSE s2
           old == FromLegacyHotkeys(c)
           h == IF synced.dictation = "invalid" THEN synced.hotkey ELSE synced.dictation
           k == IF synced.ask = "invalid" THEN Nothing ELSE synced.ask
           m == synced.mode
           l3 == ReplaceFirst(c.list, old.dictation)
           a3 == ReplaceFirst(c.asks, old.ask)
<1>1. SyncHotkeys(c) \in {[synced EXCEPT !.hotkey = h, !.askHotkey = k, !.hotkeyMode = m],
                          [old EXCEPT !.list = l3, !.asks = a3]}
  BY Zenon DEF SyncHotkeys
<1>2. synced \in {s1, s2}
  BY Zenon
<1> HIDE DEF synced, h, k, m, l3, a3, old, l1, a1, d2, a2
<1>3. Same(c, s1) /\ Same(c, s2)
  BY DEF Same, Shape
<1> HIDE DEF s1, s2
<1>4. Same(c, synced) /\ Shape(synced)
  BY <1>2, <1>3, SameShape
<1>5. Same(c, old) /\ Shape(old)
  BY LegacyHotkeysSame, SameShape DEF old
<1>6. Same(synced, [synced EXCEPT !.hotkey = h, !.askHotkey = k, !.hotkeyMode = m])
  BY <1>4 DEF Same, Shape
<1>7. Same(old, [old EXCEPT !.list = l3, !.asks = a3])
  BY <1>5 DEF Same, Shape
<1> QED  BY <1>1, <1>4, <1>5, <1>6, <1>7, SameThen

LEMMA PreparedSame ==
  ASSUME NEW c, Shape(c)
  PROVE  Same(c, Prepared(c))
<1> DEFINE a == SyncHotkeys(c)
           b == Normal(a)
           l == Limit(b)
           cl == IF b.limitMode = "custom" THEN Limit(b) ELSE IF b.customLimit = 0 THEN 600 ELSE b.customLimit
<1>1. Prepared(c) = [b EXCEPT !.limit = l, !.customLimit = cl]
  BY Zenon DEF Prepared, ClampLimit
<1> HIDE DEF l, cl
<1>2. Same(c, a) /\ Shape(a)
  BY SyncSame, SameShape
<1> HIDE DEF a
<1>3. Same(a, b) /\ Shape(b)
  BY <1>2, NormalSame, SameShape
<1> HIDE DEF b
<1>4. Same(b, Prepared(c))
  BY <1>1, <1>3 DEF Same, Shape
<1> QED  BY <1>2, <1>3, <1>4, SameThen

\* A command leaves the keys as they are, and only one of them the provider.
LEMMA EditedSame ==
  ASSUME NEW c, Shape(c), NEW e, e.what \in EditKinds
  PROVE  Same(IF e.what = "provider" THEN [c EXCEPT !.provider = e.to] ELSE c, Edited(c, e))
<1>0. \A x : Same(x, x)
  BY DEF Same
<1>1. CASE e.what \in PageEdits
  <2>1. Edited(c, e) = Prepared(OfPage(c, e))
    <3> DEFINE w == e.what
               p == Prepared(OfPage(c, e))
               a == Target(c, e.to)
               b == [c EXCEPT !.assigned = e.to]
               h == Normal([c EXCEPT !.list = ReplaceFirst(@, e.to), !.dictation = e.to, !.hotkey = e.to])
               k == Normal([c EXCEPT !.asks = ReplaceFirst(@, e.to), !.ask = e.to, !.askHotkey = e.to])
    <3>1. Edited(c, e) = CASE w \in PageEdits -> p [] w = "target" -> a [] w = "assign" -> b
                           [] w = "hotkey" -> h [] w = "askHotkey" -> k [] w = "resave" -> c
      BY DEF Edited
    <3> HIDE DEF p, a, b, h, k
    <3>2. Edited(c, e) = p
      BY <1>1, <3>1 DEF PageEdits
    <3> QED  BY <3>2 DEF p
  <2> DEFINE p == OfPage(c, e)
             lc == e.to
             l1 == e.to[1]
             lh == <<c.hotkey>>
             la == Lifted(c.askHotkey)
             lf == FirstOf(e.to)
  <2>2. e.what = "provider" => p = [c EXCEPT !.provider = e.to]
    BY Zenon DEF OfPage
  <2>3. e.what # "provider" =>
          p \in { [c EXCEPT !.limitMode = "custom", !.customLimit = lc],
                  [c EXCEPT !.targets = lc, !.active = l1, !.targetLang = l1],
                  [c EXCEPT !.list = lc, !.dictation = l1, !.hotkey = l1],
                  [c EXCEPT !.asks = lc, !.ask = lf, !.askHotkey = lf],
                  [c EXCEPT !.mode = lc, !.hotkeyMode = lc, !.list = lh, !.asks = la],
                  [c EXCEPT !.insertion = lc],
                  [c EXCEPT !.scenes = lc] }
    BY <1>1, Zenon DEF OfPage, PageEdits
  <2> HIDE DEF lc, l1, lh, la, lf, p
  <2>4. e.what # "provider" => Same(c, p)
    BY <2>3 DEF Same, Shape
  <2>5. Shape(p) /\ Same(IF e.what = "provider" THEN [c EXCEPT !.provider = e.to] ELSE c, p)
    <3>1. CASE e.what = "provider"
      <4>1. p = [c EXCEPT !.provider = e.to]
        BY <2>2, <3>1
      <4>2. Shape(p)
        BY <4>1 DEF Shape
      <4>3. Same([c EXCEPT !.provider = e.to], p)
        BY <1>0, <4>1
      <4> QED  BY <3>1, <4>2, <4>3
    <3>2. CASE e.what # "provider"
      BY <2>4, <3>2, SameShape
    <3> QED  BY <3>1, <3>2
  <2>6. Same(p, Edited(c, e))
    BY <2>1, <2>5, PreparedSame DEF p
  <2> QED  BY <2>5, <2>6, SameThen
<1>2. CASE e.what = "target"
  <2> DEFINE l == e.to
  <2>1. Edited(c, e) = [c EXCEPT !.active = l, !.targetLang = l]
    BY <1>2, Zenon DEF Edited, Target, PageEdits
  <2> HIDE DEF l
  <2> QED  BY <1>2, <2>1 DEF Same, Shape
<1>3. CASE e.what = "assign"
  <2> DEFINE l == e.to
  <2>1. Edited(c, e) = [c EXCEPT !.assigned = l]
    BY <1>3, Zenon DEF Edited, PageEdits
  <2> HIDE DEF l
  <2> QED  BY <1>3, <2>1 DEF Same, Shape
<1>4. CASE e.what = "hotkey"
  <2> DEFINE l == e.to
             ls == ReplaceFirst(c.list, e.to)
             d == [c EXCEPT !.list = ls, !.dictation = l, !.hotkey = l]
  <2>1. Edited(c, e) = Normal(d)
    BY <1>4, Zenon DEF Edited, PageEdits
  <2> HIDE DEF l, ls
  <2>2. Same(c, d) /\ Shape(d)
    BY DEF Same, Shape
  <2> HIDE DEF d
  <2> QED  BY <1>4, <2>1, <2>2, NormalSame, SameThen
<1>5. CASE e.what = "askHotkey"
  <2> DEFINE l == e.to
             ls == ReplaceFirst(c.asks, e.to)
             d == [c EXCEPT !.asks = ls, !.ask = l, !.askHotkey = l]
  <2>1. Edited(c, e) = Normal(d)
    BY <1>5, Zenon DEF Edited, PageEdits
  <2> HIDE DEF l, ls
  <2>2. Same(c, d) /\ Shape(d)
    BY DEF Same, Shape
  <2> HIDE DEF d
  <2> QED  BY <1>5, <2>1, <2>2, NormalSame, SameThen
<1>6. CASE e.what = "resave"
  <2>1. Edited(c, e) = c
    BY <1>6, Zenon DEF Edited, PageEdits
  <2> QED  BY <1>0, <1>6, <2>1
<1> QED  BY <1>1, <1>2, <1>3, <1>4, <1>5, <1>6 DEF EditKinds

-----------------------------------------------------------------------------
(* The keys that wait in a config                                            *)

\* The config names a provider that is known, and holds no key of a provider
\* before the custom one.
Clean(c) == Shape(c) /\ c.provider \in Providers /\ (c.provider = "custom" => c.key = Nothing)

KeyOf(c, slot) ==
  IF slot = "llm" THEN c.llmKey
  ELSE IF slot = "custom" THEN c.customKey
  ELSE IF slot = c.provider THEN c.key ELSE Nothing

Keys(c) == {c.key, c.customKey, c.llmKey}
Writing(c) == [slot : Slots, key : Keys(c)]

PendingAre(c, all) ==
  /\ all \in Seq(Writing(c))
  /\ \A i \in DOMAIN all : all[i].key = KeyOf(c, all[i].slot) /\ all[i].key # Nothing
  /\ \A i, j \in DOMAIN all : all[i].slot = all[j].slot => i = j
  /\ \A s \in Slots : KeyOf(c, s) # Nothing => \E i \in DOMAIN all : all[i].slot = s

\* A key that waits is a sequence of one, with its slot.
LEMMA WaitsIs ==
  ASSUME NEW K, NEW slot \in Slots, NEW key \in K
  PROVE  /\ Waits(slot, key) \in Seq([slot : Slots, key : K])
         /\ key = Nothing => Len(Waits(slot, key)) = 0
         /\ key # Nothing => /\ Len(Waits(slot, key)) = 1
                            /\ Waits(slot, key)[1].slot = slot /\ Waits(slot, key)[1].key = key
<1> DEFINE r == [slot |-> slot, key |-> key]
           E == [slot : Slots, key : K]
<1>1. r \in E /\ r.slot = slot /\ r.key = key
  OBVIOUS
<1>2. Waits(slot, key) = IF key = Nothing THEN <<>> ELSE <<r>>
  BY DEF Waits
<1> HIDE DEF r, E
<1>3. /\ Waits(slot, key) \in Seq(E)
      /\ key = Nothing => Len(Waits(slot, key)) = 0
      /\ key # Nothing => Len(Waits(slot, key)) = 1 /\ Waits(slot, key)[1] = r
  BY <1>1, <1>2
<1> QED  BY <1>1, <1>3 DEF E

LEMMA Joined ==
  ASSUME NEW E, NEW a \in Seq(E), NEW b \in Seq(E)
  PROVE  /\ a \o b \in Seq(E) /\ Len(a \o b) = Len(a) + Len(b) /\ Len(a) \in Nat /\ Len(b) \in Nat
         /\ \A i \in 1 .. Len(a) : (a \o b)[i] = a[i]
         /\ \A i \in 1 .. Len(b) : (a \o b)[Len(a) + i] = b[i]
OBVIOUS

\* The keys of a clean config wait once for each slot.
LEMMA PendingIs ==
  ASSUME NEW c, Clean(c)
  PROVE  PendingAre(c, Pending(c))
<1> DEFINE E   == Writing(c)
           x   == Waits(c.provider, c.key)
           y   == Waits("custom", c.customKey)
           z   == Waits("llm", c.llmKey)
           all == Pending(c)
<1>1. all = (x \o y) \o z
  BY DEF Pending, PendingStt
<1>2. /\ c.provider \in {"deepgram", "custom", "glm"} /\ (c.provider = "custom" => c.key = Nothing)
      /\ Slots = {"deepgram", "custom", "glm", "llm"}
  BY DEF Clean, Slots, Providers
<1>3. /\ c.provider \in Slots /\ "custom" \in Slots /\ "llm" \in Slots
      /\ c.key \in Keys(c) /\ c.customKey \in Keys(c) /\ c.llmKey \in Keys(c)
  BY <1>2 DEF Keys
<1>4. /\ x \in Seq(E) /\ (c.key = Nothing => Len(x) = 0)
      /\ c.key # Nothing => Len(x) = 1 /\ x[1].slot = c.provider /\ x[1].key = c.key
  BY <1>3, WaitsIs DEF Writing
<1>5. /\ y \in Seq(E) /\ (c.customKey = Nothing => Len(y) = 0)
      /\ c.customKey # Nothing => Len(y) = 1 /\ y[1].slot = "custom" /\ y[1].key = c.customKey
  <2> DEFINE K == Keys(c)
             k == c.customKey
  <2>1. k \in K
    BY <1>3
  <2> HIDE DEF K, k
  <2>2. /\ Waits("custom", k) \in Seq([slot : Slots, key : K]) /\ (k = Nothing => Len(Waits("custom", k)) = 0)
        /\ k # Nothing => /\ Len(Waits("custom", k)) = 1 /\ Waits("custom", k)[1].slot = "custom"
                         /\ Waits("custom", k)[1].key = k
    BY <1>3, <2>1, WaitsIs
  <2> QED  BY <2>2 DEF k, K, Writing
<1>6. /\ z \in Seq(E) /\ (c.llmKey = Nothing => Len(z) = 0)
      /\ c.llmKey # Nothing => Len(z) = 1 /\ z[1].slot = "llm" /\ z[1].key = c.llmKey
  BY <1>3, WaitsIs DEF Writing
<1> HIDE DEF x, y, z, all, E
<1> DEFINE xy == x \o y
<1>7. /\ xy \in Seq(E) /\ Len(xy) = Len(x) + Len(y)
      /\ \A i \in 1 .. Len(x) : xy[i] = x[i]
      /\ \A i \in 1 .. Len(y) : xy[Len(x) + i] = y[i]
  BY <1>4, <1>5, Joined
<1>8. all = xy \o z
  BY <1>1
<1> HIDE DEF xy
<1>9. /\ all \in Seq(E) /\ Len(all) = Len(xy) + Len(z)
      /\ \A i \in 1 .. Len(xy) : all[i] = xy[i]
      /\ \A i \in 1 .. Len(z) : all[Len(xy) + i] = z[i]
  <2>1. /\ xy \o z \in Seq(E) /\ Len(xy \o z) = Len(xy) + Len(z)
        /\ \A i \in 1 .. Len(xy) : (xy \o z)[i] = xy[i]
        /\ \A i \in 1 .. Len(z) : (xy \o z)[Len(xy) + i] = z[i]
    BY <1>6, <1>7, Joined
  <2> QED  BY <1>8, <2>1, Zenon
<1> DEFINE nx == Len(x)
           ny == Len(y)
           nz == Len(z)
<1>10. nx \in {0, 1} /\ ny \in {0, 1} /\ nz \in {0, 1} /\ Len(all) = nx + ny + nz /\ DOMAIN all = 1 .. Len(all)
  BY <1>4, <1>5, <1>6, <1>7, <1>9
<1>11. /\ nx = 1 => c.key # Nothing /\ all[1].slot = c.provider /\ all[1].key = c.key
       /\ ny = 1 => c.customKey # Nothing /\ all[nx + 1].slot = "custom" /\ all[nx + 1].key = c.customKey
       /\ nz = 1 => c.llmKey # Nothing /\ all[nx + ny + 1].slot = "llm" /\ all[nx + ny + 1].key = c.llmKey
  <2>1. ASSUME nx = 1 PROVE all[1] = x[1]
    BY <1>7, <1>9, <1>10, <2>1
  <2>2. ASSUME ny = 1 PROVE all[nx + 1] = y[1]
    BY <1>7, <1>9, <1>10, <2>2
  <2>3. ASSUME nz = 1 PROVE all[nx + ny + 1] = z[1]
    BY <1>7, <1>9, <1>10, <2>3
  <2> QED  BY <1>4, <1>5, <1>6, <2>1, <2>2, <2>3
<1>12. (nx = 0 => c.key = Nothing) /\ (ny = 0 => c.customKey = Nothing) /\ (nz = 0 => c.llmKey = Nothing)
  BY <1>4, <1>5, <1>6
<1> HIDE DEF nx, ny, nz
<1>13. \A i \in DOMAIN all : \/ nx = 1 /\ i = 1
                             \/ ny = 1 /\ i = nx + 1
                             \/ nz = 1 /\ i = nx + ny + 1
  BY <1>10
<1>14. \A i \in DOMAIN all : all[i].key = KeyOf(c, all[i].slot) /\ all[i].key # Nothing
  BY <1>2, <1>11, <1>13 DEF KeyOf
<1>15. \A i, j \in DOMAIN all : all[i].slot = all[j].slot => i = j
  BY <1>2, <1>11, <1>13
<1>16. ASSUME NEW s \in Slots, KeyOf(c, s) # Nothing
       PROVE  \E i \in DOMAIN all : all[i].slot = s
  <2>1. CASE s = "llm"
    <3>1. nz = 1 /\ nx + ny + 1 \in DOMAIN all
      BY <1>10, <1>12, <1>16, <2>1 DEF KeyOf
    <3> QED  BY <1>11, <2>1, <3>1
  <2>2. CASE s = "custom"
    <3>1. ny = 1 /\ nx + 1 \in DOMAIN all
      BY <1>10, <1>12, <1>16, <2>2 DEF KeyOf
    <3> QED  BY <1>11, <2>2, <3>1
  <2>3. CASE s # "llm" /\ s # "custom"
    <3>1. nx = 1 /\ 1 \in DOMAIN all /\ s = c.provider
      BY <1>10, <1>12, <1>16, <2>3 DEF KeyOf
    <3> QED  BY <1>11, <3>1
  <2> QED  BY <2>1, <2>2, <2>3
<1> QED  BY <1>9, <1>14, <1>15, <1>16 DEF PendingAre, all, E

\* What the migration makes of a slot is the key that the config has for it.
LEMMA PlainIs ==
  ASSUME NEW c, Clean(c), NEW slot \in Slots
  PROVE  PlainFor(c, slot) = KeyOf(c, slot)
<1> DEFINE all  == Pending(c)
           mine == { i \in DOMAIN all : all[i].slot = slot }
<1>1. PendingAre(c, all)
  BY PendingIs
<1>2. PlainFor(c, slot) = IF mine = {} THEN Nothing ELSE all[Max(mine)].key
  BY DEF PlainFor
<1> HIDE DEF all
<1>3. all \in Seq(Writing(c)) /\ Len(all) \in Nat /\ DOMAIN all = 1 .. Len(all)
  BY <1>1 DEF PendingAre
<1>4. CASE mine = {}
  BY <1>1, <1>2, <1>4 DEF PendingAre
<1>5. CASE mine # {}
  <2>1. mine \in SUBSET (1 .. Len(all))
    BY <1>3
  <2>2. Max(mine) \in mine
    BY <1>3, <1>5, <2>1, MaxIn
  <2> QED  BY <1>1, <1>2, <1>5, <2>2 DEF PendingAre
<1> QED  BY <1>4, <1>5

-----------------------------------------------------------------------------
(* The writes of a migration                                                 *)

IsVault(v) == v = [s \in Slots |-> v[s]]

WriteStep(acc, p) == [acc EXCEPT ![p.slot] = p.key]

Fills(run, v, list, n) ==
  /\ run[0] = v
  /\ \A k \in 1 .. n : run[k] = WriteStep(run[k - 1], list[k])

Entries(V) == [slot : Slots, key : V]
Vaults(V)  == [Slots -> V]

IsFilled(V, v, all, n, w) == \E run \in [0 .. n -> Vaults(V)] : Fills(run, v, all, n) /\ w = run[n]

\* The writes of a migration, one after the other.
LEMMA WritesRun ==
  ASSUME NEW V, NEW v \in Vaults(V), NEW c, NEW n \in Nat, NEW all \in Seq(Entries(V)),
         n <= Len(all), Pending(c) = all
  PROVE  IsFilled(V, v, all, n, Written(v, c, n))
<1> USE DEF Entries, Vaults
<1> DEFINE A    == [Slots -> V]
           E    == [slot : Slots, key : V]
           seq  == SubSeq(all, 1, n)
           step == [p \in A \X E |-> WriteStep(p[1], p[2])]
           iter == CHOOSE f : f = [s \in SUBSET DOMAIN seq |->
                     IF s = {} THEN v ELSE WriteStep(f[s \ {Max(s)}], seq[Max(s)])]
<1>0. \A a \in A, x \in E : WriteStep(a, x) \in A
  BY DEF WriteStep
<1>a. seq \in Seq(E) /\ Len(seq) = n /\ \A k \in 1 .. n : seq[k] = all[k]
  <2>1. all \in Seq(E)
    OBVIOUS
  <2> HIDE DEF E
  <2> QED  BY <2>1
<1>b. v \in A
  OBVIOUS
<1>3. Written(v, c, n) = iter[DOMAIN seq]
  BY DEF Written, FoldLeft, MapThenFoldSet, WriteStep
<1> HIDE DEF seq, A, E
<1>1. step \in [A \X E -> A]
  BY <1>0
<1>2. \A a \in A, x \in E : step[<<a, x>>] = WriteStep(a, x)
  OBVIOUS
<1> HIDE DEF step
<1>4. \A s \in SUBSET DOMAIN seq : s # {} => seq[Max(s)] \in E
  <2>1. DOMAIN seq = 1 .. Len(seq) /\ Len(seq) \in Nat
    BY <1>a
  <2>2. \A i \in DOMAIN seq : seq[i] \in E
    BY <1>a
  <2>3. \A s \in SUBSET (1 .. Len(seq)) : s # {} => Max(s) \in s
    BY <2>1, MaxIn
  <2> QED  BY <2>1, <2>2, <2>3
<1>5. PICK f \in [SUBSET DOMAIN seq -> A] : IsFold(f, step, v, seq, DOMAIN seq)
  BY <1>1, <1>a, <1>b, FoldExists
<1>6. f = [s \in SUBSET DOMAIN seq |-> IF s = {} THEN v ELSE WriteStep(f[s \ {Max(s)}], seq[Max(s)])]
  <2>1. \A s \in SUBSET DOMAIN seq : s # {} =>
          step[<<f[s \ {Max(s)}], seq[Max(s)]>>] = WriteStep(f[s \ {Max(s)}], seq[Max(s)])
    BY <1>2, <1>4
  <2> QED  BY <1>5, <2>1 DEF IsFold
<1>7. iter = [s \in SUBSET DOMAIN seq |->
                IF s = {} THEN v ELSE WriteStep(iter[s \ {Max(s)}], seq[Max(s)])]
  <2>1. \E g : g = [s \in SUBSET DOMAIN seq |->
                     IF s = {} THEN v ELSE WriteStep(g[s \ {Max(s)}], seq[Max(s)])]
    BY <1>6, Zenon
  <2> QED  BY <2>1, Zenon
<1> HIDE DEF iter
<1>8. IsFolding(iter, step, v, seq, A)
  <2>1. iter[{}] = v
    BY <1>7
  <2> QED  BY <1>2, <1>4, <1>7, <2>1 DEF IsFolding
<1>9. PICK run \in [0 .. Len(seq) -> A] : IsRun(run, step, v, seq) /\ iter[DOMAIN seq] = run[Len(seq)]
  <2>1. FoldedTo(iter[DOMAIN seq], step, v, seq, A)
    BY <1>1, <1>8, <1>a, <1>b, FoldSteps
  <2> QED  BY <2>1 DEF FoldedTo
<1>10. ASSUME NEW k \in 1 .. n
       PROVE  run[k] = WriteStep(run[k - 1], all[k])
  <2>1. run[k - 1] \in A /\ seq[k] \in E
    BY <1>9, <1>a
  <2> QED  BY <1>2, <1>9, <1>a, <2>1 DEF IsRun
<1>11. run[0] = v
  BY <1>9 DEF IsRun
<1>12. Fills(run, v, all, n)
  BY <1>10, <1>11 DEF Fills
<1> QED  BY <1>3, <1>9, <1>12, <1>a DEF A, IsFilled

\* A migration writes some of the keys that wait, or all of them.
LEMMA WrittenIs ==
  ASSUME NEW c, Clean(c), NEW v, IsVault(v), NEW n \in 0 .. Len(Pending(c)), NEW w, w = Written(v, c, n)
  PROVE  /\ IsVault(w)
         /\ \A s \in Slots : w[s] = v[s] \/ (KeyOf(c, s) # Nothing /\ w[s] = KeyOf(c, s))
         /\ n = Len(Pending(c)) => \A s \in Slots : KeyOf(c, s) # Nothing => w[s] = KeyOf(c, s)
<1> DEFINE all == Pending(c)
           V   == { v[s] : s \in Slots } \cup Keys(c)
<1>1. PendingAre(c, all)
  BY PendingIs
<1> HIDE DEF all
<1>2. v \in [Slots -> V]
  BY DEF IsVault
<1>3. all \in Seq([slot : Slots, key : V])
  <2>1. Writing(c) \subseteq [slot : Slots, key : V]
    BY DEF Writing
  <2> DEFINE W == Writing(c)
             E == [slot : Slots, key : V]
  <2>2. all \in Seq(W)
    BY <1>1 DEF PendingAre
  <2>3. W \subseteq E
    BY <2>1
  <2> HIDE DEF W, E
  <2>4. all \in Seq(E)
    BY <2>2, <2>3
  <2> QED  BY <2>4 DEF E
<1>4. n \in Nat /\ n <= Len(all) /\ Len(all) \in Nat /\ DOMAIN all = 1 .. Len(all)
  BY <1>3 DEF all
<1>13. \A i \in DOMAIN all : all[i] \in [slot : Slots, key : V]
  <2> DEFINE E == [slot : Slots, key : V]
  <2>1. all \in Seq(E)
    BY <1>3
  <2> HIDE DEF E
  <2>2. \A i \in DOMAIN all : all[i] \in E
    BY <1>4, <2>1
  <2> QED  BY <2>2 DEF E
<1> HIDE DEF V
<1>5. PICK run \in [0 .. n -> [Slots -> V]] : Fills(run, v, all, n) /\ w = run[n]
  <2>1. Pending(c) = all
    BY DEF all
  <2>2. v \in Vaults(V) /\ all \in Seq(Entries(V))
    BY <1>2, <1>3 DEF Vaults, Entries
  <2>3. IsFilled(V, v, all, n, Written(v, c, n))
    BY <1>4, <2>1, <2>2, WritesRun
  <2> QED  BY <2>3 DEF IsFilled, Vaults
<1> DEFINE Old(k)  == \A s \in Slots : run[k][s] = v[s] \/ (KeyOf(c, s) # Nothing /\ run[k][s] = KeyOf(c, s))
           Done(k) == \A i \in 1 .. k : run[k][all[i].slot] = all[i].key
           Good    == { k \in 0 .. n : Old(k) /\ Done(k) }
<1>6. 0 \in Good
  BY <1>4, <1>5 DEF Fills
<1>7. ASSUME NEW k \in 0 .. n - 1, k \in Good
      PROVE  k + 1 \in Good
  <2>1. k + 1 \in 1 .. n /\ (k + 1) - 1 = k /\ k + 1 \in 0 .. n /\ k \in 0 .. n /\ k + 1 \in DOMAIN all
    BY <1>4
  <2> DEFINE p   == all[k + 1]
             old == run[k]
             new == run[k + 1]
  <2>2. new = [old EXCEPT ![p.slot] = p.key] /\ old \in [Slots -> V]
    BY <1>5, <2>1 DEF Fills, WriteStep
  <2>3. p.slot \in Slots /\ p.key = KeyOf(c, p.slot) /\ p.key # Nothing
    <3>1. p \in [slot : Slots, key : V]
      BY <1>13, <2>1
    <3>2. p.slot \in Slots
      BY <3>1
    <3> QED  BY <1>1, <2>1, <3>2 DEF PendingAre
  <2>4. \A i \in 1 .. k : i \in DOMAIN all /\ all[i].slot # p.slot /\ all[i].slot \in Slots
    <3>1. \A i \in 1 .. k : i \in DOMAIN all /\ i # k + 1
      BY <1>4
    <3> QED  BY <1>1, <1>13, <2>1, <3>1 DEF PendingAre
  <2>5. Old(k) /\ Done(k)
    BY <1>7
  <2>6. \A i \in 1 .. k + 1 : i \in 1 .. k \/ i = k + 1
    BY <1>4
  <2> HIDE DEF p, old, new
  <2>7. \A s \in Slots : new[s] = IF s = p.slot THEN p.key ELSE old[s]
    BY <2>2
  <2>8. Old(k + 1)
    BY <2>3, <2>5, <2>7 DEF old, new
  <2>9. Done(k + 1)
    <3>1. new[p.slot] = p.key
      BY <2>3, <2>7
    <3>2. \A i \in 1 .. k : new[all[i].slot] = all[i].key
      BY <2>4, <2>5, <2>7 DEF old
    <3> QED  BY <2>6, <3>1, <3>2 DEF new, p
  <2> QED  BY <2>1, <2>8, <2>9
<1>8. n \in Good
  <2>1. \A k \in 0 .. n - 1 : k \in Good => k + 1 \in Good
    BY <1>7
  <2> HIDE DEF Good
  <2>2. 0 .. n \subseteq Good
    BY <1>4, <1>6, <2>1, Climbs
  <2> QED  BY <1>4, <2>2
<1>9. Old(n) /\ Done(n)
  BY <1>8
<1>10. IsVault(w)
  <2>1. w \in [Slots -> V]
    BY <1>4, <1>5
  <2> QED  BY <2>1 DEF IsVault
<1>11. ASSUME n = Len(all), NEW s \in Slots, KeyOf(c, s) # Nothing
       PROVE  w[s] = KeyOf(c, s)
  <2>1. PICK i \in DOMAIN all : all[i].slot = s
    BY <1>1, <1>11 DEF PendingAre
  <2> QED  BY <1>1, <1>4, <1>5, <1>9, <1>11, <2>1 DEF PendingAre
<1> QED  BY <1>5, <1>9, <1>10, <1>11 DEF all

\* What is cleared waits no more.
LEMMA ClearedIs ==
  ASSUME NEW c, Clean(c)
  PROVE  Clean(Cleared(c)) /\ \A s \in Slots : KeyOf(Cleared(c), s) = Nothing
<1> DEFINE list == PendingStt(c)
           stt  == { list[i].slot : i \in DOMAIN list }
           k    == IF stt \ {"custom"} # {} THEN Nothing ELSE c.key
           ck   == IF "custom" \in stt THEN Nothing ELSE c.customKey
<1>1. Cleared(c) = [c EXCEPT !.key = k, !.customKey = ck, !.llmKey = Nothing]
  BY Zenon DEF Cleared
<1>2. k = Nothing /\ ck = Nothing
  <2> DEFINE a == Waits(c.provider, c.key)
             b == Waits("custom", c.customKey)
  <2>1. list = a \o b
    BY DEF PendingStt
  <2>2. c.provider \in Slots /\ "custom" \in Slots
    BY DEF Clean, Slots, Providers
  <2> DEFINE E == [slot : Slots, key : Keys(c)]
             key == c.key
             own == c.customKey
             K == Keys(c)
  <2>3. key \in K /\ own \in K
    BY DEF Keys
  <2> HIDE DEF K, key, own
  <2>4. /\ Waits(c.provider, key) \in Seq([slot : Slots, key : K])
        /\ key # Nothing => Len(Waits(c.provider, key)) = 1 /\ Waits(c.provider, key)[1].slot = c.provider
    BY <2>2, <2>3, WaitsIs
  <2>5. /\ Waits("custom", own) \in Seq([slot : Slots, key : K])
        /\ own # Nothing => Len(Waits("custom", own)) = 1 /\ Waits("custom", own)[1].slot = "custom"
    BY <2>2, <2>3, WaitsIs
  <2>6. /\ a \in Seq(E) /\ (c.key # Nothing => Len(a) = 1 /\ a[1].slot = c.provider)
        /\ b \in Seq(E) /\ (c.customKey # Nothing => Len(b) = 1 /\ b[1].slot = "custom")
    BY <2>4, <2>5 DEF K, key, own
  <2> HIDE DEF a, b, E, list
  <2>7. /\ a \o b \in Seq(E) /\ Len(a \o b) = Len(a) + Len(b) /\ Len(a) \in Nat /\ Len(b) \in Nat
        /\ \A i \in 1 .. Len(a) : (a \o b)[i] = a[i]
        /\ \A i \in 1 .. Len(b) : (a \o b)[Len(a) + i] = b[i]
    BY <2>6, Joined
  <2>8. /\ list \in Seq(E) /\ Len(list) = Len(a) + Len(b)
        /\ \A i \in 1 .. Len(a) : list[i] = a[i]
        /\ \A i \in 1 .. Len(b) : list[Len(a) + i] = b[i]
        /\ DOMAIN list = 1 .. Len(list)
    BY <2>1, <2>7
  <2>9. ASSUME c.key # Nothing PROVE c.provider \in stt
    <3>1. 1 \in DOMAIN list /\ list[1] = a[1] /\ a[1].slot = c.provider
      BY <2>6, <2>7, <2>8, <2>9
    <3> QED  BY <3>1
  <2>10. ASSUME c.customKey # Nothing PROVE "custom" \in stt
    <3>1. Len(b) = 1 /\ b[1].slot = "custom"
      BY <2>6, <2>10
    <3>2. Len(a) + 1 \in DOMAIN list /\ list[Len(a) + 1] = b[1]
      BY <2>7, <2>8, <3>1
    <3> QED  BY <3>1, <3>2
  <2> HIDE DEF stt
  <2>11. ASSUME c.key # Nothing PROVE stt \ {"custom"} # {}
    BY <2>9, <2>11 DEF Clean
  <2> QED  BY <2>10, <2>11
<1> HIDE DEF list, stt, k, ck
<1> DEFINE d == Cleared(c)
<1>3. DOMAIN d = DOMAIN c /\ d.provider = c.provider /\ d.key = Nothing /\ d.customKey = Nothing /\ d.llmKey = Nothing
  BY <1>1, <1>2 DEF Clean, Shape
<1> HIDE DEF d
<1>4. Clean(d)
  BY <1>3 DEF Clean, Shape
<1>5. \A s \in Slots : KeyOf(d, s) = Nothing
  BY <1>3 DEF KeyOf
<1> QED  BY <1>4, <1>5 DEF d

-----------------------------------------------------------------------------
(* Every config that is read again says the same of the keys that the user   *)
(* gave: it holds the key, or the vault does.                                *)

Held(c, v, g) ==
  /\ Clean(c)
  /\ \A s \in Slots : IF KeyOf(c, s) # Nothing THEN KeyOf(c, s) = g[s]
                      ELSE g[s] # Nothing => v[s] = g[s]

\* A config with the same keys is held as well.
LEMMA SameHeld ==
  ASSUME NEW c, NEW d, NEW v, NEW g, Held(c, v, g), Same(c, d)
  PROVE  Held(d, v, g)
<1>1. Clean(d)
  BY SameShape DEF Held, Clean, Same
<1>2. \A s \in Slots : KeyOf(d, s) = KeyOf(c, s)
  BY DEF KeyOf, Same
<1> QED  BY <1>1, <1>2 DEF Held

\* A vault in which some of the keys that the user gave were written.
Fuller(v, w, g) == IsVault(w) /\ \A s \in Slots : w[s] = v[s] \/ w[s] = g[s]

\* Keys that are written to the vault as the user gave them take nothing away.
LEMMA FullerHeld ==
  ASSUME NEW c, NEW v, NEW w, NEW g, Held(c, v, g), Fuller(v, w, g)
  PROVE  Held(c, w, g)
BY DEF Held, Fuller

\* A migration, whole or cut off, leaves each key in the config or in the vault.
LEMMA Migrated ==
  ASSUME NEW c, Held(c, vault, given), IsVault(vault), NEW m \in Migrations(c)
  PROVE  Fuller(vault, m.vault, given) /\ Held(m.config, m.vault, given)
<1> DEFINE all == Len(Pending(c))
<1>1. PICK n \in 0 .. all : m = [vault |-> Written(vault, c, n), config |-> IF n = all THEN Cleared(c) ELSE c,
                                 ok |-> n = all]
  BY Zenon DEF Migrations
<1> DEFINE w == Written(vault, c, n)
           d == IF n = all THEN Cleared(c) ELSE c
<1>2. m.vault = w /\ m.config = d
  BY <1>1
<1>3. Clean(c)
  BY DEF Held
<1>4. n \in 0 .. Len(Pending(c))
  OBVIOUS
<1> HIDE DEF w
<1>5. /\ IsVault(w)
      /\ \A s \in Slots : w[s] = vault[s] \/ (KeyOf(c, s) # Nothing /\ w[s] = KeyOf(c, s))
      /\ n = Len(Pending(c)) => \A s \in Slots : KeyOf(c, s) # Nothing => w[s] = KeyOf(c, s)
  BY <1>3, <1>4, WrittenIs DEF w
<1>6. Fuller(vault, w, given)
  BY <1>5 DEF Held, Fuller
<1>7. CASE n # all
  <2>1. d = c
    BY <1>7
  <2> QED  BY <1>2, <1>6, <2>1, FullerHeld
<1>8. CASE n = all
  <2>1. d = Cleared(c)
    BY <1>8
  <2>2. Clean(d) /\ \A s \in Slots : KeyOf(d, s) = Nothing
    BY <1>3, <2>1, ClearedIs
  <2> HIDE DEF d, all
  <2>3. ASSUME NEW s \in Slots, given[s] # Nothing
        PROVE  w[s] = given[s]
    <3>1. CASE KeyOf(c, s) # Nothing
      <4>1. w[s] = KeyOf(c, s)
        BY <1>5, <1>8, <3>1 DEF all
      <4> QED  BY <3>1, <4>1 DEF Held
    <3>2. CASE KeyOf(c, s) = Nothing
      <4>1. w[s] = vault[s]
        BY <1>5, <3>2
      <4>2. vault[s] = given[s]
        BY <2>3, <3>2 DEF Held
      <4> QED  BY <4>1, <4>2
    <3> QED  BY <3>1, <3>2
  <2>4. Held(d, w, given)
    BY <2>2, <2>3 DEF Held
  <2> QED  BY <1>2, <1>6, <2>4
<1> QED  BY <1>7, <1>8

-----------------------------------------------------------------------------
(* The inductive invariant: as long as no key was mixed with one that still  *)
(* waited, each config that is read again holds what the user gave.          *)

TaskFields == {"pc", "edit", "before", "config", "alone", "vaulted"}

TasksShaped == DOMAIN task = Tasks /\ \A t \in Tasks : DOMAIN task[t] = TaskFields

ConfigsHeld ==
  /\ Held(disk.config, vault, given)
  /\ up => Held(cache, vault, given)
  /\ \A t \in Tasks : task[t].pc # "idle" =>
       Held(task[t].config, vault, given) /\ Held(task[t].before, vault, given)

SettingsInv ==
  /\ TasksShaped
  /\ ~mixed => IsVault(vault) /\ IsVault(given) /\ ConfigsHeld

\* No settings hold the key of a provider before the custom one.
NoLeftover == \A s \in Stores : s.config.provider = "custom" => s.config.key = Nothing

\* At the start each key is in the stored settings.
LEMMA SettingsStart ==
  ASSUME NoLeftover, SettingsInit
  PROVE  SettingsInv
<1> DEFINE c == disk.config
           d == DOMAIN DefaultConfig
<1>0. disk \in Stores
  BY DEF SettingsInit
<1>1. /\ DOMAIN c = d /\ c.provider \in Providers
      /\ c.provider = "custom" => c.key = Nothing
  <2>1. c \in StoredConfigs
    BY <1>0, InputsAssumption
  <2>2. d = {"provider", "key", "customKey", "llmKey", "limitMode", "customLimit", "limit", "targets",
             "active", "targetLang", "list", "dictation", "asks", "ask", "mode", "hotkey", "askHotkey",
             "hotkeyMode", "insertion", "outputMode", "scenes", "assigned"}
    BY DEF DefaultConfig
  <2>3. DOMAIN c = d /\ c.provider \in Providers
    BY <2>1, <2>2 DEF StoredConfigs
  <2> QED  BY <1>0, <2>3 DEF NoLeftover
<1>2. {"provider", "key", "customKey", "llmKey"} \subseteq d
  BY DEF DefaultConfig
<1>3. Clean(c)
  BY <1>1, <1>2 DEF Clean, Shape
<1> DEFINE of(s) == CASE s = "llm"    -> c.llmKey
                      [] s = "custom" -> c.customKey
                      [] OTHER -> IF s = c.provider THEN c.key ELSE Nothing
<1>4. given = [s \in Slots |-> of(s)]
  BY Zenon DEF SettingsInit
<1> HIDE DEF c
<1>5. \A s \in Slots : given[s] = KeyOf(c, s)
  BY <1>4 DEF KeyOf
<1>6. IsVault(given)
  BY <1>4 DEF IsVault
<1>7. IsVault(vault)
  BY DEF SettingsInit, IsVault
<1>8. Held(c, vault, given)
  BY <1>3, <1>5 DEF Held
<1>9. TasksShaped /\ ~up /\ \A t \in Tasks : task[t].pc = "idle"
  <2>1. task = [t \in Tasks |-> NoTask]
    BY DEF SettingsInit
  <2>2. DOMAIN NoTask = TaskFields /\ NoTask.pc = "idle"
    BY DEF NoTask, TaskFields
  <2>3. ~up
    BY DEF SettingsInit
  <2> QED  BY <2>1, <2>2, <2>3 DEF TasksShaped
<1> QED  BY <1>6, <1>7, <1>8, <1>9 DEF SettingsInv, ConfigsHeld, c

\* Loading keeps the invariant, also when the vault or the disk fails.
LEMMA LoadsKeeps ==
  ASSUME SettingsInv, Loads
  PROVE  SettingsInv'
<1>1. task' = task /\ given' = given /\ mixed' = mixed /\ ~up
  BY Zenon DEF Loads
<1>2. TasksShaped'
  BY <1>1 DEF SettingsInv, TasksShaped
<1>3. ASSUME ~mixed
      PROVE  IsVault(vault') /\ ConfigsHeld'
  <2> DEFINE c == FromStored(disk)
  <2>1. Held(disk.config, vault, given) /\ IsVault(vault)
    BY <1>3 DEF SettingsInv, ConfigsHeld
  <2>2. Held(c, vault, given)
    BY <2>1, FromStoredSame, SameHeld DEF Held, Clean
  <2>3. PICK m \in Migrations(c) :
          /\ vault' = m.vault
          /\ cache' = m.config
          /\ disk' \in IF m.ok /\ Pending(c) # <<>> THEN {disk, Stored(m.config)} ELSE {disk}
    BY Zenon DEF Loads
  <2>4. Fuller(vault, vault', given) /\ Held(cache', vault', given)
    BY <2>1, <2>2, <2>3, Migrated
  <2>5. Held(disk.config, vault', given)
    BY <2>1, <2>4, FullerHeld
  <2>6. disk'.config = disk.config \/ disk'.config = cache'
    BY <2>3 DEF Stored
  <2>7. ASSUME NEW t \in Tasks, task[t].pc # "idle"
        PROVE  Held(task[t].config, vault', given) /\ Held(task[t].before, vault', given)
    <3>1. Held(task[t].config, vault, given) /\ Held(task[t].before, vault, given)
      BY <1>3, <2>7 DEF SettingsInv, ConfigsHeld
    <3> QED  BY <2>4, <3>1, FullerHeld
  <2>8. Held(disk'.config, vault', given')
    BY <1>1, <2>4, <2>5, <2>6
  <2> QED  BY <1>1, <2>4, <2>7, <2>8 DEF ConfigsHeld, Fuller
<1>4. ~mixed => IsVault(given)'
  BY <1>1 DEF SettingsInv
<1> QED  BY <1>1, <1>2, <1>3, <1>4 DEF SettingsInv

\* A stop loses only what is also elsewhere.
LEMMA StopsKeeps ==
  ASSUME SettingsInv, Stops
  PROVE  SettingsInv'
<1>1. /\ disk' = disk /\ vault' = vault /\ given' = given /\ mixed' = mixed /\ ~up'
      /\ task' = [t \in Tasks |-> NoTask]
  BY Zenon DEF Stops
<1>2. DOMAIN NoTask = TaskFields /\ NoTask.pc = "idle"
  BY DEF NoTask, TaskFields
<1>3. TasksShaped' /\ \A t \in Tasks : task'[t].pc = "idle"
  BY <1>1, <1>2 DEF TasksShaped
<1> QED  BY <1>1, <1>3 DEF SettingsInv, ConfigsHeld

\* A command reads a config and makes another with the same keys.
LEMMA BeginsKeeps ==
  ASSUME SettingsInv, NEW t \in Tasks, NEW e, e.what \in EditKinds,
         e.what = "provider" => e.to \in Providers, CommandBegins(t, e)
  PROVE  SettingsInv'
<1> DEFINE others == { u \in Tasks \ {t} : Saving(u) }
           config == Edited(cache, e)
           alone  == others = {}
           new    == [pc |-> "save", edit |-> e, before |-> cache, vaulted |-> TRUE,
                      config |-> config, alone |-> alone]
           of(u)  == IF u = t THEN new ELSE IF u \in others THEN [task[u] EXCEPT !.alone = FALSE] ELSE NoTask
<1>1. /\ disk' = disk /\ cache' = cache /\ up' = up /\ vault' = vault /\ given' = given /\ up
      /\ mixed' = (mixed \/ (e.what = "provider" /\ cache.key # Nothing))
      /\ task' = [u \in Tasks |-> of(u)]
  BY Zenon DEF CommandBegins
<1> HIDE DEF others, config, alone
<1>2. DOMAIN new = TaskFields /\ new.before = cache /\ new.config = config
  BY DEF TaskFields
<1>3. DOMAIN NoTask = TaskFields /\ NoTask.pc = "idle"
  BY DEF NoTask, TaskFields
<1> HIDE DEF new
<1>4. \A u \in Tasks : \/ u = t /\ task'[u] = new
                       \/ u # t /\ task'[u] = [task[u] EXCEPT !.alone = FALSE]
                       \/ u # t /\ task'[u] = NoTask
  BY <1>1
<1>5. TasksShaped'
  <2>1. \A u \in Tasks : DOMAIN task'[u] = TaskFields
    BY <1>2, <1>3, <1>4 DEF SettingsInv, TasksShaped
  <2>2. DOMAIN task' = Tasks
    BY <1>1
  <2> QED  BY <2>1, <2>2 DEF TasksShaped
<1>6. ASSUME ~mixed'
      PROVE  IsVault(vault)' /\ IsVault(given)' /\ ConfigsHeld'
  <2>1. ~mixed /\ (e.what = "provider" => cache.key = Nothing)
    BY <1>1, <1>6
  <2>2. Held(cache, vault, given) /\ IsVault(vault) /\ IsVault(given) /\ ConfigsHeld
    BY <1>1, <2>1 DEF SettingsInv, ConfigsHeld
  <2> DEFINE d == IF e.what = "provider" THEN [cache EXCEPT !.provider = e.to] ELSE cache
  <2>3. Held(d, vault, given)
    <3>1. CASE e.what = "provider"
      <4> DEFINE p == e.to
      <4>1. d = [cache EXCEPT !.provider = p]
        BY <3>1
      <4>2. p \in Providers /\ Clean(cache) /\ cache.key = Nothing
        BY <2>1, <2>2, <3>1 DEF Held
      <4> HIDE DEF p, d
      <4>3. DOMAIN d = DOMAIN cache /\ d.provider = p /\ d.key = Nothing
            /\ d.customKey = cache.customKey /\ d.llmKey = cache.llmKey
        BY <4>1, <4>2 DEF Clean, Shape
      <4>4. Clean(d)
        BY <4>2, <4>3 DEF Clean, Shape
      <4>5. \A s \in Slots : KeyOf(d, s) = KeyOf(cache, s)
        BY <4>2, <4>3 DEF KeyOf
      <4> QED  BY <2>2, <4>4, <4>5 DEF Held
    <3>2. CASE e.what # "provider"
      BY <2>2, <3>2
    <3> QED  BY <3>1, <3>2
  <2>4. Same(d, config)
    BY <2>2, EditedSame DEF Held, Clean, config
  <2> HIDE DEF d
  <2>5. Held(config, vault, given)
    BY <2>3, <2>4, SameHeld
  <2>6. ASSUME NEW u \in Tasks, task'[u].pc # "idle"
        PROVE  Held(task'[u].config, vault, given) /\ Held(task'[u].before, vault, given)
    <3>1. CASE task'[u] = new
      BY <1>2, <2>2, <2>5, <3>1
    <3>2. CASE u # t /\ task'[u] = [task[u] EXCEPT !.alone = FALSE]
      <4>1. DOMAIN task[u] = TaskFields
        BY DEF SettingsInv, TasksShaped
      <4>2. task'[u].config = task[u].config /\ task'[u].before = task[u].before /\ task'[u].pc = task[u].pc
        BY <3>2, <4>1 DEF TaskFields
      <4> QED  BY <2>2, <2>6, <4>2 DEF ConfigsHeld
    <3>3. CASE task'[u] = NoTask
      BY <1>3, <2>6, <3>3
    <3> QED  BY <1>4, <3>1, <3>2, <3>3
  <2> QED  BY <1>1, <2>2, <2>6 DEF ConfigsHeld
<1> QED  BY <1>5, <1>6 DEF SettingsInv

\* A save migrates the keys of its config, or a part of them.
LEMMA MigratesKeeps ==
  ASSUME SettingsInv, NEW t \in Tasks, SaveMigrates(t)
  PROVE  SettingsInv'
<1> DEFINE old == IF task[t].pc = "undo" THEN task[t].before ELSE task[t].config
<1>1. PICK m \in Migrations(Normal(old)) :
        /\ vault' = m.vault
        /\ task' = [task EXCEPT ![t].config = m.config, ![t].vaulted = @ /\ m.ok,
                                ![t].pc = IF m.ok THEN IF @ = "undo" THEN "undoCache" ELSE "cache"
                                          ELSE IF @ = "undo" THEN "failed"
                                          ELSE Fails(t)]
  BY Zenon DEF SaveMigrates
<1>2. /\ disk' = disk /\ cache' = cache /\ up' = up /\ given' = given /\ mixed' = mixed
      /\ task[t].pc \in {"save", "undo"}
  BY Zenon DEF SaveMigrates
<1>3. DOMAIN task = Tasks /\ \A u \in Tasks : DOMAIN task[u] = TaskFields
  BY DEF SettingsInv, TasksShaped
<1>4. /\ DOMAIN task' = Tasks /\ \A u \in Tasks \ {t} : task'[u] = task[u]
      /\ DOMAIN task'[t] = TaskFields /\ task'[t].config = m.config /\ task'[t].before = task[t].before
  BY <1>1, <1>3 DEF TaskFields
<1>5. TasksShaped'
  BY <1>3, <1>4 DEF TasksShaped
<1>6. ASSUME ~mixed
      PROVE  IsVault(vault') /\ ConfigsHeld'
  <2>1. ConfigsHeld /\ IsVault(vault)
    BY <1>6 DEF SettingsInv
  <2>2. Held(task[t].config, vault, given) /\ Held(task[t].before, vault, given)
    BY <1>2, <2>1 DEF ConfigsHeld
  <2>3. Held(old, vault, given)
    BY <2>2
  <2> HIDE DEF old
  <2>4. Held(Normal(old), vault, given)
    BY <2>3, NormalSame, SameHeld DEF Held, Clean
  <2>5. Fuller(vault, vault', given) /\ Held(m.config, vault', given)
    BY <1>1, <2>1, <2>4, Migrated
  <2>6. \A c : Held(c, vault, given) => Held(c, vault', given)
    BY <2>5, FullerHeld
  <2>7. ASSUME NEW u \in Tasks, task'[u].pc # "idle"
        PROVE  Held(task'[u].config, vault', given) /\ Held(task'[u].before, vault', given)
    <3>1. CASE u = t
      BY <1>4, <2>2, <2>5, <2>6, <3>1
    <3>2. CASE u # t
      BY <1>4, <2>1, <2>6, <2>7, <3>2 DEF ConfigsHeld
    <3> QED  BY <3>1, <3>2
  <2>8. Held(disk.config, vault', given) /\ (up => Held(cache, vault', given))
    BY <2>1, <2>6 DEF ConfigsHeld
  <2> QED  BY <1>2, <2>5, <2>7, <2>8 DEF ConfigsHeld, Fuller
<1> QED  BY <1>2, <1>5, <1>6 DEF SettingsInv

\* The steps of a save that leave the vault and the config of the task alone.
LEMMA GoesKeeps ==
  ASSUME SettingsInv, NEW t \in Tasks, task[t].pc # "idle", NEW pc, TaskGoes(t, pc, task[t].config),
         UNCHANGED <<vault, given, mixed, up>>,
         disk' = disk \/ disk'.config = task[t].config,
         cache' = cache \/ cache' = task[t].config
  PROVE  SettingsInv'
<1> DEFINE c == task[t].config
<1>1. task' = [task EXCEPT ![t].pc = pc, ![t].config = c]
  BY Zenon DEF TaskGoes
<1>2. DOMAIN task = Tasks /\ \A u \in Tasks : DOMAIN task[u] = TaskFields
  BY DEF SettingsInv, TasksShaped
<1>3. /\ DOMAIN task' = Tasks /\ \A u \in Tasks \ {t} : task'[u] = task[u]
      /\ DOMAIN task'[t] = TaskFields /\ task'[t].config = c /\ task'[t].before = task[t].before
  BY <1>1, <1>2 DEF TaskFields
<1>4. TasksShaped'
  BY <1>2, <1>3 DEF TasksShaped
<1>5. ASSUME ~mixed
      PROVE  ConfigsHeld'
  <2>1. ConfigsHeld
    BY <1>5 DEF SettingsInv
  <2>2. Held(c, vault, given) /\ Held(task[t].before, vault, given)
    BY <2>1 DEF ConfigsHeld
  <2>3. Held(disk'.config, vault, given) /\ (up => Held(cache', vault, given))
    BY <2>1, <2>2 DEF ConfigsHeld
  <2>4. ASSUME NEW u \in Tasks, task'[u].pc # "idle"
        PROVE  Held(task'[u].config, vault, given) /\ Held(task'[u].before, vault, given)
    BY <1>3, <2>1, <2>2, <2>4 DEF ConfigsHeld
  <2> QED  BY <2>3, <2>4 DEF ConfigsHeld
<1> QED  BY <1>4, <1>5 DEF SettingsInv, IsVault

\* A key that is set does not meet one of its slot that still waits.
LEMMA CredentialKeeps ==
  ASSUME SettingsInv, NEW slot \in Slots, NEW key, SetsCredential(slot, key)
  PROVE  SettingsInv'
<1>1. /\ disk' = disk /\ cache' = cache /\ up' = up /\ task' = task
      /\ vault' = [vault EXCEPT ![slot] = key]
      /\ given' = [given EXCEPT ![slot] = key]
      /\ mixed' = (mixed \/ WaitsFor(slot))
  BY Zenon DEF SetsCredential
<1>2. TasksShaped'
  BY <1>1 DEF SettingsInv, TasksShaped
<1>3. ASSUME ~mixed'
      PROVE  IsVault(vault)' /\ IsVault(given)' /\ ConfigsHeld'
  <2>1. ~mixed /\ ~WaitsFor(slot)
    BY <1>1, <1>3
  <2>2. IsVault(vault) /\ IsVault(given) /\ ConfigsHeld
    BY <2>1 DEF SettingsInv
  <2>3. /\ DOMAIN vault = Slots /\ DOMAIN given = Slots
    BY <2>2 DEF IsVault
  <2>4. \A s \in Slots : /\ vault'[s] = IF s = slot THEN key ELSE vault[s]
                         /\ given'[s] = IF s = slot THEN key ELSE given[s]
    BY <1>1, <2>3
  <2>5. IsVault(vault)' /\ IsVault(given)'
    BY <1>1, <2>2 DEF IsVault
  <2>6. ASSUME NEW c, Held(c, vault, given), PlainFor(c, slot) = Nothing
        PROVE  Held(c, vault', given')
    <3>1. Clean(c)
      BY <2>6 DEF Held
    <3>2. KeyOf(c, slot) = Nothing
      BY <2>6, <3>1, PlainIs
    <3> QED  BY <2>4, <2>6, <3>2 DEF Held
  <2>7. Held(disk.config, vault', given')
    <3>1. Held(disk.config, vault, given)
      BY <2>2 DEF ConfigsHeld
    <3>2. Same(disk.config, FromStored(disk))
      BY <3>1, FromStoredSame DEF Held, Clean
    <3>3. Held(FromStored(disk), vault, given)
      BY <3>1, <3>2, SameHeld
    <3>4. PlainFor(FromStored(disk), slot) = Nothing
      BY <2>1, Zenon DEF WaitsFor
    <3>5. KeyOf(FromStored(disk), slot) = Nothing
      BY <3>3, <3>4, PlainIs DEF Held
    <3>6. KeyOf(disk.config, slot) = Nothing
      BY <3>2, <3>5 DEF Same, KeyOf
    <3>7. PlainFor(disk.config, slot) = Nothing
      BY <3>1, <3>6, PlainIs DEF Held
    <3> QED  BY <2>6, <3>1, <3>7
  <2>8. up => Held(cache, vault', given')
    <3>1. up => PlainFor(cache, slot) = Nothing
      BY <2>1 DEF WaitsFor
    <3> QED  BY <2>2, <2>6, <3>1 DEF ConfigsHeld
  <2>9. ASSUME NEW t \in Tasks, task[t].pc # "idle"
        PROVE  Held(task[t].config, vault', given') /\ Held(task[t].before, vault', given')
    <3>1. PlainFor(task[t].config, slot) = Nothing /\ PlainFor(task[t].before, slot) = Nothing
      BY <2>1, Zenon DEF WaitsFor
    <3>2. Held(task[t].config, vault, given) /\ Held(task[t].before, vault, given)
      BY <2>2, <2>9 DEF ConfigsHeld
    <3> QED  BY <2>6, <3>1, <3>2
  <2> QED  BY <1>1, <2>5, <2>7, <2>8, <2>9 DEF ConfigsHeld
<1> QED  BY <1>2, <1>3 DEF SettingsInv

LEMMA SettingsStep ==
  ASSUME SettingsInv, [SettingsNext]_settingsVars
  PROVE  SettingsInv'
<1>1. CASE Loads
  BY <1>1, LoadsKeeps
<1>2. CASE Stops
  BY <1>2, StopsKeeps
<1>3. ASSUME NEW t \in Tasks, SaveMigrates(t)
      PROVE  SettingsInv'
  BY <1>3, MigratesKeeps
<1>4. ASSUME NEW t \in Tasks, SaveCaches(t)
      PROVE  SettingsInv'
  <2> DEFINE pc == IF task[t].pc = "cache" THEN "persist" ELSE "undoPersist"
  <2>1. /\ task[t].pc \in {"cache", "undoCache"} /\ cache' = task[t].config /\ TaskGoes(t, pc, task[t].config)
        /\ disk' = disk /\ up' = up /\ vault' = vault /\ given' = given /\ mixed' = mixed
    BY <1>4, Zenon DEF SaveCaches
  <2> HIDE DEF pc
  <2>2. task[t].pc # "idle"
    BY <2>1
  <2> QED  BY <2>1, <2>2, GoesKeeps
<1>5. ASSUME NEW t \in Tasks, SavePersists(t)
      PROVE  SettingsInv'
  <2> DEFINE p == IF task[t].pc = "persist" THEN "done" ELSE "failed"
             q == IF task[t].pc = "persist" THEN Fails(t) ELSE "failed"
  <2>1. /\ task[t].pc \in {"persist", "undoPersist"}
        /\ \/ disk' = Stored(task[t].config) /\ TaskGoes(t, p, task[t].config)
           \/ disk' = disk /\ TaskGoes(t, q, task[t].config)
        /\ cache' = cache /\ up' = up /\ vault' = vault /\ given' = given /\ mixed' = mixed
    BY <1>5, Zenon DEF SavePersists
  <2> HIDE DEF p, q
  <2>2. task[t].pc # "idle"
    BY <2>1
  <2>3. Stored(task[t].config).config = task[t].config
    BY DEF Stored
  <2> QED  BY <2>1, <2>2, <2>3, GoesKeeps
<1>6. ASSUME NEW t \in Tasks, NEW what \in DOMAIN Wishes, NEW to \in Wishes[what],
             CommandBegins(t, [what |-> what, to |-> to])
      PROVE  SettingsInv'
  <2> DEFINE e == [what |-> what, to |-> to]
  <2>1. what \in EditKinds /\ MayAsk(what, Wishes[what])
    BY InputsAssumption
  <2>2. what = "provider" => to \in Providers
    BY <2>1 DEF MayAsk
  <2>3. e.what \in EditKinds /\ (e.what = "provider" => e.to \in Providers)
    BY <2>1, <2>2
  <2> HIDE DEF e
  <2> QED  BY <1>6, <2>3, BeginsKeeps DEF e
<1>7. ASSUME NEW slot \in Slots, NEW key, SetsCredential(slot, key)
      PROVE  SettingsInv'
  BY <1>7, CredentialKeeps
<1>8. CASE UNCHANGED settingsVars
  BY <1>8 DEF settingsVars, SettingsInv, TasksShaped, ConfigsHeld, IsVault
<1> QED  BY <1>1, <1>2, <1>3, <1>4, <1>5, <1>6, <1>7, <1>8, Zenon DEF SettingsNext, TaskStep

\* The invariant says at least what the property says.
LEMMA SettingsFollows ==
  ASSUME SettingsInv
  PROVE  SecretsKept
<1> SUFFICES ASSUME ~mixed
             PROVE  /\ MigrationLosesNothing
                    /\ up => \A slot \in {cache.provider, "llm"} :
                               given[slot] # Nothing => Resolved(cache, slot) = given[slot]
  BY DEF SecretsKept
<1>1. ConfigsHeld
  BY DEF SettingsInv
<1>2. MigrationLosesNothing
  <2>1. Held(disk.config, vault, given)
    BY <1>1 DEF ConfigsHeld
  <2>2. Held(FromStored(disk), vault, given)
    BY <2>1, FromStoredSame, SameHeld DEF Held, Clean
  <2>3. \A s \in Slots : PlainFor(FromStored(disk), s) = KeyOf(FromStored(disk), s)
    BY <2>2, PlainIs DEF Held
  <2> QED  BY <2>2, <2>3 DEF MigrationLosesNothing, KeptSomewhere, Held
<1>3. ASSUME up, NEW slot \in {cache.provider, "llm"}, given[slot] # Nothing
      PROVE  Resolved(cache, slot) = given[slot]
  <2>1. Held(cache, vault, given)
    BY <1>1, <1>3 DEF ConfigsHeld
  <2>2. slot \in Slots
    BY <2>1 DEF Held, Clean, Slots
  <2>3. Resolved(cache, slot) = IF KeyOf(cache, slot) # Nothing THEN KeyOf(cache, slot) ELSE vault[slot]
    BY <1>3 DEF Resolved, KeyOf
  <2> QED  BY <1>3, <2>1, <2>2, <2>3 DEF Held
<1> QED  BY <1>2, <1>3

\* Whatever settings are stored, wherever the vault or the disk fails and the
\* program stops, and however many commands overlap: each key that the user gave
\* is in the vault or in settings.json, and it is the one that is used.  Settings
\* with the key of a provider before the custom one are left out: for those the
\* code loses a key.
THEOREM SecretsStayKept ==
  ASSUME NoLeftover
  PROVE  SettingsSpec => []SecretsKept
<1>1. SettingsInit => SettingsInv
  BY SettingsStart
<1>2. SettingsInv /\ [SettingsNext]_settingsVars => SettingsInv'
  BY SettingsStep
<1>3. SettingsInv => SecretsKept
  BY SettingsFollows
<1> QED  BY <1>1, <1>2, <1>3, PTL DEF SettingsSpec

-----------------------------------------------------------------------------
(* Settings: what a normal configuration is                                 *)

BindingLists ==
  { l \in Seq(Bindings \ {"invalid"}) :
      Len(l) <= MaxBindings /\ \A i, j \in DOMAIN l : Identity(l[i]) = Identity(l[j]) => i = j }

RecordingOK(c) ==
  /\ c.provider \in Providers /\ c.limitMode \in {"auto", "custom"} /\ c.customLimit \in Nat
  /\ c.limit = Limit(c)

TranslationOK(c) ==
  c.targets \in TargetLists /\ c.active \in ToSet(c.targets) /\ c.targetLang = c.active

HotkeysOK(c) ==
  /\ c.list \in BindingLists /\ c.list # <<>> /\ c.dictation = c.list[1] /\ c.dictation # "retired"
  /\ c.asks \in BindingLists /\ c.ask = FirstOf(c.asks)
  /\ c.hotkey = c.dictation /\ c.askHotkey = c.ask /\ c.hotkeyMode = c.mode

ScenesOK(c) == c.scenes \subseteq CustomScenes /\ c.assigned \in KnownScenes(c) \cup {Nothing}

InsertionOK(c) ==
  /\ c.insertion \in Insertions
  /\ c.outputMode = IF c.insertion \in {"paste", "copy"} THEN "clipboard" ELSE "keyboard"

IsNormal(c) ==
  /\ DOMAIN c = DOMAIN DefaultConfig /\ c = [f \in DOMAIN c |-> c[f]]
  /\ RecordingOK(c) /\ TranslationOK(c) /\ HotkeysOK(c) /\ ScenesOK(c) /\ InsertionOK(c)

\* An edit of c is in force in d, and leaves what it is not about.
InForce(d, c, e) ==
  Shows(d, e) /\ \A g \in Groups \ {Group(e.what)} : Says(d, g) = Says(c, g)

-----------------------------------------------------------------------------
(* The lists that loading and normalising build: known members, each once    *)

AddIn(list, x, ok, id, max) ==
  IF x \notin ok \/ Len(list) = max \/ \E i \in DOMAIN list : id[list[i]] = id[x] THEN list
  ELSE Append(list, x)

Collects(run, seq, ok, id, max) ==
  /\ run[0] = <<>>
  /\ \A n \in 1 .. Len(seq) : run[n] = AddIn(run[n - 1], seq[n], ok, id, max)

ListsOf(ok, id, max) ==
  { l \in Seq(ok) : Len(l) <= max /\ \A i, j \in DOMAIN l : id[l[i]] = id[l[j]] => i = j }

\* What is collected is such a list.
LEMMA CollectedIs ==
  ASSUME NEW E, NEW ok \in SUBSET E, NEW id, NEW max \in Nat, NEW seq \in Seq(E),
         NEW run \in [0 .. Len(seq) -> Seq(E)], Collects(run, seq, ok, id, max)
  PROVE  run[Len(seq)] \in ListsOf(ok, id, max)
<1> DEFINE Good == { n \in 0 .. Len(seq) : run[n] \in ListsOf(ok, id, max) }
<1>1. 0 \in Good
  BY DEF Collects, ListsOf
<1>2. ASSUME NEW n \in 0 .. Len(seq) - 1, run[n] \in ListsOf(ok, id, max)
      PROVE  run[n + 1] \in ListsOf(ok, id, max)
  <2>1. n + 1 \in 1 .. Len(seq) /\ (n + 1) - 1 = n
    OBVIOUS
  <2> DEFINE l == run[n]
             x == seq[n + 1]
  <2>2. run[n + 1] = AddIn(l, x, ok, id, max)
    BY <2>1 DEF Collects
  <2>3. l \in Seq(ok) /\ Len(l) <= max /\ \A i, j \in DOMAIN l : id[l[i]] = id[l[j]] => i = j
    BY <1>2 DEF ListsOf
  <2> HIDE DEF l, x
  <2>4. CASE x \in ok /\ Len(l) # max /\ ~ \E i \in DOMAIN l : id[l[i]] = id[x]
    <3>1. /\ Append(l, x) \in Seq(ok) /\ Len(Append(l, x)) = Len(l) + 1 /\ Len(l) \in Nat
          /\ DOMAIN Append(l, x) = 1 .. Len(l) + 1 /\ DOMAIN l = 1 .. Len(l)
          /\ \A i \in 1 .. Len(l) : Append(l, x)[i] = l[i]
          /\ Append(l, x)[Len(l) + 1] = x
      BY <2>3, <2>4
    <3> DEFINE new == Append(l, x)
               last == Len(l) + 1
    <3>2. run[n + 1] = new
      BY <2>2, <2>4 DEF AddIn
    <3> HIDE DEF new
    <3>3. ASSUME NEW i \in 1 .. last, NEW j \in 1 .. last, id[new[i]] = id[new[j]]
          PROVE  i = j
      <4>0. \A k \in 1 .. Len(l) : new[k] = l[k]
        BY <3>1 DEF new
      <4>1. \A k \in 1 .. Len(l) : new[k] = l[k] /\ id[new[k]] # id[x]
        <5>1. \A k \in DOMAIN l : id[l[k]] # id[x]
          BY <2>4, Zenon
        <5>2. DOMAIN l = 1 .. Len(l)
          BY <3>1, Zenon
        <5> QED  BY <4>0, <5>1, <5>2, Zenon
      <4>2. \A k \in 1 .. last : k = last \/ k \in 1 .. Len(l)
        BY <3>1
      <4>3. new[last] = x
        BY <3>1 DEF new
      <4>4. i \in 1 .. Len(l) /\ j \in 1 .. Len(l) => i = j
        BY <2>3, <3>1, <3>3, <4>1
      <4> QED  BY <3>3, <4>1, <4>2, <4>3, <4>4
    <3>4. Len(new) <= max
      <4>1. \A n1, n2 \in Nat : n1 <= n2 /\ n1 # n2 => n1 + 1 <= n2
        OBVIOUS
      <4>2. Len(l) \in Nat /\ Len(l) <= max /\ Len(l) # max /\ Len(new) = Len(l) + 1
        <5>1. Len(l) \in Nat /\ Len(new) = Len(l) + 1
          BY <3>1, Zenon DEF new
        <5>2. Len(l) <= max /\ Len(l) # max
          BY <2>3, <2>4, Zenon
        <5> QED  BY <5>1, <5>2
      <4> QED  BY <4>1, <4>2
    <3> QED  BY <3>1, <3>2, <3>3, <3>4 DEF ListsOf, new
  <2>5. CASE ~(x \in ok /\ Len(l) # max /\ ~ \E i \in DOMAIN l : id[l[i]] = id[x])
    <3>1. run[n + 1] = l
      BY <2>2, <2>5 DEF AddIn
    <3> QED  BY <2>3, <3>1 DEF ListsOf
  <2> QED  BY <2>4, <2>5
<1>3. 0 .. Len(seq) \subseteq Good
  <2>1. \A n \in 0 .. Len(seq) - 1 : n \in Good => n + 1 \in Good
    BY <1>2
  <2>2. Len(seq) \in Nat
    OBVIOUS
  <2> HIDE DEF Good
  <2> QED  BY <1>1, <2>1, <2>2, Climbs
<1> QED  BY <1>3

\* Such a list is collected as it is.
LEMMA CollectedAgain ==
  ASSUME NEW E, NEW ok \in SUBSET E, NEW id, NEW max \in Nat, NEW seq \in ListsOf(ok, id, max),
         NEW run \in [0 .. Len(seq) -> Seq(E)], Collects(run, seq, ok, id, max)
  PROVE  run[Len(seq)] = seq
<1> DEFINE Good == { n \in 0 .. Len(seq) : run[n] = SubSeq(seq, 1, n) }
<1>0. seq \in Seq(ok) /\ Len(seq) <= max /\ \A i, j \in DOMAIN seq : id[seq[i]] = id[seq[j]] => i = j
  BY DEF ListsOf
<1>1. 0 \in Good
  <2>1. SubSeq(seq, 1, 0) = <<>> /\ 0 \in 0 .. Len(seq)
    BY <1>0
  <2> QED  BY <2>1 DEF Collects
<1>2. ASSUME NEW n \in 0 .. Len(seq) - 1, run[n] = SubSeq(seq, 1, n)
      PROVE  run[n + 1] = SubSeq(seq, 1, n + 1)
  <2>1. n + 1 \in 1 .. Len(seq) /\ (n + 1) - 1 = n
    BY <1>0
  <2> DEFINE l == SubSeq(seq, 1, n)
             x == seq[n + 1]
  <2>2. run[n + 1] = AddIn(l, x, ok, id, max)
    BY <1>2, <2>1 DEF Collects
  <2>3. /\ Len(l) = n /\ DOMAIN l = 1 .. n /\ \A i \in 1 .. n : l[i] = seq[i]
        /\ x \in ok /\ n < max /\ DOMAIN seq = 1 .. Len(seq)
    BY <1>0, <2>1
  <2>4. ~ \E i \in DOMAIN l : id[l[i]] = id[x]
    <3>1. \A i \in 1 .. n : i \in DOMAIN seq /\ n + 1 \in DOMAIN seq /\ i # n + 1
      BY <2>1, <2>3
    <3> HIDE DEF l
    <3> QED  BY <1>0, <2>3, <3>1
  <2>5. Append(l, x) = SubSeq(seq, 1, n + 1)
    BY <1>0, <2>1
  <2> HIDE DEF l, x
  <2> QED  BY <2>2, <2>3, <2>4, <2>5 DEF AddIn
<1>3. 0 .. Len(seq) \subseteq Good
  <2>1. \A n \in 0 .. Len(seq) - 1 : n \in Good => n + 1 \in Good
    BY <1>2
  <2>2. Len(seq) \in Nat
    BY <1>0
  <2> HIDE DEF Good
  <2> QED  BY <1>1, <2>1, <2>2, Climbs
<1>4. SubSeq(seq, 1, Len(seq)) = seq /\ Len(seq) \in 0 .. Len(seq)
  BY <1>0
<1> QED  BY <1>3, <1>4

\* A first member that is known stays the first.
LEMMA FirstStays ==
  ASSUME NEW E, NEW ok \in SUBSET E, NEW id, NEW max \in Nat \ {0}, NEW seq \in Seq(E),
         NEW run \in [0 .. Len(seq) -> Seq(E)], Collects(run, seq, ok, id, max),
         seq # <<>>, seq[1] \in ok
  PROVE  run[Len(seq)] # <<>> /\ run[Len(seq)][1] = seq[1]
<1> DEFINE Good == { n \in 0 .. Len(seq) : n > 0 => Len(run[n]) > 0 /\ run[n][1] = seq[1] }
<1>1. 0 \in Good /\ Len(seq) \in Nat \ {0}
  OBVIOUS
<1>2. ASSUME NEW n \in 0 .. Len(seq) - 1, n > 0 => Len(run[n]) > 0 /\ run[n][1] = seq[1]
      PROVE  Len(run[n + 1]) > 0 /\ run[n + 1][1] = seq[1]
  <2>1. n + 1 \in 1 .. Len(seq) /\ (n + 1) - 1 = n
    OBVIOUS
  <2> DEFINE l == run[n]
             x == seq[n + 1]
  <2>2. run[n + 1] = AddIn(l, x, ok, id, max)
    BY <2>1 DEF Collects
  <2>3. l \in Seq(E) /\ x \in E /\ (n = 0 => l = <<>> /\ x = seq[1] /\ x \in ok)
        /\ (n > 0 => Len(l) > 0 /\ l[1] = seq[1])
    BY <1>2, <2>1 DEF Collects
  <2> HIDE DEF l, x
  <2>4. CASE n = 0
    <3>1. Len(l) # max /\ DOMAIN l = {}
      BY <2>3, <2>4
    <3>2. run[n + 1] = Append(l, x)
      BY <2>2, <2>3, <2>4, <3>1 DEF AddIn
    <3> QED  BY <2>3, <2>4, <3>2
  <2>5. CASE n > 0
    <3>1. run[n + 1] = l \/ run[n + 1] = Append(l, x)
      BY <2>2 DEF AddIn
    <3>2. Len(Append(l, x)) > 0 /\ Append(l, x)[1] = l[1]
      BY <2>3, <2>5
    <3> QED  BY <2>3, <2>5, <3>1, <3>2
  <2> QED  BY <2>4, <2>5
<1>3. 0 .. Len(seq) \subseteq Good
  <2>1. \A n \in 0 .. Len(seq) - 1 : n \in Good => n + 1 \in Good
    BY <1>2
  <2>2. Len(seq) \in Nat
    OBVIOUS
  <2> HIDE DEF Good
  <2> QED  BY <1>1, <2>1, <2>2, Climbs
<1>4. Len(run[Len(seq)]) > 0 /\ run[Len(seq)][1] = seq[1]
  BY <1>1, <1>3
<1> QED  BY <1>4

IdentityOf == [b \in Bindings |-> Identity(b)]
Valid == Bindings \ {"invalid"}

\* NormalList goes through a list of bindings in this way.
LEMMA NormalListRuns ==
  ASSUME NEW list \in Seq(Bindings)
  PROVE  \E run \in [0 .. Len(list) -> Seq(Bindings)] :
           Collects(run, list, Valid, IdentityOf, MaxBindings) /\ NormalList(list) = run[Len(list)]
<1> DEFINE A    == Seq(Bindings)
           step == [p \in A \X Bindings |-> AddBinding(p[1], p[2])]
           iter == CHOOSE f : f = [s \in SUBSET DOMAIN list |->
                     IF s = {} THEN <<>> ELSE AddBinding(f[s \ {Max(s)}], list[Max(s)])]
<1>1. step \in [A \X Bindings -> A] /\ <<>> \in A
  BY DEF AddBinding
<1>2. \A a \in A, b \in Bindings : step[<<a, b>>] = AddBinding(a, b)
  OBVIOUS
<1> HIDE DEF step
<1>3. \A s \in SUBSET DOMAIN list : s # {} => Max(s) \in DOMAIN list /\ list[Max(s)] \in Bindings
  <2>1. DOMAIN list = 1 .. Len(list) /\ Len(list) \in Nat
    OBVIOUS
  <2>2. \A i \in DOMAIN list : list[i] \in Bindings
    OBVIOUS
  <2>3. \A s \in SUBSET (1 .. Len(list)) : s # {} => Max(s) \in s
    BY <2>1, MaxIn
  <2> QED  BY <2>1, <2>2, <2>3
<1>4. PICK f \in [SUBSET DOMAIN list -> A] : IsFold(f, step, <<>>, list, DOMAIN list)
  BY <1>1, FoldExists
<1>5. f = [s \in SUBSET DOMAIN list |-> IF s = {} THEN <<>> ELSE AddBinding(f[s \ {Max(s)}], list[Max(s)])]
  <2>1. \A s \in SUBSET DOMAIN list : s # {} =>
          step[<<f[s \ {Max(s)}], list[Max(s)]>>] = AddBinding(f[s \ {Max(s)}], list[Max(s)])
    BY <1>2, <1>3
  <2> QED  BY <1>4, <2>1 DEF IsFold
<1>6. iter = [s \in SUBSET DOMAIN list |-> IF s = {} THEN <<>> ELSE AddBinding(iter[s \ {Max(s)}], list[Max(s)])]
  BY <1>5
<1>7. NormalList(list) = iter[DOMAIN list]
  BY DEF NormalList, FoldLeft, MapThenFoldSet
<1> HIDE DEF iter
<1>8. iter[{}] = <<>>
  BY <1>6
<1>9. IsFolding(iter, step, <<>>, list, A)
  BY <1>2, <1>3, <1>6, <1>8 DEF IsFolding
<1> HIDE DEF A
<1>10. PICK run \in [0 .. Len(list) -> A] :
         IsRun(run, step, <<>>, list) /\ iter[DOMAIN list] = run[Len(list)]
  <2>1. FoldedTo(iter[DOMAIN list], step, <<>>, list, A)
    BY <1>1, <1>9, FoldSteps
  <2> QED  BY <2>1 DEF FoldedTo
<1>11. \A n \in 1 .. Len(list) : run[n - 1] \in A /\ list[n] \in Bindings
  BY <1>10
<1>12. ASSUME NEW n \in 1 .. Len(list)
       PROVE  run[n] = AddIn(run[n - 1], list[n], Valid, IdentityOf, MaxBindings)
  <2> DEFINE l == run[n - 1]
             b == list[n]
  <2>1. run[n] = AddBinding(l, b) /\ l \in Seq(Bindings) /\ b \in Bindings
    BY <1>2, <1>10, <1>11 DEF IsRun, A
  <2> HIDE DEF l, b
  <2>2. (b \notin Valid <=> b = "invalid") /\ IdentityOf[b] = Identity(b)
        /\ \A i \in DOMAIN l : IdentityOf[l[i]] = Identity(l[i])
    BY <2>1 DEF Valid, IdentityOf
  <2> QED  BY <2>1, <2>2 DEF AddBinding, AddIn, l, b
<1> QED  BY <1>7, <1>10, <1>12 DEF A, IsRun, Collects

\* What NormalList makes of a list: one of valid bindings, each once.
LEMMA NormalListIs ==
  ASSUME NEW list \in Seq(Bindings)
  PROVE  /\ NormalList(list) \in BindingLists
         /\ list \in BindingLists => NormalList(list) = list
         /\ list # <<>> /\ list[1] # "invalid" => NormalList(list) # <<>> /\ NormalList(list)[1] = list[1]
<1>1. PICK run \in [0 .. Len(list) -> Seq(Bindings)] :
        Collects(run, list, Valid, IdentityOf, MaxBindings) /\ NormalList(list) = run[Len(list)]
  BY NormalListRuns
<1>2. BindingLists = ListsOf(Valid, IdentityOf, MaxBindings)
  <2>1. ASSUME NEW l \in Seq(Valid)
        PROVE  \A i \in DOMAIN l : IdentityOf[l[i]] = Identity(l[i])
    BY DEF Valid, IdentityOf
  <2> QED  BY <2>1 DEF BindingLists, ListsOf, Valid
<1>3. Valid \in SUBSET Bindings /\ MaxBindings \in Nat \ {0}
  BY DEF Valid, MaxBindings
<1>4. list # <<>> /\ list[1] # "invalid" => list[1] \in Valid
  BY DEF Valid
<1>5. NormalList(list) \in BindingLists
  BY <1>1, <1>2, <1>3, CollectedIs
<1>6. list \in BindingLists => NormalList(list) = list
  BY <1>1, <1>2, <1>3, CollectedAgain
<1>7. list # <<>> /\ list[1] # "invalid" => NormalList(list) # <<>> /\ NormalList(list)[1] = list[1]
  BY <1>1, <1>3, <1>4, FirstStays
<1> QED  BY <1>5, <1>6, <1>7

\* The same of the translation targets.
LEMMA KnownRuns ==
  ASSUME NEW ts, ts \in Seq(ToSet(ts))
  PROVE  \E run \in [0 .. Len(ts) -> Seq(ToSet(ts) \cup Languages20)] :
           /\ Collects(run, ts, Languages20, [l \in ToSet(ts) \cup Languages20 |-> l], MaxTargets)
           /\ FoldLeft(AddTarget, <<>>, ts) = run[Len(ts)]
<1> DEFINE E    == ToSet(ts) \cup Languages20
           A    == Seq(E)
           step == [p \in A \X E |-> AddTarget(p[1], p[2])]
           iter == CHOOSE f : f = [s \in SUBSET DOMAIN ts |->
                     IF s = {} THEN <<>> ELSE AddTarget(f[s \ {Max(s)}], ts[Max(s)])]
<1>0. ts \in Seq(E)
  OBVIOUS
<1> HIDE DEF E
<1>1. step \in [A \X E -> A] /\ <<>> \in A
  BY DEF AddTarget
<1>2. \A a \in A, l \in E : step[<<a, l>>] = AddTarget(a, l)
  OBVIOUS
<1> HIDE DEF step
<1>3. \A s \in SUBSET DOMAIN ts : s # {} => Max(s) \in DOMAIN ts /\ ts[Max(s)] \in E
  <2>1. DOMAIN ts = 1 .. Len(ts) /\ Len(ts) \in Nat
    BY <1>0
  <2>2. \A i \in DOMAIN ts : ts[i] \in E
    BY <1>0
  <2>3. \A s \in SUBSET (1 .. Len(ts)) : s # {} => Max(s) \in s
    BY <2>1, MaxIn
  <2> QED  BY <2>1, <2>2, <2>3
<1>4. PICK f \in [SUBSET DOMAIN ts -> A] : IsFold(f, step, <<>>, ts, DOMAIN ts)
  BY <1>0, <1>1, FoldExists
<1>5. f = [s \in SUBSET DOMAIN ts |-> IF s = {} THEN <<>> ELSE AddTarget(f[s \ {Max(s)}], ts[Max(s)])]
  <2>1. \A s \in SUBSET DOMAIN ts : s # {} =>
          step[<<f[s \ {Max(s)}], ts[Max(s)]>>] = AddTarget(f[s \ {Max(s)}], ts[Max(s)])
    BY <1>2, <1>3
  <2> QED  BY <1>4, <2>1 DEF IsFold
<1>6. iter = [s \in SUBSET DOMAIN ts |-> IF s = {} THEN <<>> ELSE AddTarget(iter[s \ {Max(s)}], ts[Max(s)])]
  BY <1>5
<1>7. FoldLeft(AddTarget, <<>>, ts) = iter[DOMAIN ts]
  BY DEF FoldLeft, MapThenFoldSet
<1> HIDE DEF iter
<1>8. iter[{}] = <<>>
  BY <1>6
<1>9. IsFolding(iter, step, <<>>, ts, A)
  BY <1>2, <1>3, <1>6, <1>8 DEF IsFolding
<1> HIDE DEF A
<1>10. PICK run \in [0 .. Len(ts) -> A] :
         IsRun(run, step, <<>>, ts) /\ iter[DOMAIN ts] = run[Len(ts)]
  <2>1. FoldedTo(iter[DOMAIN ts], step, <<>>, ts, A)
    BY <1>0, <1>1, <1>9, FoldSteps
  <2> QED  BY <2>1 DEF FoldedTo
<1>11. \A n \in 1 .. Len(ts) : run[n - 1] \in A /\ ts[n] \in E
  BY <1>0, <1>10
<1> DEFINE id == [l \in E |-> l]
<1>12. ASSUME NEW n \in 1 .. Len(ts)
       PROVE  run[n] = AddIn(run[n - 1], ts[n], Languages20, id, MaxTargets)
  <2> DEFINE l == run[n - 1]
             x == ts[n]
  <2>1. run[n] = AddTarget(l, x) /\ l \in Seq(E) /\ x \in E
    BY <1>2, <1>10, <1>11 DEF IsRun, A
  <2> HIDE DEF l, x
  <2>2. /\ id[x] = x /\ \A i \in DOMAIN l : id[l[i]] = l[i]
        /\ x \in ToSet(l) <=> \E i \in DOMAIN l : l[i] = x
    BY <2>1 DEF ToSet
  <2> HIDE DEF id
  <2> QED  BY <2>1, <2>2 DEF AddTarget, AddIn, l, x
<1> HIDE DEF id
<1>13. Collects(run, ts, Languages20, id, MaxTargets)
  BY <1>10, <1>12 DEF IsRun, Collects
<1> QED  BY <1>7, <1>10, <1>13 DEF A, E, id

\* Loading keeps the targets it knows, each once, and a list the page let through as it is.
LEMMA KnownIs ==
  ASSUME NEW ts, ts \in Seq(ToSet(ts))
  PROVE  /\ FoldLeft(AddTarget, <<>>, ts) \in TargetLists \cup {<<>>}
         /\ ts \in TargetLists => FoldLeft(AddTarget, <<>>, ts) = ts
<1> DEFINE E  == ToSet(ts) \cup Languages20
           id == [l \in E |-> l]
<1>1. PICK run \in [0 .. Len(ts) -> Seq(E)] :
        Collects(run, ts, Languages20, id, MaxTargets) /\ FoldLeft(AddTarget, <<>>, ts) = run[Len(ts)]
  BY KnownRuns
<1>2. ListsOf(Languages20, id, MaxTargets) = TargetLists \cup {<<>>}
  <2>1. ASSUME NEW l \in Seq(Languages20)
        PROVE  /\ \A i \in DOMAIN l : id[l[i]] = l[i]
               /\ l \in {<<>>} <=> Len(l) = 0
               /\ Len(l) \in Nat
    OBVIOUS
  <2>2. MaxTargets \in Nat /\ <<>> \in Seq(Languages20)
    BY TargetsAssumption
  <2> HIDE DEF id
  <2> QED  BY <2>1, <2>2 DEF TargetLists, ListsOf
<1>3. Languages20 \in SUBSET E /\ MaxTargets \in Nat /\ ts \in Seq(E)
  BY TargetsAssumption
<1> HIDE DEF E, id
<1>4. FoldLeft(AddTarget, <<>>, ts) \in TargetLists \cup {<<>>}
  BY <1>1, <1>2, <1>3, CollectedIs
<1>5. ts \in TargetLists => FoldLeft(AddTarget, <<>>, ts) = ts
  BY <1>1, <1>2, <1>3, CollectedAgain
<1> QED  BY <1>4, <1>5
-----------------------------------------------------------------------------
(* What normalising makes of each group of fields                            *)

Fields == DOMAIN DefaultConfig

IsConfig(c) == DOMAIN c = Fields /\ c = [f \in DOMAIN c |-> c[f]]

\* To set a field to what it is changes nothing.
LEMMA SetAgain ==
  ASSUME NEW c, c = [f \in DOMAIN c |-> c[f]], NEW f, NEW v, f \in DOMAIN c => c[f] = v
  PROVE  [c EXCEPT ![f] = v] = c
OBVIOUS

\* The fields of AppConfig.
LEMMA FieldsAre ==
  Fields = {"provider", "key", "customKey", "llmKey", "limitMode", "customLimit", "limit", "targets",
            "active", "targetLang", "list", "dictation", "asks", "ask", "mode", "hotkey", "askHotkey",
            "hotkeyMode", "insertion", "outputMode", "scenes", "assigned"}
BY DEF Fields, DefaultConfig

SameRecording(c, d) == d.provider = c.provider /\ d.limitMode = c.limitMode /\ d.customLimit = c.customLimit
SameTranslation(c, d) == d.targets = c.targets /\ d.active = c.active /\ d.targetLang = c.targetLang
SameBindings(c, d) ==
  d.list = c.list /\ d.dictation = c.dictation /\ d.asks = c.asks /\ d.ask = c.ask /\ d.mode = c.mode
SameMirrors(c, d) == d.hotkey = c.hotkey /\ d.askHotkey = c.askHotkey /\ d.hotkeyMode = c.hotkeyMode
SameHotkeys(c, d) == SameBindings(c, d) /\ SameMirrors(c, d)
SameInsertion(c, d) == d.insertion = c.insertion /\ d.outputMode = c.outputMode
SameScenes(c, d) == d.scenes = c.scenes /\ d.assigned = c.assigned
SameKeys(c, d) == d.key = c.key /\ d.customKey = c.customKey /\ d.llmKey = c.llmKey

\* Normalising the scenes keeps what the other groups say, and a scene that is known.
LEMMA NormalScenesIs ==
  ASSUME NEW c, IsConfig(c), c.scenes \subseteq CustomScenes
  PROVE  LET d == NormalScenes(c)
         IN  /\ IsConfig(d) /\ ScenesOK(d) /\ d.scenes = c.scenes
             /\ c.assigned \in KnownScenes(c) \cup {Nothing} => d.assigned = c.assigned
             /\ ScenesOK(c) => d = c
             /\ SameRecording(c, d) /\ SameTranslation(c, d) /\ SameHotkeys(c, d) /\ SameInsertion(c, d)
<1> DEFINE v == IF c.assigned \in KnownScenes(c) THEN c.assigned ELSE Nothing
           d == [c EXCEPT !.assigned = v]
<1>1. NormalScenes(c) = d
  BY Zenon DEF NormalScenes
<1>2. v \in KnownScenes(c) \cup {Nothing} /\ (c.assigned \in KnownScenes(c) \cup {Nothing} => v = c.assigned)
  OBVIOUS
<1>3. DOMAIN c = Fields
  BY DEF IsConfig
<1> HIDE DEF v
<1>4. /\ IsConfig(d) /\ d.scenes = c.scenes /\ d.assigned = v
      /\ SameRecording(c, d) /\ SameTranslation(c, d) /\ SameHotkeys(c, d) /\ SameInsertion(c, d)
  BY <1>3, FieldsAre DEF IsConfig, SameRecording, SameTranslation, SameHotkeys, SameBindings, SameMirrors,
                         SameInsertion
<1>5. ScenesOK(c) => d = c
  BY <1>2, SetAgain DEF ScenesOK, IsConfig
<1> HIDE DEF d
<1>6. ScenesOK(d)
  BY <1>2, <1>4 DEF ScenesOK, KnownScenes
<1> QED  BY <1>1, <1>2, <1>4, <1>5, <1>6

\* Normalising the way of insertion sets the output mode by it, and nothing else.
LEMMA NormalInsertionIs ==
  ASSUME NEW c, IsConfig(c)
  PROVE  LET d == NormalInsertion(c)
         IN  /\ IsConfig(d) /\ InsertionOK(d)
             /\ c.insertion \in Insertions => d.insertion = c.insertion
             /\ InsertionOK(c) => d = c
             /\ SameRecording(c, d) /\ SameTranslation(c, d) /\ SameHotkeys(c, d) /\ SameScenes(c, d)
<1> DEFINE s == IF c.insertion \in Insertions THEN c.insertion ELSE "auto"
           o == IF s \in {"paste", "copy"} THEN "clipboard" ELSE "keyboard"
           x == [c EXCEPT !.insertion = s]
           d == [x EXCEPT !.outputMode = o]
<1>1. NormalInsertion(c) = d
  BY Zenon DEF NormalInsertion
<1>2. s \in Insertions /\ (c.insertion \in Insertions => s = c.insertion)
      /\ o = (IF s \in {"paste", "copy"} THEN "clipboard" ELSE "keyboard")
  BY DEF Insertions
<1>3. DOMAIN c = Fields
  BY DEF IsConfig
<1> HIDE DEF s, o
<1>4. /\ IsConfig(d) /\ d.insertion = s /\ d.outputMode = o
      /\ SameRecording(c, d) /\ SameTranslation(c, d) /\ SameHotkeys(c, d) /\ SameScenes(c, d)
  BY <1>3, FieldsAre DEF IsConfig, SameRecording, SameTranslation, SameHotkeys, SameBindings, SameMirrors,
                         SameScenes
<1>5. ASSUME InsertionOK(c)
      PROVE  d = c
  <2>1. x = c
    BY <1>2, <1>5, SetAgain DEF InsertionOK, IsConfig
  <2>2. [c EXCEPT !.outputMode = o] = c
    BY <1>2, <1>5, SetAgain DEF InsertionOK, IsConfig
  <2> QED  BY <2>1, <2>2
<1> HIDE DEF d
<1>6. InsertionOK(d)
  BY <1>2, <1>4 DEF InsertionOK
<1> QED  BY <1>1, <1>2, <1>4, <1>5, <1>6

\* Normalising the translation makes the active target one of the targets.
LEMMA NormalTranslationIs ==
  ASSUME NEW c, IsConfig(c), c.targets \in Seq(ToSet(c.targets))
  PROVE  LET d == NormalTranslation(c)
         IN  /\ IsConfig(d) /\ TranslationOK(d)
             /\ c.targets \in TargetLists /\ c.targetLang \in ToSet(c.targets) =>
                  d.targets = c.targets /\ d.active = c.targetLang
             /\ TranslationOK(c) => d = c
             /\ SameRecording(c, d) /\ SameScenes(c, d) /\ SameHotkeys(c, d) /\ SameInsertion(c, d)
<1> DEFINE known  == FoldLeft(AddTarget, <<>>, c.targets)
           legacy == c.targetLang \in Languages20
           one    == IF legacy THEN c.targetLang ELSE "en"
           some   == IF known # <<>> THEN known ELSE <<one>>
           all    == IF legacy THEN AddTarget(some, c.targetLang) ELSE some
           active == IF legacy /\ c.targetLang \in ToSet(all) THEN c.targetLang
                     ELSE IF c.active \in ToSet(all) THEN c.active
                     ELSE all[1]
           x == [c EXCEPT !.targets = all]
           y == [x EXCEPT !.active = active]
           d == [y EXCEPT !.targetLang = active]
<1>1. NormalTranslation(c) = d
  BY Zenon DEF NormalTranslation
<1>2. known \in TargetLists \cup {<<>>} /\ (c.targets \in TargetLists => known = c.targets)
  BY KnownIs
<1> HIDE DEF known
<1>3. some \in TargetLists
  <2>1. one \in Languages20
    BY DEF Languages20
  <2>2. <<one>> \in TargetLists
    BY <2>1, TargetsAssumption DEF TargetLists
  <2> QED  BY <1>2, <2>2
<1>4. c.targets \in TargetLists => some = c.targets
  <2>1. <<>> \notin TargetLists
    BY DEF TargetLists
  <2> QED  BY <1>2, <2>1
<1> HIDE DEF some, one
<1>5. all \in TargetLists
  <2>1. CASE legacy /\ c.targetLang \notin ToSet(some) /\ Len(some) # MaxTargets
    <3> DEFINE l == c.targetLang
               new == Append(some, l)
    <3>1. all = new
      BY <2>1 DEF AddTarget
    <3>2. some \in Seq(Languages20) /\ Len(some) \in 1 .. MaxTargets
          /\ \A i, j \in DOMAIN some : some[i] = some[j] => i = j
      BY <1>3 DEF TargetLists
    <3>3. l \in Languages20 /\ \A i \in DOMAIN some : some[i] # l
      BY <2>1 DEF ToSet
    <3> HIDE DEF l, all
    <3>4. /\ new \in Seq(Languages20) /\ Len(new) = Len(some) + 1 /\ Len(some) \in Nat
          /\ DOMAIN new = 1 .. Len(some) + 1 /\ DOMAIN some = 1 .. Len(some)
          /\ \A i \in 1 .. Len(some) : new[i] = some[i]
          /\ new[Len(some) + 1] = l
      BY <3>2, <3>3
    <3> HIDE DEF new
    <3>5. Len(new) \in 1 .. MaxTargets
      <4>1. \A n1, n2 \in Nat : n1 \in 1 .. n2 /\ n1 # n2 => n1 + 1 \in 1 .. n2
        OBVIOUS
      <4>2. Len(some) # MaxTargets /\ MaxTargets \in Nat
        BY <2>1, TargetsAssumption
      <4>3. Len(some) + 1 \in 1 .. MaxTargets
        BY <3>2, <3>4, <4>1, <4>2, Zenon
      <4>4. Len(new) = Len(some) + 1
        BY <3>4, Zenon
      <4> QED  BY <4>3, <4>4, Zenon
    <3>6. \A i, j \in DOMAIN new : new[i] = new[j] => i = j
      BY <3>2, <3>3, <3>4
    <3> QED  BY <3>1, <3>4, <3>5, <3>6 DEF TargetLists
  <2>2. CASE ~(legacy /\ c.targetLang \notin ToSet(some) /\ Len(some) # MaxTargets)
    BY <1>3, <2>2 DEF AddTarget
  <2> QED  BY <2>1, <2>2
<1>6. active \in ToSet(all)
  <2>1. all[1] \in ToSet(all)
    <3>1. 1 \in DOMAIN all
      BY <1>5 DEF TargetLists
    <3> HIDE DEF all
    <3> QED  BY <3>1 DEF ToSet
  <2> HIDE DEF all
  <2> QED  BY <2>1
<1>7. ASSUME c.targets \in TargetLists, c.targetLang \in ToSet(c.targets)
      PROVE  all = c.targets /\ active = c.targetLang
  <2>1. some = c.targets
    BY <1>4, <1>7
  <2>2. legacy
    BY <1>7 DEF TargetLists, ToSet
  <2>3. all = some
    BY <1>7, <2>1, <2>2 DEF AddTarget
  <2> HIDE DEF all
  <2> QED  BY <1>7, <2>1, <2>2, <2>3
<1>8. DOMAIN c = Fields
  BY DEF IsConfig
<1> HIDE DEF all, active, legacy
<1>9. /\ IsConfig(d) /\ d.targets = all /\ d.active = active /\ d.targetLang = active
      /\ SameRecording(c, d) /\ SameScenes(c, d) /\ SameHotkeys(c, d) /\ SameInsertion(c, d)
  BY <1>8, FieldsAre DEF IsConfig, SameRecording, SameScenes, SameHotkeys, SameBindings, SameMirrors,
                         SameInsertion
<1>10. ASSUME TranslationOK(c)
       PROVE  d = c
  <2>1. all = c.targets /\ active = c.active /\ c.targetLang = c.active
    BY <1>7, <1>10 DEF TranslationOK
  <2>2. x = c
    BY <2>1, SetAgain DEF IsConfig
  <2>3. [c EXCEPT !.active = active] = c
    BY <2>1, SetAgain DEF IsConfig
  <2>4. [c EXCEPT !.targetLang = active] = c
    BY <2>1, SetAgain DEF IsConfig
  <2> QED  BY <2>2, <2>3, <2>4
<1> HIDE DEF d
<1>11. TranslationOK(d)
  BY <1>5, <1>6, <1>9 DEF TranslationOK
<1> QED  BY <1>1, <1>7, <1>9, <1>10, <1>11

\* The bindings of a config have their types; the mirrors of a list follow it.
Bound(c) ==
  /\ {c.list, c.asks} \subseteq Seq(Bindings)
  /\ c.dictation \in Bindings /\ c.ask \in Bindings \cup {Nothing}

InStep(c) ==
  /\ c.list \in Seq(Bindings) /\ c.list # <<>> /\ c.list[1] # "invalid" /\ c.dictation = c.list[1]
  /\ c.asks \in Seq(Bindings) /\ c.ask = FirstOf(c.asks)

\* The first binding of a list, if it has one.
LEMMA FirstIs ==
  ASSUME NEW list \in Seq(Bindings)
  PROVE  /\ FirstOf(list) \in Bindings \cup {Nothing}
         /\ list # <<>> => list[1] \in Bindings /\ FirstOf(list) = list[1]
         /\ list = <<>> <=> FirstOf(list) = Nothing
<1>1. Nothing \notin Bindings
  BY DEF Nothing, Bindings
<1>2. list # <<>> => list[1] \in Bindings
  OBVIOUS
<1> QED  BY <1>1, <1>2 DEF FirstOf

\* The list of a single binding.
LEMMA LiftedIs ==
  ASSUME NEW b \in Bindings \cup {Nothing}
  PROVE  /\ Lifted(b) \in BindingLists
         /\ b # "invalid" => FirstOf(Lifted(b)) = b
         /\ b \in Bindings \ {"invalid"} => Lifted(b) = <<b>>
         /\ Lifted(Nothing) = <<>>
<1>1. <<>> \in BindingLists /\ FirstOf(<<>>) = Nothing
  BY DEF BindingLists, FirstOf, MaxBindings
<1>2. Lifted(b) = IF b \in {Nothing, "invalid"} THEN <<>> ELSE <<b>>
  BY DEF Lifted
<1>3. CASE b \in {Nothing, "invalid"}
  <2>1. b \notin Bindings \ {"invalid"}
    BY <1>3 DEF Nothing, Bindings
  <2> QED  BY <1>1, <1>2, <1>3, <2>1 DEF Lifted
<1>4. CASE b \notin {Nothing, "invalid"}
  <2>1. <<b>> \in Seq(Bindings \ {"invalid"}) /\ Len(<<b>>) = 1 /\ <<b>> # <<>> /\ <<b>>[1] = b
    BY <1>4
  <2>2. <<b>> \in BindingLists
    BY <2>1 DEF BindingLists, MaxBindings
  <2>3. FirstOf(<<b>>) = b
    BY <2>1 DEF FirstOf
  <2> QED  BY <1>2, <1>4, <2>2, <2>3 DEF Lifted
<1> QED  BY <1>3, <1>4

\* The mirrors of the hotkeys say what the lists say, and change nothing that already agrees.
LEMMA MirrorIs ==
  ASSUME NEW c, IsConfig(c), Bound(c)
  PROVE  LET d == MirrorHotkeys(c)
         IN  /\ IsConfig(d)
             /\ d.list \in BindingLists /\ d.list # <<>> /\ d.dictation = d.list[1]
             /\ d.asks \in BindingLists /\ d.ask = FirstOf(d.asks)
             /\ d.hotkey = d.dictation /\ d.askHotkey = d.ask /\ d.hotkeyMode = d.mode /\ d.mode = c.mode
             /\ InStep(c) => /\ d.list = NormalList(c.list) /\ d.list[1] = c.list[1]
                             /\ d.asks = NormalList(c.asks)
             /\ HotkeysOK(c) => d = c
             /\ SameRecording(c, d) /\ SameTranslation(c, d) /\ SameInsertion(c, d) /\ SameScenes(c, d)
<1> DEFINE list == IF c.list = <<>> THEN Lifted(c.dictation) ELSE NormalList(c.list)
           full == IF list = <<>> THEN <<"default">> ELSE list
           asks == IF c.asks = <<>> THEN Lifted(c.ask) ELSE NormalList(c.asks)
           one  == full[1]
           ask  == FirstOf(asks)
           n1   == [c EXCEPT !.list = full]
           n2   == [n1 EXCEPT !.dictation = one]
           n3   == [n2 EXCEPT !.asks = asks]
           n    == [n3 EXCEPT !.ask = ask]
           m1   == [n EXCEPT !.hotkey = one]
           m2   == [m1 EXCEPT !.askHotkey = ask]
           d    == [m2 EXCEPT !.hotkeyMode = c.mode]
<1>1. NormalHotkeys(c) = n
  BY Zenon DEF NormalHotkeys
<1>2. c.list \in Seq(Bindings) /\ c.asks \in Seq(Bindings)
      /\ c.dictation \in Bindings /\ c.ask \in Bindings \cup {Nothing}
  BY DEF Bound
<1>3. list \in BindingLists /\ asks \in BindingLists
  BY <1>2, NormalListIs, LiftedIs
<1>4. full \in BindingLists /\ full # <<>>
  <2>1. "default" \in Bindings \ {"invalid"}
    BY DEF Bindings
  <2>2. <<"default">> \in BindingLists
    BY <2>1, LiftedIs
  <2> QED  BY <1>3, <2>2
<1>5. ASSUME InStep(c)
      PROVE  full = NormalList(c.list) /\ full[1] = c.list[1] /\ asks = NormalList(c.asks)
  <2>1. NormalList(c.list) # <<>> /\ NormalList(c.list)[1] = c.list[1]
    BY <1>5, NormalListIs DEF InStep
  <2>2. full = NormalList(c.list)
    BY <1>5, <2>1 DEF InStep
  <2>3. asks = NormalList(c.asks)
    <3>1. CASE c.asks = <<>>
      <4>1. c.ask = Nothing
        BY <1>5, <3>1 DEF InStep, FirstOf
      <4>2. <<>> \in BindingLists
        BY DEF BindingLists, MaxBindings
      <4>3. NormalList(<<>>) = <<>>
        BY <1>2, <3>1, <4>2, NormalListIs
      <4> QED  BY <1>2, <3>1, <4>1, <4>3, LiftedIs
    <3>2. CASE c.asks # <<>>
      BY <3>2
    <3> QED  BY <3>1, <3>2
  <2> QED  BY <2>1, <2>2, <2>3
<1>6. ASSUME HotkeysOK(c)
      PROVE  /\ full = c.list /\ one = c.dictation /\ asks = c.asks /\ ask = c.ask
             /\ one = c.hotkey /\ ask = c.askHotkey /\ c.mode = c.hotkeyMode
  <2>1. NormalList(c.list) = c.list /\ NormalList(c.asks) = c.asks
    BY <1>2, <1>6, NormalListIs DEF HotkeysOK
  <2>2. c.list[1] # "invalid"
    BY <1>6 DEF HotkeysOK, BindingLists
  <2>3. InStep(c)
    BY <1>2, <1>6, <2>2 DEF HotkeysOK, InStep
  <2>4. full = c.list /\ asks = c.asks
    BY <1>5, <2>1, <2>3
  <2> HIDE DEF full, asks
  <2> QED  BY <1>6, <2>4 DEF HotkeysOK
<1>7. DOMAIN c = Fields /\ c = [f \in DOMAIN c |-> c[f]]
  BY DEF IsConfig
<1>8. one = full[1] /\ ask = FirstOf(asks)
  OBVIOUS
<1> HIDE DEF list, full, asks, one, ask
<1>9. n.dictation = one /\ n.ask = ask /\ n.mode = c.mode
  BY <1>7, FieldsAre
<1>10. MirrorHotkeys(c) = d
  <2>1. MirrorHotkeys(c) = [n EXCEPT !.hotkey = n.dictation, !.askHotkey = n.ask, !.hotkeyMode = n.mode]
    BY <1>1, Zenon DEF MirrorHotkeys
  <2> HIDE DEF n
  <2> QED  BY <1>9, <2>1, Zenon
<1>11. /\ IsConfig(n) /\ n.list = full /\ n.dictation = one /\ n.asks = asks /\ n.ask = ask /\ n.mode = c.mode
       /\ SameRecording(c, n) /\ SameTranslation(c, n) /\ SameInsertion(c, n) /\ SameScenes(c, n)
  BY <1>7, FieldsAre DEF IsConfig, SameRecording, SameTranslation, SameInsertion, SameScenes
<1>12. ASSUME HotkeysOK(c)
       PROVE  d = c
  <2>1. n1 = c /\ [c EXCEPT !.dictation = one] = c /\ [c EXCEPT !.asks = asks] = c /\ [c EXCEPT !.ask = ask] = c
    BY <1>6, <1>7, <1>12, SetAgain
  <2>2. [c EXCEPT !.hotkey = one] = c /\ [c EXCEPT !.askHotkey = ask] = c /\ [c EXCEPT !.hotkeyMode = c.mode] = c
    BY <1>6, <1>7, <1>12, SetAgain
  <2> QED  BY <2>1, <2>2
<1> HIDE DEF n
<1>13. /\ IsConfig(d) /\ d.list = full /\ d.dictation = one /\ d.asks = asks /\ d.ask = ask /\ d.mode = c.mode
       /\ d.hotkey = one /\ d.askHotkey = ask /\ d.hotkeyMode = c.mode
       /\ SameRecording(c, d) /\ SameTranslation(c, d) /\ SameInsertion(c, d) /\ SameScenes(c, d)
  <2>1. DOMAIN n = Fields
    BY <1>11 DEF IsConfig
  <2> QED  BY <1>11, <2>1, FieldsAre DEF IsConfig, SameRecording, SameTranslation, SameInsertion, SameScenes
<1> HIDE DEF d
<1> QED  BY <1>3, <1>4, <1>5, <1>8, <1>10, <1>12, <1>13

\* Both normalisations of the bindings together.
LEMMA HotkeysNormal ==
  ASSUME NEW c, IsConfig(c), InStep(c)
  PROVE  LET d == MirrorHotkeys(Unretire(c))
         IN  /\ IsConfig(d) /\ HotkeysOK(d)
             /\ d.asks = NormalList(c.asks)
             /\ c.dictation # "retired" => d.list = NormalList(c.list) /\ d.dictation = c.dictation /\ d.mode = c.mode
             /\ HotkeysOK(c) => d = c
             /\ SameRecording(c, d) /\ SameTranslation(c, d) /\ SameInsertion(c, d) /\ SameScenes(c, d)
<1> DEFINE u == Unretire(c)
           d == MirrorHotkeys(u)
<1>1. DOMAIN c = Fields /\ c = [f \in DOMAIN c |-> c[f]]
  BY DEF IsConfig
<1>2. /\ IsConfig(u) /\ InStep(u) /\ u.dictation # "retired" /\ u.asks = c.asks
      /\ c.dictation # "retired" => u = c
      /\ SameRecording(c, u) /\ SameTranslation(c, u) /\ SameInsertion(c, u) /\ SameScenes(c, u)
  <2>1. CASE c.dictation = "retired"
    <3> DEFINE x == [c EXCEPT !.dictation = "default", !.list = <<"default">>, !.mode = "hold"]
    <3>1. u = x
      BY <2>1, Zenon DEF Unretire
    <3>2. /\ IsConfig(x) /\ x.dictation = "default" /\ x.list = <<"default">> /\ x.asks = c.asks /\ x.ask = c.ask
          /\ SameRecording(c, x) /\ SameTranslation(c, x) /\ SameInsertion(c, x) /\ SameScenes(c, x)
      BY <1>1, FieldsAre DEF IsConfig, SameRecording, SameTranslation, SameInsertion, SameScenes
    <3> HIDE DEF x
    <3>3. "default" \in Bindings /\ <<"default">>[1] = "default" /\ <<"default">> # <<>>
      BY DEF Bindings
    <3>4. InStep(x)
      BY <3>2, <3>3 DEF InStep
    <3> QED  BY <2>1, <3>1, <3>2, <3>4
  <2>2. CASE c.dictation # "retired"
    <3>1. u = c
      BY <2>2, Zenon DEF Unretire
    <3> QED  BY <2>2, <3>1 DEF SameRecording, SameTranslation, SameInsertion, SameScenes
  <2> QED  BY <2>1, <2>2
<1> HIDE DEF u
<1>3. Bound(u)
  BY <1>2, FirstIs DEF InStep, Bound
<1>4. /\ IsConfig(d)
      /\ d.list \in BindingLists /\ d.list # <<>> /\ d.dictation = d.list[1]
      /\ d.asks \in BindingLists /\ d.ask = FirstOf(d.asks)
      /\ d.hotkey = d.dictation /\ d.askHotkey = d.ask /\ d.hotkeyMode = d.mode /\ d.mode = u.mode
      /\ d.list = NormalList(u.list) /\ d.list[1] = u.list[1] /\ d.asks = NormalList(u.asks)
      /\ HotkeysOK(u) => d = u
      /\ SameRecording(u, d) /\ SameTranslation(u, d) /\ SameInsertion(u, d) /\ SameScenes(u, d)
  BY <1>2, <1>3, MirrorIs
<1> HIDE DEF d
<1>5. HotkeysOK(d)
  BY <1>2, <1>4 DEF HotkeysOK, InStep
<1>6. c.dictation # "retired" => d.dictation = c.dictation
  BY <1>2, <1>4 DEF InStep
<1>7. HotkeysOK(c) => d = c
  BY <1>2, <1>4 DEF HotkeysOK
<1>8. SameRecording(c, d) /\ SameTranslation(c, d) /\ SameInsertion(c, d) /\ SameScenes(c, d)
  BY <1>2, <1>4 DEF SameRecording, SameTranslation, SameInsertion, SameScenes
<1> QED  BY <1>2, <1>4, <1>5, <1>6, <1>7, <1>8 DEF u, d

\* What a config has to be for normalising to make a normal one of it.
Loadable(c) ==
  /\ IsConfig(c) /\ InStep(c)
  /\ c.provider \in Providers /\ c.limitMode \in {"auto", "custom"} /\ c.customLimit \in Nat
  /\ c.targets \in Seq(ToSet(c.targets)) /\ c.scenes \subseteq CustomScenes

\* What is normal can be normalised again.
LEMMA NormalIsLoadable ==
  ASSUME NEW c, IsNormal(c)
  PROVE  Loadable(c)
<1>1. c.list[1] # "invalid" /\ c.list \in Seq(Bindings) /\ c.asks \in Seq(Bindings)
  BY DEF IsNormal, HotkeysOK, BindingLists
<1>2. c.targets \in Seq(ToSet(c.targets))
  BY DEF IsNormal, TranslationOK, TargetLists, ToSet
<1>3. IsConfig(c)
  BY DEF IsNormal, IsConfig, Fields
<1>4. InStep(c)
  BY <1>1 DEF IsNormal, HotkeysOK, InStep
<1> QED  BY <1>2, <1>3, <1>4 DEF IsNormal, RecordingOK, ScenesOK, Loadable

\* What normalising makes of it.
NormalOf(c, d) ==
  /\ IsNormal(d)
  /\ SameRecording(c, d) /\ d.limit = Limit(c)
  /\ c.targets \in TargetLists /\ c.targetLang \in ToSet(c.targets) =>
       d.targets = c.targets /\ d.active = c.targetLang
  /\ d.asks = NormalList(c.asks)
  /\ c.dictation # "retired" =>
       d.list = NormalList(c.list) /\ d.dictation = c.dictation /\ d.mode = c.mode
  /\ c.insertion \in Insertions => d.insertion = c.insertion
  /\ d.scenes = c.scenes
  /\ c.assigned \in KnownScenes(c) \cup {Nothing} => d.assigned = c.assigned
  /\ IsNormal(c) => d = c

\* Normalising makes a configuration normal, and leaves a normal one as it is.
LEMMA NormalIs ==
  ASSUME NEW c, Loadable(c)
  PROVE  NormalOf(c, Normal(c))
<1> DEFINE a == NormalScenes(c)
           b == NormalTranslation(a)
           i == NormalInsertion(b)
           h == MirrorHotkeys(Unretire(i))
           l == Limit(h)
           d == [h EXCEPT !.limit = l]
<1>1. Normal(c) = d
  BY Zenon DEF Normal
<1>2. /\ IsConfig(a) /\ ScenesOK(a) /\ a.scenes = c.scenes
      /\ c.assigned \in KnownScenes(c) \cup {Nothing} => a.assigned = c.assigned
      /\ ScenesOK(c) => a = c
      /\ SameRecording(c, a) /\ SameTranslation(c, a) /\ SameHotkeys(c, a) /\ SameInsertion(c, a)
  BY NormalScenesIs DEF Loadable
<1> HIDE DEF a
<1>3. a.targets \in Seq(ToSet(a.targets))
  BY <1>2 DEF Loadable, SameTranslation
<1>4. /\ IsConfig(b) /\ TranslationOK(b)
      /\ a.targets \in TargetLists /\ a.targetLang \in ToSet(a.targets) =>
           b.targets = a.targets /\ b.active = a.targetLang
      /\ TranslationOK(a) => b = a
      /\ SameRecording(a, b) /\ SameScenes(a, b) /\ SameHotkeys(a, b) /\ SameInsertion(a, b)
  BY <1>2, <1>3, NormalTranslationIs
<1> HIDE DEF b
<1>5. /\ IsConfig(i) /\ InsertionOK(i)
      /\ b.insertion \in Insertions => i.insertion = b.insertion
      /\ InsertionOK(b) => i = b
      /\ SameRecording(b, i) /\ SameTranslation(b, i) /\ SameHotkeys(b, i) /\ SameScenes(b, i)
  BY <1>4, NormalInsertionIs
<1> HIDE DEF i
<1>6. SameHotkeys(c, i) /\ SameRecording(c, i)
  BY <1>2, <1>4, <1>5 DEF SameHotkeys, SameBindings, SameMirrors, SameRecording
<1>7. InStep(i)
  BY <1>6 DEF Loadable, InStep, SameHotkeys, SameBindings
<1>8. /\ IsConfig(h) /\ HotkeysOK(h)
      /\ h.asks = NormalList(i.asks)
      /\ i.dictation # "retired" => h.list = NormalList(i.list) /\ h.dictation = i.dictation /\ h.mode = i.mode
      /\ HotkeysOK(i) => h = i
      /\ SameRecording(i, h) /\ SameTranslation(i, h) /\ SameInsertion(i, h) /\ SameScenes(i, h)
  BY <1>5, <1>7, HotkeysNormal
<1> HIDE DEF h
<1>9. DOMAIN h = Fields /\ h = [f \in DOMAIN h |-> h[f]]
  BY <1>8 DEF IsConfig
<1>10. l = Limit(c)
  BY <1>6, <1>8 DEF SameRecording, Limit
<1> HIDE DEF l
<1>11. /\ IsConfig(d) /\ d.limit = l
       /\ SameRecording(h, d) /\ SameTranslation(h, d) /\ SameHotkeys(h, d) /\ SameInsertion(h, d) /\ SameScenes(h, d)
  BY <1>9, FieldsAre DEF IsConfig, SameRecording, SameTranslation, SameHotkeys, SameBindings, SameMirrors,
                         SameInsertion, SameScenes
<1> HIDE DEF d
<1>12. /\ SameRecording(c, d) /\ SameTranslation(b, d) /\ SameInsertion(i, d) /\ SameScenes(a, d)
  BY <1>4, <1>5, <1>6, <1>8, <1>11 DEF SameRecording, SameTranslation, SameInsertion, SameScenes
<1>13. IsNormal(d)
  <2>1. RecordingOK(d)
    <3>1. Limit(d) = Limit(c)
      BY <1>12 DEF SameRecording, Limit
    <3> QED  BY <1>10, <1>11, <1>12, <3>1 DEF RecordingOK, SameRecording, Loadable
  <2>2. TranslationOK(d)
    BY <1>4, <1>12 DEF TranslationOK, SameTranslation
  <2>3. HotkeysOK(d)
    BY <1>8, <1>11 DEF HotkeysOK, SameHotkeys, SameBindings, SameMirrors
  <2>4. ScenesOK(d)
    BY <1>2, <1>12 DEF ScenesOK, SameScenes, KnownScenes
  <2>5. InsertionOK(d)
    BY <1>5, <1>12 DEF InsertionOK, SameInsertion
  <2> QED  BY <1>11, <2>1, <2>2, <2>3, <2>4, <2>5 DEF IsNormal, IsConfig, Fields
<1>14. IsNormal(c) => d = c
  <2> SUFFICES ASSUME IsNormal(c) PROVE d = c
    OBVIOUS
  <2>1. a = c
    BY <1>2 DEF IsNormal
  <2>2. b = c
    BY <1>4, <2>1 DEF IsNormal
  <2>3. i = c
    BY <1>5, <2>2 DEF IsNormal
  <2>4. h = c
    BY <1>8, <2>3 DEF IsNormal
  <2>5. c.limit = l
    BY <1>10 DEF IsNormal, RecordingOK
  <2>6. [c EXCEPT !.limit = l] = c
    BY <2>5, SetAgain DEF IsNormal
  <2> QED  BY <2>4, <2>6 DEF d
<1>15. c.targets \in TargetLists /\ c.targetLang \in ToSet(c.targets) =>
         d.targets = c.targets /\ d.active = c.targetLang
  BY <1>2, <1>4, <1>12 DEF SameTranslation
<1>16. /\ d.asks = NormalList(c.asks)
       /\ c.dictation # "retired" =>
            d.list = NormalList(c.list) /\ d.dictation = c.dictation /\ d.mode = c.mode
  BY <1>6, <1>8, <1>11 DEF SameHotkeys, SameBindings
<1>17. c.insertion \in Insertions => d.insertion = c.insertion
  BY <1>2, <1>4, <1>5, <1>12 DEF SameInsertion
<1>18. /\ d.scenes = c.scenes
       /\ c.assigned \in KnownScenes(c) \cup {Nothing} => d.assigned = c.assigned
  BY <1>2, <1>12 DEF SameScenes
<1> QED  BY <1>1, <1>10, <1>11, <1>12, <1>13, <1>14, <1>15, <1>16, <1>17, <1>18 DEF NormalOf

-----------------------------------------------------------------------------
(* What loading makes of stored settings                                     *)

Storable(c) ==
  /\ IsConfig(c)
  /\ c.provider \in Providers /\ c.limitMode \in {"auto", "custom"} /\ {c.limit, c.customLimit} \subseteq Nat
  /\ c.targets \in Seq(ToSet(c.targets)) /\ c.scenes \subseteq CustomScenes
  /\ Bound(c) /\ c.hotkey \in Bindings /\ c.askHotkey \in Bindings \cup {Nothing}

\* Each configuration that may be stored can be loaded.
LEMMA StoredConfigIs ==
  ASSUME NEW c \in StoredConfigs
  PROVE  Storable(c)
<1>1. IsConfig(c)
  BY FieldsAre DEF StoredConfigs, IsConfig
<1>2. c.targets \in Seq(STRING)
  BY DEF StoredConfigs
<1>3. c.targets \in Seq(ToSet(c.targets))
  BY <1>2 DEF ToSet
<1> QED  BY <1>1, <1>3 DEF StoredConfigs, Storable, Bound

\* No effective limit is above the hard one of its provider.
LEMMA LimitIs ==
  ASSUME NEW c, c.provider \in Providers, c.customLimit \in Nat
  PROVE  Limit(c) \in Nat /\ Limit(c) <= HardMax[c.provider]
         /\ HardMax[c.provider] \in Nat /\ HardMax[c.provider] >= MinCustom
<1>1. \A p \in Providers : /\ HardMax[p] \in Nat /\ Recommended[p] \in Nat
                           /\ HardMax[p] >= MinCustom /\ HardMax[p] >= Recommended[p]
  BY DEF HardMax, Recommended, Providers, MinCustom
<1> QED  BY <1>1 DEF Limit, Least, Greatest, MinCustom

\* What is normal can be stored and loaded again.
LEMMA NormalIsStorable ==
  ASSUME NEW c, IsNormal(c)
  PROVE  Storable(c)
<1>1. Loadable(c)
  BY NormalIsLoadable
<1>2. Bound(c)
  BY <1>1, FirstIs DEF Loadable, InStep, Bound
<1>3. c.limit \in Nat
  BY LimitIs DEF IsNormal, RecordingOK
<1> QED  BY <1>1, <1>2, <1>3 DEF IsNormal, HotkeysOK, Bound, Loadable, Storable

\* Whatever is stored, what the start makes of it is normal.
LEMMA FromStoredIs ==
  ASSUME NEW stored, Storable(stored.config)
  PROVE  IsNormal(FromStored(stored))
<1> DEFINE c0 == stored.config
           c1 == IF "limitMode" \notin stored.has THEN FromLegacyLimit(c0)
                 ELSE IF "customLimit" \notin stored.has THEN [c0 EXCEPT !.customLimit = 600]
                 ELSE c0
           c2 == IF "translation" \notin stored.has THEN FromLegacyTarget(c1)
                 ELSE IF "targetLang" \notin stored.has THEN [c1 EXCEPT !.targetLang = c1.active]
                 ELSE c1
           c3 == IF "insertion" \in stored.has THEN c2 ELSE FromLegacyOutput(c2)
           c4 == IF "hotkeys" \in stored.has THEN MirrorHotkeys(c3) ELSE FromLegacyHotkeys(c3)
<1>0. FromStored(stored) = Normal(c4)
  BY Zenon DEF FromStored
<1>1. Storable(c1)
  <2> DEFINE l == c0.limit
             x1 == [c0 EXCEPT !.limitMode = "auto", !.customLimit = 600]
             x2 == [c0 EXCEPT !.limitMode = "custom", !.customLimit = l]
             x3 == [c0 EXCEPT !.customLimit = 600]
  <2>1. c1 \in {x1, x2, x3, c0}
    BY Zenon DEF FromLegacyLimit
  <2>2. Storable(c0)
    OBVIOUS
  <2> HIDE DEF c0, c1
  <2>3. DOMAIN c0 = Fields
    BY <2>2 DEF Storable, IsConfig
  <2>4. l \in Nat
    BY <2>2 DEF Storable
  <2> HIDE DEF l
  <2> DEFINE m == [c0 EXCEPT !.limitMode = "auto"]
             n == [c0 EXCEPT !.limitMode = "custom"]
  <2>5. Storable(m) /\ Storable(n)
    <3>1. Storable(m)
      BY <2>2, <2>3, FieldsAre DEF Storable, Bound, IsConfig
    <3>2. Storable(n)
      BY <2>2, <2>3, FieldsAre DEF Storable, Bound, IsConfig
    <3> QED  BY <3>1, <3>2
  <2>6. ASSUME NEW d, Storable(d), NEW v \in Nat
        PROVE  Storable([d EXCEPT !.customLimit = v])
    <3>1. DOMAIN d = Fields
      BY <2>6 DEF Storable, IsConfig
    <3> QED  BY <2>6, <3>1, FieldsAre DEF Storable, Bound, IsConfig
  <2>7. x1 = [m EXCEPT !.customLimit = 600] /\ x2 = [n EXCEPT !.customLimit = l]
    BY Zenon
  <2> HIDE DEF m, n, x1, x2
  <2>8. Storable(x1) /\ Storable(x2) /\ Storable(x3)
    BY <2>2, <2>4, <2>5, <2>6, <2>7
  <2> QED  BY <2>1, <2>2, <2>8
<1> HIDE DEF c1
<1>2. Storable(c2)
  <2> DEFINE v  == c1.active
             la == IF c1.targetLang \in Languages20 THEN c1.targetLang ELSE "en"
             ts == <<la>>
             x1 == [c1 EXCEPT !.targets = ts, !.active = la]
             x2 == [c1 EXCEPT !.targetLang = v]
  <2>1. c2 \in {x1, x2, c1}
    BY Zenon DEF FromLegacyTarget
  <2> HIDE DEF c2, v
  <2>3. DOMAIN c1 = Fields
    BY <1>1 DEF Storable, IsConfig
  <2>4. ts \in Seq(ToSet(ts))
    BY DEF ToSet
  <2> HIDE DEF ts, la
  <2>5. Storable(x1)
    BY <1>1, <2>3, <2>4, FieldsAre DEF Storable, Bound, IsConfig
  <2>6. Storable(x2)
    BY <1>1, <2>3, FieldsAre DEF Storable, Bound, IsConfig
  <2> QED  BY <1>1, <2>1, <2>5, <2>6
<1> HIDE DEF c2
<1>3. Storable(c3)
  <2> DEFINE v == IF c2.outputMode = "clipboard" THEN "paste" ELSE "auto"
             x == [c2 EXCEPT !.insertion = v]
  <2>1. c3 \in {x, c2}
    BY Zenon DEF FromLegacyOutput
  <2> HIDE DEF c3, v
  <2>3. DOMAIN c2 = Fields
    BY <1>2 DEF Storable, IsConfig
  <2>5. Storable(x)
    BY <1>2, <2>3, FieldsAre DEF Storable, Bound, IsConfig
  <2> QED  BY <1>2, <2>1, <2>5
<1> HIDE DEF c3
<1>4. Loadable(MirrorHotkeys(c3))
  <2> DEFINE d == MirrorHotkeys(c3)
  <2>1. /\ IsConfig(d)
        /\ d.list \in BindingLists /\ d.list # <<>> /\ d.dictation = d.list[1]
        /\ d.asks \in BindingLists /\ d.ask = FirstOf(d.asks)
        /\ SameRecording(c3, d) /\ SameTranslation(c3, d) /\ SameScenes(c3, d)
    BY <1>3, MirrorIs DEF Storable
  <2> HIDE DEF d
  <2>2. InStep(d)
    BY <2>1 DEF BindingLists, InStep
  <2> QED  BY <1>3, <2>1, <2>2 DEF Loadable, Storable, SameRecording, SameTranslation, SameScenes, d
<1>5. Loadable(FromLegacyHotkeys(c3))
  <2> DEFINE retired == c3.hotkey = "retired" /\ c3.hotkeyMode = "toggle"
             b    == IF retired \/ c3.hotkey = "invalid" THEN "default" ELSE c3.hotkey
             ask  == IF c3.askHotkey = "invalid" THEN DefaultAsk ELSE c3.askHotkey
             bs   == <<b>>
             asks == Lifted(ask)
             mode == IF retired THEN "hold" ELSE c3.hotkeyMode
             d    == [c3 EXCEPT !.hotkey = b, !.dictation = b, !.list = bs, !.ask = ask,
                                !.asks = asks, !.mode = mode]
  <2>1. FromLegacyHotkeys(c3) = d
    BY Zenon DEF FromLegacyHotkeys
  <2>2. b \in Bindings /\ b # "invalid" /\ ask \in Bindings \cup {Nothing} /\ ask # "invalid"
    BY <1>3 DEF Storable, Bindings, DefaultAsk, Nothing
  <2> HIDE DEF b, ask, mode
  <2>3. bs \in Seq(Bindings) /\ bs # <<>> /\ bs[1] = b
    BY <2>2
  <2>4. asks \in Seq(Bindings) /\ FirstOf(asks) = ask
    BY <2>2, LiftedIs DEF BindingLists
  <2> HIDE DEF bs, asks
  <2>5. DOMAIN c3 = Fields
    BY <1>3 DEF Storable, IsConfig
  <2>6. /\ IsConfig(d) /\ d.dictation = b /\ d.list = bs /\ d.ask = ask /\ d.asks = asks
        /\ SameRecording(c3, d) /\ SameTranslation(c3, d) /\ SameScenes(c3, d)
    BY <2>5, FieldsAre DEF IsConfig, SameRecording, SameTranslation, SameScenes
  <2> HIDE DEF d
  <2>7. InStep(d)
    BY <2>2, <2>3, <2>4, <2>6 DEF InStep
  <2> QED  BY <1>3, <2>1, <2>6, <2>7 DEF Loadable, Storable, SameRecording, SameTranslation, SameScenes
<1>6. Loadable(c4)
  BY <1>4, <1>5, Zenon
<1> HIDE DEF c4
<1> QED  BY <1>0, <1>6, NormalIs DEF NormalOf

\* What a save has stored is read back as it is.
LEMMA ReadAgain ==
  ASSUME NEW c, IsNormal(c)
  PROVE  FromStored(Stored(c)) = c
<1>1. Stored(c).config = c /\ Stored(c).has = NewFields
  BY DEF Stored
<1>2. /\ "limitMode" \in NewFields /\ "customLimit" \in NewFields /\ "translation" \in NewFields
      /\ "targetLang" \in NewFields /\ "insertion" \in NewFields /\ "hotkeys" \in NewFields
  BY DEF NewFields
<1>3. FromStored(Stored(c)) = Normal(MirrorHotkeys(c))
  BY <1>1, <1>2, Zenon DEF FromStored
<1>4. IsConfig(c) /\ Bound(c) /\ HotkeysOK(c)
  BY NormalIsStorable DEF Storable, IsNormal
<1>5. MirrorHotkeys(c) = c
  BY <1>4, MirrorIs
<1>6. Normal(c) = c
  BY NormalIsLoadable, NormalIs DEF NormalOf
<1> QED  BY <1>3, <1>5, <1>6

-----------------------------------------------------------------------------
(* What the commands make of a normal config                                 *)

Mirrored(c) ==
  /\ c.list \in Seq(Bindings) /\ c.list # <<>> /\ c.dictation = c.list[1]
  /\ c.asks \in Seq(Bindings) /\ c.ask = FirstOf(c.asks)
  /\ c.hotkey = c.dictation /\ c.askHotkey = c.ask /\ c.hotkeyMode = c.mode

\* While all mirrors agree, none of them overrides another when it is saved.
LEMMA SyncIs ==
  ASSUME NEW c, IsConfig(c), Mirrored(c), ValidHotkeys(SyncHotkeys(c))
  PROVE  SyncHotkeys(c) = c /\ c.list[1] # "invalid"
<1> DEFINE d == DefaultConfig
           lists   == c.list # d.list \/ c.asks # d.asks
           scalars == c.dictation # d.dictation \/ c.ask # d.ask
           typed   == lists \/ scalars \/ c.mode # d.mode
           legacy  == c.hotkey # d.hotkey \/ c.askHotkey # d.askHotkey \/ c.hotkeyMode # d.hotkeyMode
           s1 == [c EXCEPT !.list = ReplaceFirst(@, c.dictation), !.asks = ReplaceFirst(@, c.ask)]
           s2 == [c EXCEPT !.dictation = IF c.list = <<>> THEN @ ELSE c.list[1], !.ask = FirstOf(c.asks)]
           synced == IF scalars /\ ~lists THEN s1 ELSE s2
           old == FromLegacyHotkeys(c)
           o   == [old EXCEPT !.list = ReplaceFirst(c.list, old.dictation), !.asks = ReplaceFirst(c.asks, old.ask)]
           h == IF synced.dictation = "invalid" THEN synced.hotkey ELSE synced.dictation
           k == IF synced.ask = "invalid" THEN Nothing ELSE synced.ask
           m == synced.mode
           n == [synced EXCEPT !.hotkey = h, !.askHotkey = k, !.hotkeyMode = m]
<1>1. SyncHotkeys(c) = IF typed \/ ~legacy THEN n ELSE o
  BY Zenon DEF SyncHotkeys
<1>2. /\ d.list = <<"default">> /\ d.dictation = "default" /\ d.asks = <<DefaultAsk>> /\ d.ask = DefaultAsk
      /\ d.hotkey = "default" /\ d.askHotkey = DefaultAsk /\ d.mode = "hold" /\ d.hotkeyMode = "hold"
  BY DEF DefaultConfig
<1>3. c.list = d.list => c.dictation = d.dictation
  BY <1>2 DEF Mirrored
<1>4. c.asks = d.asks => c.ask = d.ask
  <2>1. <<DefaultAsk>> \in Seq(Bindings) /\ <<DefaultAsk>> # <<>> /\ <<DefaultAsk>>[1] = DefaultAsk
    BY DEF Bindings, DefaultAsk
  <2>2. FirstOf(<<DefaultAsk>>) = DefaultAsk
    BY <2>1, FirstIs
  <2> QED  BY <1>2, <2>2 DEF Mirrored
<1>5. c.hotkey = c.dictation /\ c.askHotkey = c.ask /\ c.hotkeyMode = c.mode
  BY DEF Mirrored
<1>6. typed \/ ~legacy
  BY <1>2, <1>5
<1>7. ~(scalars /\ ~lists)
  BY <1>3, <1>4
<1>8. SyncHotkeys(c) = n /\ synced = s2
  BY <1>1, <1>6, <1>7, Zenon
<1>9. s2 = c
  <2> DEFINE v == IF c.list = <<>> THEN c.dictation ELSE c.list[1]
             w == FirstOf(c.asks)
  <2>1. s2 = [[c EXCEPT !.dictation = v] EXCEPT !.ask = w]
    BY Zenon
  <2>2. v = c.dictation /\ w = c.ask
    BY DEF Mirrored
  <2> HIDE DEF v, w, s2
  <2>3. [c EXCEPT !.dictation = v] = c /\ [c EXCEPT !.ask = w] = c
    BY <2>2, SetAgain DEF IsConfig
  <2> QED  BY <2>1, <2>3
<1>10. synced = c
  BY <1>8, <1>9
<1> HIDE DEF synced, s1, s2, o, old
<1>11. DOMAIN c = Fields
  BY DEF IsConfig
<1>12. n.list = c.list /\ n.asks = c.asks
  <2> HIDE DEF h, k, m
  <2> QED  BY <1>10, <1>11, FieldsAre
<1>13. "invalid" \notin BindingsOf(c.list) \cup BindingsOf(c.asks)
  BY <1>8, <1>12 DEF ValidHotkeys
<1>14. c.list[1] # "invalid"
  <2>1. c.list[1] \in ToSet(c.list)
    <3>1. 1 \in DOMAIN c.list
      BY DEF Mirrored
    <3> QED  BY <3>1 DEF ToSet
  <2>2. Identity("invalid") = "invalid"
    BY DEF Identity
  <2> QED  BY <1>13, <2>1, <2>2 DEF BindingsOf
<1>15. c.ask # "invalid"
  <2>1. c.asks \in Seq(Bindings) /\ c.ask = FirstOf(c.asks)
    BY DEF Mirrored
  <2>2. CASE c.asks = <<>>
    <3>1. FirstOf(c.asks) = Nothing
      BY <2>2 DEF FirstOf
    <3> QED  BY <2>1, <3>1 DEF Nothing
  <2>3. CASE c.asks # <<>>
    <3>1. 1 \in DOMAIN c.asks /\ FirstOf(c.asks) = c.asks[1]
      BY <2>1, <2>3 DEF FirstOf
    <3>2. c.ask \in ToSet(c.asks)
      BY <2>1, <3>1 DEF ToSet
    <3>3. Identity("invalid") = "invalid"
      BY DEF Identity
    <3> QED  BY <1>13, <3>2, <3>3 DEF BindingsOf
  <2> QED  BY <2>2, <2>3
<1>16. h = c.hotkey /\ k = c.askHotkey /\ m = c.hotkeyMode
  BY <1>10, <1>14, <1>15 DEF Mirrored
<1> HIDE DEF h, k, m
<1>17. n = c
  <2>1. n = [[[c EXCEPT !.hotkey = h] EXCEPT !.askHotkey = k] EXCEPT !.hotkeyMode = m]
    BY <1>10
  <2> HIDE DEF n
  <2>2. [c EXCEPT !.hotkey = h] = c /\ [c EXCEPT !.askHotkey = k] = c /\ [c EXCEPT !.hotkeyMode = m] = c
    BY <1>16, SetAgain DEF IsConfig
  <2> QED  BY <2>1, <2>2
<1> QED  BY <1>8, <1>14, <1>17

\* What update_config makes of a config that may be saved.
Becomes(x, y) ==
  /\ IsNormal(y)
  /\ y.provider = x.provider /\ y.limitMode = x.limitMode /\ y.limit = Limit(x)
  /\ y.targets = x.targets /\ y.active = x.targetLang
  /\ y.asks = NormalList(x.asks)
  /\ x.dictation # "retired" => y.list = NormalList(x.list) /\ y.dictation = x.dictation /\ y.mode = x.mode
  /\ y.insertion = x.insertion
  /\ y.scenes = x.scenes
  /\ x.assigned \in KnownScenes(x) \cup {Nothing} => y.assigned = x.assigned

\* What the settings page may send.
Sendable(x) ==
  /\ IsConfig(x) /\ Mirrored(x)
  /\ x.provider \in Providers /\ x.limitMode \in {"auto", "custom"} /\ x.customLimit \in Nat
  /\ x.targets \in TargetLists /\ x.targetLang \in ToSet(x.targets)
  /\ x.scenes \subseteq CustomScenes /\ x.insertion \in Insertions

\* Normalising what a command or the page sends.
LEMMA NormalOfSent ==
  ASSUME NEW x, Sendable(x), x.list[1] # "invalid"
  PROVE  Becomes(x, Normal(x)) /\ SameRecording(x, Normal(x))
<1>1. x.targets \in Seq(ToSet(x.targets))
  BY DEF Sendable, TargetLists, ToSet
<1>2. InStep(x)
  BY DEF Sendable, Mirrored, InStep
<1>3. Loadable(x)
  BY <1>1, <1>2 DEF Sendable, Loadable
<1>4. NormalOf(x, Normal(x))
  BY <1>3, NormalIs
<1> DEFINE n == Normal(x)
<1> HIDE DEF n
<1>5. NormalOf(x, n)
  BY <1>4 DEF n
<1>6. Becomes(x, n) /\ SameRecording(x, n)
  BY <1>5 DEF NormalOf, Becomes, Sendable, SameRecording
<1> QED  BY <1>6 DEF n

\* A limit that is clamped stays the limit.
LEMMA LimitAgain ==
  ASSUME NEW c, NEW d, c.provider \in Providers, c.limitMode \in {"auto", "custom"}, c.customLimit \in Nat,
         \/ SameRecording(c, d)
         \/ /\ d.provider = c.provider /\ d.limitMode = c.limitMode
           /\ d.customLimit = IF c.limitMode = "custom" THEN Limit(c)
                              ELSE IF c.customLimit = 0 THEN 600 ELSE c.customLimit
  PROVE  Limit(d) = Limit(c) /\ d.customLimit \in Nat
<1>1. Limit(c) \in Nat /\ Limit(c) <= HardMax[c.provider] /\ HardMax[c.provider] \in Nat
      /\ HardMax[c.provider] >= MinCustom
  BY LimitIs
<1>2. CASE SameRecording(c, d)
  BY <1>2 DEF SameRecording, Limit
<1>3. CASE /\ d.provider = c.provider /\ d.limitMode = c.limitMode
           /\ d.customLimit = IF c.limitMode = "custom" THEN Limit(c)
                              ELSE IF c.customLimit = 0 THEN 600 ELSE c.customLimit
  <2>1. CASE c.limitMode = "auto"
    BY <1>3, <2>1 DEF Limit
  <2>2. CASE c.limitMode = "custom"
    <3>1. Limit(c) >= MinCustom
      BY <1>1, <2>2 DEF Limit, Least, Greatest, MinCustom
    <3>2. Limit(d) = Least(Greatest(Limit(c), MinCustom), HardMax[c.provider])
      BY <1>3, <2>2 DEF Limit
    <3> QED  BY <1>1, <1>3, <2>2, <3>1, <3>2 DEF Least, Greatest, MinCustom
  <2> QED  BY <2>1, <2>2
<1> QED  BY <1>2, <1>3

\* Clamping the limit of what is normal touches only the recording.
LEMMA ClampedIs ==
  ASSUME NEW x, NEW n, Sendable(x), Becomes(x, n), SameRecording(x, n)
  PROVE  Becomes(x, ClampLimit(n))
<1> DEFINE v == IF n.limitMode = "custom" THEN Limit(n) ELSE IF n.customLimit = 0 THEN 600 ELSE n.customLimit
           l == Limit(n)
           y == [n EXCEPT !.limit = l]
           z == [y EXCEPT !.customLimit = v]
<1>1. ClampLimit(n) = z
  BY Zenon DEF ClampLimit
<1>2. n.provider \in Providers /\ n.limitMode \in {"auto", "custom"} /\ n.customLimit \in Nat
      /\ n.limit = l /\ l = Limit(x)
  BY LimitAgain DEF Becomes, IsNormal, RecordingOK, Sendable
<1>3. IsConfig(n)
  BY DEF Becomes, IsNormal, IsConfig, Fields
<1>4. y = n
  BY <1>2, <1>3, SetAgain DEF IsConfig
<1>5. \A d : d.provider = n.provider /\ d.limitMode = n.limitMode /\ d.customLimit = v =>
        Limit(d) = l /\ d.customLimit \in Nat
  BY <1>2, LimitAgain
<1> HIDE DEF l, y
<1>6. z = [n EXCEPT !.customLimit = v]
  BY <1>4
<1>7. v = v /\ DOMAIN n = Fields
  BY <1>3 DEF IsConfig
<1> HIDE DEF v, z
<1>8. /\ IsConfig(z) /\ z.customLimit = v /\ z.limit = n.limit /\ z.provider = n.provider /\ z.limitMode = n.limitMode
      /\ SameTranslation(n, z) /\ SameHotkeys(n, z) /\ SameInsertion(n, z) /\ SameScenes(n, z)
  BY <1>3, <1>6, <1>7, FieldsAre DEF IsConfig, SameTranslation, SameHotkeys, SameBindings, SameMirrors,
                                     SameInsertion, SameScenes
<1>9. Limit(z) = l /\ z.customLimit \in Nat
  BY <1>5, <1>8
<1>10. IsNormal(z)
  <2>1. RecordingOK(z)
    BY <1>2, <1>8, <1>9 DEF Becomes, IsNormal, RecordingOK
  <2>2. TranslationOK(z)
    BY <1>8 DEF Becomes, IsNormal, TranslationOK, SameTranslation
  <2>3. HotkeysOK(z)
    BY <1>8 DEF Becomes, IsNormal, HotkeysOK, SameHotkeys, SameBindings, SameMirrors
  <2>4. ScenesOK(z)
    BY <1>8 DEF Becomes, IsNormal, ScenesOK, SameScenes, KnownScenes
  <2>5. InsertionOK(z)
    BY <1>8 DEF Becomes, IsNormal, InsertionOK, SameInsertion
  <2> QED  BY <1>8, <2>1, <2>2, <2>3, <2>4, <2>5 DEF IsNormal, IsConfig, Fields
<1>11. Becomes(x, z)
  BY <1>8, <1>10 DEF Becomes, SameTranslation, SameHotkeys, SameBindings, SameInsertion, SameScenes
<1> QED  BY <1>1, <1>11

\* All that a save does to what it is given before it stores it.
LEMMA PreparedIs ==
  ASSUME NEW x, Sendable(x), CanBeSaved(x)
  PROVE  Becomes(x, Prepared(x))
<1>1. SyncHotkeys(x) = x /\ x.list[1] # "invalid"
  BY SyncIs DEF Sendable, CanBeSaved
<1>2. Prepared(x) = ClampLimit(Normal(x))
  BY <1>1 DEF Prepared
<1> QED  BY <1>1, <1>2, NormalOfSent, ClampedIs

-----------------------------------------------------------------------------
(* Each edit is in force in the config that the command saves                *)

\* What it is for each kind of edit to be in force.
LEMMA ShowsEach ==
  ASSUME NEW c, NEW e
  PROVE  /\ e.what = "provider" => (Shows(c, e) <=> c.provider = e.to /\ c.limit <= HardMax[e.to])
         /\ e.what = "limit" =>
              (Shows(c, e) <=> c.limit = Least(Greatest(e.to, MinCustom), HardMax[c.provider]))
         /\ e.what = "targets" => (Shows(c, e) <=> c.targets = e.to /\ c.active = e.to[1])
         /\ e.what = "target" => (Shows(c, e) <=> c.active = e.to)
         /\ e.what = "list" =>
              (Shows(c, e) <=> "retired" \in ToSet(e.to) \/ (c.list = NormalList(e.to) /\ c.hotkey = c.list[1]))
         /\ e.what = "asks" => (Shows(c, e) <=> c.asks = NormalList(e.to) /\ c.askHotkey = FirstOf(c.asks))
         /\ e.what = "mode" => (Shows(c, e) <=> c.hotkeyMode = e.to)
         /\ e.what = "insertion" => (Shows(c, e) <=> c.insertion = e.to)
         /\ e.what = "scenes" => (Shows(c, e) <=> c.scenes = e.to /\ c.assigned \in KnownScenes(c) \cup {Nothing})
         /\ e.what = "assign" => (Shows(c, e) <=> SceneInForce(c, FALSE, Nothing) = e.to)
         /\ e.what = "hotkey" => (Shows(c, e) <=> e.to = "retired" \/ c.hotkey = e.to)
         /\ e.what = "askHotkey" => (Shows(c, e) <=> c.askHotkey = e.to)
         /\ e.what = "resave" => Shows(c, e)
BY Zenon DEF Shows

\* What each group of settings says.
LEMMA SaysEach ==
  ASSUME NEW c
  PROVE  /\ Says(c, "recording")   = <<c.provider, c.limitMode, c.limit>>
         /\ Says(c, "translation") = <<c.targets, c.active>>
         /\ Says(c, "hotkeys")     = <<c.list, c.asks, c.hotkeyMode>>
         /\ Says(c, "scenes")      = <<c.scenes, c.assigned>>
         /\ Says(c, "insertion")   = <<c.insertion, c.outputMode>>
BY DEF Says

\* The group of each kind of edit.
LEMMA GroupEach ==
  /\ \A what \in {"provider", "limit"} : Group(what) = "recording"
  /\ \A what \in {"targets", "target"} : Group(what) = "translation"
  /\ \A what \in {"list", "asks", "mode", "hotkey", "askHotkey"} : Group(what) = "hotkeys"
  /\ \A what \in {"scenes", "assign"} : Group(what) = "scenes"
  /\ \A what \in {"insertion", "resave"} : Group(what) = what
BY DEF Group

\* The groups in which two configs agree.
Agree(c, d) ==
  { g \in Groups :
      /\ g = "recording" => d.provider = c.provider /\ d.limitMode = c.limitMode /\ d.limit = c.limit
      /\ g = "translation" => d.targets = c.targets /\ d.active = c.active
      /\ g = "hotkeys" => d.list = c.list /\ d.asks = c.asks /\ d.hotkeyMode = c.hotkeyMode
      /\ g = "scenes" => d.scenes = c.scenes /\ d.assigned = c.assigned
      /\ g = "insertion" => d.insertion = c.insertion /\ d.outputMode = c.outputMode }

\* Configurations that agree on a group say the same of it.
LEMMA AgreeSays ==
  ASSUME NEW c, NEW d, NEW g \in Agree(c, d)
  PROVE  Says(d, g) = Says(c, g)
<1>1. g \in {"recording", "translation", "hotkeys", "scenes", "insertion"}
  BY DEF Agree, Groups
<1> QED  BY <1>1, SaysEach DEF Agree

\* A save that changes no more than one group.
LEMMA Changes ==
  ASSUME NEW c, NEW d, NEW e, Shows(d, e), Groups \ {Group(e.what)} \subseteq Agree(c, d)
  PROVE  InForce(d, c, e)
BY AgreeSays DEF InForce

\* A group that an edit leaves alone is left alone by the save.
LEMMA Untouched ==
  ASSUME NEW c, NEW x, NEW y, IsNormal(c), Becomes(x, y)
  PROVE  /\ SameRecording(c, x) => "recording" \in Agree(c, y)
         /\ SameTranslation(c, x) => "translation" \in Agree(c, y)
         /\ SameHotkeys(c, x) => "hotkeys" \in Agree(c, y)
         /\ SameScenes(c, x) => "scenes" \in Agree(c, y)
         /\ SameInsertion(c, x) => "insertion" \in Agree(c, y)
<1>1. SameRecording(c, x) => "recording" \in Agree(c, y)
  <2>1. SameRecording(c, x) => Limit(x) = c.limit
    BY DEF SameRecording, Limit, IsNormal, RecordingOK
  <2> QED  BY <2>1 DEF SameRecording, Becomes, Agree, Groups
<1>2. SameTranslation(c, x) => "translation" \in Agree(c, y)
  BY DEF SameTranslation, Becomes, Agree, Groups, IsNormal, TranslationOK
<1>3. SameHotkeys(c, x) => "hotkeys" \in Agree(c, y)
  <2>1. c.list \in Seq(Bindings) /\ c.asks \in Seq(Bindings)
    BY DEF IsNormal, HotkeysOK, BindingLists
  <2>2. NormalList(c.list) = c.list /\ NormalList(c.asks) = c.asks
    BY <2>1, NormalListIs DEF IsNormal, HotkeysOK
  <2>3. c.dictation # "retired" /\ c.hotkeyMode = c.mode /\ y.hotkeyMode = y.mode
    BY DEF IsNormal, HotkeysOK, Becomes
  <2>4. SameHotkeys(c, x) => y.list = c.list /\ y.asks = c.asks /\ y.mode = c.mode
    BY <2>2, <2>3 DEF SameHotkeys, SameBindings, Becomes
  <2> QED  BY <2>3, <2>4 DEF Agree, Groups
<1>4. SameScenes(c, x) => "scenes" \in Agree(c, y)
  <2>1. SameScenes(c, x) => x.assigned \in KnownScenes(x) \cup {Nothing}
    BY DEF SameScenes, KnownScenes, IsNormal, ScenesOK
  <2> QED  BY <2>1 DEF SameScenes, Becomes, Agree, Groups
<1>5. SameInsertion(c, x) => "insertion" \in Agree(c, y)
  BY DEF SameInsertion, Becomes, Agree, Groups, IsNormal, InsertionOK
<1> QED  BY <1>1, <1>2, <1>3, <1>4, <1>5

\* What is normal can be sent, mirrors included.
LEMMA NormalIsSendable ==
  ASSUME NEW c, IsNormal(c)
  PROVE  Sendable(c) /\ c.list[1] # "invalid" /\ c.hotkey # "retired"
<1>1. IsConfig(c)
  BY DEF IsNormal, IsConfig, Fields
<1>2. c.list \in Seq(Bindings) /\ c.asks \in Seq(Bindings) /\ c.list[1] # "invalid"
  BY DEF IsNormal, HotkeysOK, BindingLists
<1> QED  BY <1>1, <1>2 DEF IsNormal, RecordingOK, TranslationOK, HotkeysOK, ScenesOK, InsertionOK,
                           Mirrored, Sendable

WithLimit(c, v) == [c EXCEPT !.limitMode = "custom", !.customLimit = v]
WithTargets(c, v, f) == [c EXCEPT !.targets = v, !.active = f, !.targetLang = f]
WithList(c, v, f) == [c EXCEPT !.list = v, !.dictation = f, !.hotkey = f]
WithAsks(c, v, f) == [c EXCEPT !.asks = v, !.ask = f, !.askHotkey = f]
WithMode(c, v) ==
  [c EXCEPT !.mode = v, !.hotkeyMode = v, !.list = <<c.hotkey>>, !.asks = Lifted(c.askHotkey)]

\* The edits of the recording limit.
LEMMA ProviderEdit ==
  ASSUME NEW c, IsNormal(c), NEW v \in Providers, CanBeSaved([c EXCEPT !.provider = v])
  PROVE  LET y == Prepared([c EXCEPT !.provider = v])
         IN  /\ IsNormal(y) /\ y.provider = v /\ y.limit <= HardMax[v]
             /\ Groups \ {"recording"} \subseteq Agree(c, y)
<1> DEFINE x == [c EXCEPT !.provider = v]
           y == Prepared(x)
<1>1. IsConfig(c) /\ DOMAIN c = Fields
  BY NormalIsSendable DEF Sendable, IsConfig
<1>2. /\ IsConfig(x) /\ x.provider = v /\ x.limitMode = c.limitMode /\ x.customLimit = c.customLimit
      /\ SameTranslation(c, x) /\ SameHotkeys(c, x) /\ SameInsertion(c, x) /\ SameScenes(c, x)
  BY <1>1, FieldsAre DEF IsConfig, SameTranslation, SameHotkeys, SameBindings, SameMirrors, SameInsertion, SameScenes
<1>3. CanBeSaved(x)
  OBVIOUS
<1> HIDE DEF x
<1>4. Sendable(x)
  BY <1>2, NormalIsSendable DEF Sendable, Mirrored, SameTranslation, SameHotkeys, SameBindings, SameMirrors,
                                SameInsertion, SameScenes
<1>5. Becomes(x, y)
  BY <1>3, <1>4, PreparedIs
<1> HIDE DEF y
<1>6. {"translation", "hotkeys", "scenes", "insertion"} \subseteq Agree(c, y)
  BY <1>2, <1>5, Untouched
<1>7. y.limit <= HardMax[v]
  BY <1>2, <1>4, <1>5, LimitIs DEF Becomes, Sendable
<1> QED  BY <1>2, <1>5, <1>6, <1>7 DEF x, y, Groups, Becomes

\* The length of a recording: brought between the least and the most of its provider.
LEMMA LimitEdit ==
  ASSUME NEW c, IsNormal(c), NEW v \in Nat, CanBeSaved(WithLimit(c, v))
  PROVE  LET y == Prepared(WithLimit(c, v))
         IN  /\ IsNormal(y) /\ y.limit = Least(Greatest(v, MinCustom), HardMax[y.provider])
             /\ Groups \ {"recording"} \subseteq Agree(c, y)
<1> DEFINE x == WithLimit(c, v)
           y == Prepared(x)
<1>a. x = [c EXCEPT !.limitMode = "custom", !.customLimit = v] /\ CanBeSaved(x)
  BY Zenon DEF WithLimit
<1> HIDE DEF x
<1>1. IsConfig(c) /\ DOMAIN c = Fields
  BY NormalIsSendable DEF Sendable, IsConfig
<1>2. /\ IsConfig(x) /\ x.provider = c.provider /\ x.limitMode = "custom" /\ x.customLimit = v
      /\ SameTranslation(c, x) /\ SameHotkeys(c, x) /\ SameInsertion(c, x) /\ SameScenes(c, x)
  BY <1>a, <1>1, FieldsAre DEF IsConfig, SameTranslation, SameHotkeys, SameBindings, SameMirrors, SameInsertion, SameScenes
<1>4. Sendable(x)
  BY <1>2, NormalIsSendable DEF Sendable, Mirrored, SameTranslation, SameHotkeys, SameBindings, SameMirrors,
                                SameInsertion, SameScenes
<1>5. Becomes(x, y)
  BY <1>a, <1>4, PreparedIs
<1> HIDE DEF x, y
<1>6. {"translation", "hotkeys", "scenes", "insertion"} \subseteq Agree(c, y)
  BY <1>2, <1>5, Untouched
<1>7. y.limit = Least(Greatest(v, MinCustom), HardMax[y.provider])
  BY <1>2, <1>5 DEF Becomes, Limit
<1>8. IsNormal(y) /\ Groups \ {"recording"} \subseteq Agree(c, y)
  BY <1>5, <1>6 DEF Groups, Becomes
<1> QED  BY <1>7, <1>8 DEF x, y

\* The list of targets: its first becomes the active one.
LEMMA TargetsEdit ==
  ASSUME NEW c, IsNormal(c), NEW v \in TargetLists, NEW f, f = v[1],
         CanBeSaved(WithTargets(c, v, f))
  PROVE  LET y == Prepared(WithTargets(c, v, f))
         IN  IsNormal(y) /\ y.targets = v /\ y.active = f /\ Groups \ {"translation"} \subseteq Agree(c, y)
<1> DEFINE x == WithTargets(c, v, f)
           y == Prepared(x)
<1>a. x = [c EXCEPT !.targets = v, !.active = f, !.targetLang = f] /\ CanBeSaved(x)
  BY Zenon DEF WithTargets
<1> HIDE DEF x
<1>1. IsConfig(c) /\ DOMAIN c = Fields
  BY NormalIsSendable DEF Sendable, IsConfig
<1>2. /\ IsConfig(x) /\ x.targets = v /\ x.active = f /\ x.targetLang = f
      /\ SameRecording(c, x) /\ SameHotkeys(c, x) /\ SameInsertion(c, x) /\ SameScenes(c, x)
  BY <1>a, <1>1, FieldsAre DEF IsConfig, SameRecording, SameHotkeys, SameBindings, SameMirrors, SameInsertion, SameScenes
<1>3b. f \in ToSet(v)
  <2>1. 1 \in DOMAIN v
    BY DEF TargetLists
  <2> QED  BY <2>1 DEF ToSet
<1>4. Sendable(x)
  BY <1>2, <1>3b, NormalIsSendable DEF Sendable, Mirrored, SameRecording, SameHotkeys, SameBindings, SameMirrors,
                                SameInsertion, SameScenes
<1>5. Becomes(x, y)
  BY <1>a, <1>4, PreparedIs
<1> HIDE DEF x, y
<1>6. {"recording", "hotkeys", "scenes", "insertion"} \subseteq Agree(c, y)
  BY <1>2, <1>5, Untouched
<1>7. IsNormal(y) /\ y.targets = v /\ y.active = f /\ Groups \ {"translation"} \subseteq Agree(c, y)
  BY <1>2, <1>5, <1>6 DEF Groups, Becomes
<1> QED  BY <1>7 DEF x, y

\* The way of insertion.
LEMMA InsertionEdit ==
  ASSUME NEW c, IsNormal(c), NEW v \in Insertions, CanBeSaved([c EXCEPT !.insertion = v])
  PROVE  LET y == Prepared([c EXCEPT !.insertion = v])
         IN  IsNormal(y) /\ y.insertion = v /\ Groups \ {"insertion"} \subseteq Agree(c, y)
<1> DEFINE x == [c EXCEPT !.insertion = v]
           y == Prepared(x)
<1>1. IsConfig(c) /\ DOMAIN c = Fields
  BY NormalIsSendable DEF Sendable, IsConfig
<1>2. /\ IsConfig(x) /\ x.insertion = v
      /\ SameRecording(c, x) /\ SameTranslation(c, x) /\ SameHotkeys(c, x) /\ SameScenes(c, x)
  BY <1>1, FieldsAre DEF IsConfig, SameRecording, SameTranslation, SameHotkeys, SameBindings, SameMirrors, SameScenes
<1>3. CanBeSaved(x)
  OBVIOUS
<1> HIDE DEF x
<1>4. Sendable(x)
  BY <1>2, NormalIsSendable DEF Sendable, Mirrored, SameRecording, SameTranslation, SameHotkeys, SameBindings,
                                SameMirrors, SameScenes
<1>5. Becomes(x, y)
  BY <1>3, <1>4, PreparedIs
<1> HIDE DEF y
<1>6. {"recording", "translation", "hotkeys", "scenes"} \subseteq Agree(c, y)
  BY <1>2, <1>5, Untouched
<1> QED  BY <1>2, <1>5, <1>6 DEF x, y, Groups, Becomes

\* The custom scenes: a scene that is gone is no longer assigned.
LEMMA ScenesEdit ==
  ASSUME NEW c, IsNormal(c), NEW v \in SUBSET CustomScenes, CanBeSaved([c EXCEPT !.scenes = v])
  PROVE  LET y == Prepared([c EXCEPT !.scenes = v])
         IN  IsNormal(y) /\ y.scenes = v /\ Groups \ {"scenes"} \subseteq Agree(c, y)
<1> DEFINE x == [c EXCEPT !.scenes = v]
           y == Prepared(x)
<1>1. IsConfig(c) /\ DOMAIN c = Fields
  BY NormalIsSendable DEF Sendable, IsConfig
<1>2. /\ IsConfig(x) /\ x.scenes = v
      /\ SameRecording(c, x) /\ SameTranslation(c, x) /\ SameHotkeys(c, x) /\ SameInsertion(c, x)
  BY <1>1, FieldsAre DEF IsConfig, SameRecording, SameTranslation, SameHotkeys, SameBindings, SameMirrors, SameInsertion
<1>3. CanBeSaved(x)
  OBVIOUS
<1> HIDE DEF x
<1>4. Sendable(x)
  BY <1>2, NormalIsSendable DEF Sendable, Mirrored, SameRecording, SameTranslation, SameHotkeys, SameBindings,
                                SameMirrors, SameInsertion
<1>5. Becomes(x, y)
  BY <1>3, <1>4, PreparedIs
<1> HIDE DEF y
<1>6. {"recording", "translation", "hotkeys", "insertion"} \subseteq Agree(c, y)
  BY <1>2, <1>5, Untouched
<1> QED  BY <1>2, <1>5, <1>6 DEF x, y, Groups, Becomes

\* The edits of the bindings.
LEMMA ListEdit ==
  ASSUME NEW c, IsNormal(c), NEW v \in Seq(Bindings) \ {<<>>}, NEW f, f = v[1],
         CanBeSaved(WithList(c, v, f))
  PROVE  LET y == Prepared(WithList(c, v, f))
         IN  /\ IsNormal(y) /\ Groups \ {"hotkeys"} \subseteq Agree(c, y)
             /\ "retired" \notin ToSet(v) => y.list = NormalList(v) /\ y.hotkey = y.list[1]
<1> DEFINE x == WithList(c, v, f)
           y == Prepared(x)
<1>a. x = [c EXCEPT !.list = v, !.dictation = f, !.hotkey = f] /\ CanBeSaved(x)
  BY Zenon DEF WithList
<1> HIDE DEF x
<1>1. IsConfig(c) /\ DOMAIN c = Fields
  BY NormalIsSendable DEF Sendable, IsConfig
<1>2. /\ IsConfig(x) /\ x.list = v /\ x.dictation = f /\ x.hotkey = f
      /\ x.asks = c.asks /\ x.ask = c.ask /\ x.askHotkey = c.askHotkey /\ x.mode = c.mode /\ x.hotkeyMode = c.hotkeyMode
      /\ SameRecording(c, x) /\ SameTranslation(c, x) /\ SameInsertion(c, x) /\ SameScenes(c, x)
  BY <1>a, <1>1, FieldsAre DEF IsConfig, SameRecording, SameTranslation, SameInsertion, SameScenes
<1>5. Sendable(x)
  BY <1>2, NormalIsSendable DEF Sendable, Mirrored, SameRecording, SameTranslation, SameInsertion, SameScenes
<1>6. Becomes(x, y)
  BY <1>a, <1>5, PreparedIs
<1> HIDE DEF x, y
<1>7. {"recording", "translation", "insertion", "scenes"} \subseteq Agree(c, y)
  BY <1>2, <1>6, Untouched
<1>8. ASSUME "retired" \notin ToSet(v)
      PROVE  y.list = NormalList(v) /\ y.hotkey = y.list[1]
  <2>1. f # "retired"
    <3>1. 1 \in DOMAIN v
      OBVIOUS
    <3> QED  BY <1>8, <3>1 DEF ToSet
  <2> QED  BY <1>2, <1>6, <2>1 DEF Becomes, IsNormal, HotkeysOK
<1>9. IsNormal(y) /\ Groups \ {"hotkeys"} \subseteq Agree(c, y)
  BY <1>6, <1>7 DEF Groups, Becomes
<1> QED  BY <1>8, <1>9 DEF x, y

\* The bindings of Ask.
LEMMA AsksEdit ==
  ASSUME NEW c, IsNormal(c), NEW v \in Seq(Bindings), NEW f, f = FirstOf(v),
         CanBeSaved(WithAsks(c, v, f))
  PROVE  LET y == Prepared(WithAsks(c, v, f))
         IN  /\ IsNormal(y) /\ Groups \ {"hotkeys"} \subseteq Agree(c, y)
             /\ y.asks = NormalList(v) /\ y.askHotkey = FirstOf(y.asks)
<1> DEFINE x == WithAsks(c, v, f)
           y == Prepared(x)
<1>a. x = [c EXCEPT !.asks = v, !.ask = f, !.askHotkey = f] /\ CanBeSaved(x)
  BY Zenon DEF WithAsks
<1> HIDE DEF x
<1>1. IsConfig(c) /\ DOMAIN c = Fields
  BY NormalIsSendable DEF Sendable, IsConfig
<1>2. /\ IsConfig(x) /\ x.asks = v /\ x.ask = f /\ x.askHotkey = f /\ x.list = c.list /\ x.dictation = c.dictation
      /\ x.hotkey = c.hotkey /\ x.mode = c.mode /\ x.hotkeyMode = c.hotkeyMode
      /\ SameRecording(c, x) /\ SameTranslation(c, x) /\ SameInsertion(c, x) /\ SameScenes(c, x)
  BY <1>a, <1>1, FieldsAre DEF IsConfig, SameRecording, SameTranslation, SameInsertion, SameScenes
<1>5. Sendable(x)
  BY <1>2, NormalIsSendable DEF Sendable, Mirrored, SameRecording, SameTranslation, SameInsertion, SameScenes
<1>6. Becomes(x, y)
  BY <1>a, <1>5, PreparedIs
<1> HIDE DEF x, y
<1>7. {"recording", "translation", "insertion", "scenes"} \subseteq Agree(c, y)
  BY <1>2, <1>6, Untouched
<1>8. IsNormal(y) /\ y.asks = NormalList(v) /\ Groups \ {"hotkeys"} \subseteq Agree(c, y)
  BY <1>2, <1>6, <1>7 DEF Groups, Becomes
<1>9. y.askHotkey = FirstOf(y.asks)
  BY <1>8 DEF IsNormal, HotkeysOK
<1> QED  BY <1>8, <1>9 DEF x, y

\* Hold or toggle: the page sends the bindings again with it.
LEMMA ModeEdit ==
  ASSUME NEW c, IsNormal(c), NEW v, CanBeSaved(WithMode(c, v))
  PROVE  LET y == Prepared(WithMode(c, v))
         IN  IsNormal(y) /\ Groups \ {"hotkeys"} \subseteq Agree(c, y) /\ y.hotkeyMode = v
<1> DEFINE l == <<c.hotkey>>
           a == Lifted(c.askHotkey)
           x == WithMode(c, v)
           y == Prepared(x)
<1>a. x = [c EXCEPT !.mode = v, !.hotkeyMode = v, !.list = l, !.asks = a] /\ CanBeSaved(x)
  BY Zenon DEF WithMode
<1>b. l = <<c.hotkey>> /\ a = Lifted(c.askHotkey)
  OBVIOUS
<1> HIDE DEF x, l, a
<1>1. IsConfig(c) /\ DOMAIN c = Fields
  BY NormalIsSendable DEF Sendable, IsConfig
<1>2. /\ IsConfig(x) /\ x.mode = v /\ x.hotkeyMode = v /\ x.list = l /\ x.asks = a /\ x.ask = c.ask
      /\ x.askHotkey = c.askHotkey /\ x.dictation = c.dictation /\ x.hotkey = c.hotkey
      /\ SameRecording(c, x) /\ SameTranslation(c, x) /\ SameInsertion(c, x) /\ SameScenes(c, x)
  BY <1>a, <1>1, FieldsAre DEF IsConfig, SameRecording, SameTranslation, SameInsertion, SameScenes
<1>5. /\ c.hotkey = c.dictation /\ c.dictation = c.list[1] /\ c.dictation # "retired"
      /\ c.askHotkey = c.ask /\ c.ask = FirstOf(c.asks)
      /\ c.list \in Seq(Bindings) /\ c.list # <<>> /\ c.asks \in Seq(Bindings \ {"invalid"})
  BY DEF IsNormal, HotkeysOK, BindingLists
<1>6. l \in Seq(Bindings) /\ l # <<>> /\ l[1] = c.dictation
  <2>1. c.hotkey \in Bindings
    BY <1>5
  <2> QED  BY <1>b, <1>5, <2>1
<1>7. a \in Seq(Bindings) /\ FirstOf(a) = c.ask
  <2>1. c.ask \in Bindings \cup {Nothing} /\ c.ask # "invalid"
    BY <1>5, FirstIs DEF FirstOf, Nothing, Bindings
  <2> QED  BY <1>b, <1>5, <2>1, LiftedIs DEF BindingLists
<1>8. Mirrored(x)
  BY <1>2, <1>5, <1>6, <1>7 DEF Mirrored
<1>9. Sendable(x)
  BY <1>2, <1>8, NormalIsSendable DEF Sendable, SameRecording, SameTranslation, SameInsertion, SameScenes
<1>10. Becomes(x, y)
  BY <1>a, <1>9, PreparedIs
<1> HIDE DEF x, y
<1>11. {"recording", "translation", "insertion", "scenes"} \subseteq Agree(c, y)
  BY <1>2, <1>10, Untouched
<1>12. IsNormal(y) /\ Groups \ {"hotkeys"} \subseteq Agree(c, y)
  BY <1>10, <1>11 DEF Groups, Becomes
<1>13. y.hotkeyMode = v
  BY <1>2, <1>5, <1>10 DEF Becomes, IsNormal, HotkeysOK
<1> QED  BY <1>12, <1>13 DEF x, y

\* A command for one hotkey replaces the first of its list.
LEMMA ReplacedIs ==
  ASSUME NEW list \in Seq(Bindings), NEW b \in Bindings \cup {Nothing}
  PROVE  /\ ReplaceFirst(list, b) \in Seq(Bindings) /\ FirstOf(ReplaceFirst(list, b)) = b
         /\ b \in Bindings => ReplaceFirst(list, b) # <<>> /\ ReplaceFirst(list, b)[1] = b
<1>1. CASE b = Nothing
  BY <1>1 DEF ReplaceFirst, FirstOf, Nothing, Bindings
<1>2. CASE b \in Bindings
  <2> DEFINE r == ReplaceFirst(list, b)
  <2>1. b # Nothing
    BY <1>2 DEF Nothing, Bindings
  <2>2. r \in Seq(Bindings) /\ r # <<>> /\ r[1] = b
    <3>1. CASE list = <<>>
      BY <1>2, <2>1, <3>1 DEF ReplaceFirst
    <3>2. CASE list # <<>>
      <4> DEFINE s == Tail(list)
                 one == <<b>>
      <4>1. r = one \o s
        BY <2>1, <3>2 DEF ReplaceFirst
      <4>2. s \in Seq(Bindings) /\ one \in Seq(Bindings) /\ Len(one) = 1 /\ one[1] = b
        BY <1>2, <3>2
      <4> HIDE DEF r, s, one
      <4>3. one \o s \in Seq(Bindings) /\ (one \o s)[1] = one[1] /\ Len(one \o s) > 0
        <5>1. /\ one \o s \in Seq(Bindings) /\ Len(one \o s) = Len(one) + Len(s) /\ Len(s) \in Nat
              /\ \A i \in 1 .. Len(one) : (one \o s)[i] = one[i]
          BY <4>2, Joined
        <5>2. 1 \in 1 .. Len(one) /\ Len(one) + Len(s) > 0
          BY <4>2, <5>1
        <5> QED  BY <5>1, <5>2
      <4> QED  BY <4>1, <4>2, <4>3
    <3> QED  BY <3>1, <3>2
  <2> HIDE DEF r
  <2> QED  BY <1>2, <2>2 DEF FirstOf, r
<1> QED  BY <1>1, <1>2

\* The hotkey of dictation.
LEMMA HotkeyEdit ==
  ASSUME NEW c, IsNormal(c), NEW v \in Bindings \ {"invalid"}, NEW l, l = ReplaceFirst(c.list, v)
  PROVE  LET y == Normal([c EXCEPT !.list = l, !.dictation = v, !.hotkey = v])
         IN  IsNormal(y) /\ Groups \ {"hotkeys"} \subseteq Agree(c, y) /\ (v # "retired" => y.hotkey = v)
<1> DEFINE x == [c EXCEPT !.list = l, !.dictation = v, !.hotkey = v]
           y == Normal(x)
<1>1. IsConfig(c) /\ DOMAIN c = Fields
  BY NormalIsSendable DEF Sendable, IsConfig
<1>2. /\ IsConfig(x) /\ x.list = l /\ x.dictation = v /\ x.hotkey = v
      /\ x.asks = c.asks /\ x.ask = c.ask /\ x.askHotkey = c.askHotkey /\ x.mode = c.mode /\ x.hotkeyMode = c.hotkeyMode
      /\ SameRecording(c, x) /\ SameTranslation(c, x) /\ SameInsertion(c, x) /\ SameScenes(c, x)
  BY <1>1, FieldsAre DEF IsConfig, SameRecording, SameTranslation, SameInsertion, SameScenes
<1>3. Normal([c EXCEPT !.list = l, !.dictation = v, !.hotkey = v]) = y
  BY Zenon
<1> HIDE DEF x
<1>4. c.list \in Seq(Bindings)
  BY DEF IsNormal, HotkeysOK, BindingLists
<1>5. l \in Seq(Bindings) /\ l # <<>> /\ l[1] = v
  BY <1>4, ReplacedIs
<1>6. Sendable(x) /\ x.list[1] # "invalid"
  BY <1>2, <1>5, NormalIsSendable DEF Sendable, Mirrored, SameRecording, SameTranslation, SameInsertion, SameScenes
<1>7. Becomes(x, y)
  BY <1>6, NormalOfSent
<1> HIDE DEF y
<1>8. {"recording", "translation", "insertion", "scenes"} \subseteq Agree(c, y)
  BY <1>2, <1>7, Untouched
<1>9. IsNormal(y) /\ Groups \ {"hotkeys"} \subseteq Agree(c, y)
  BY <1>7, <1>8 DEF Groups, Becomes
<1>10. v # "retired" => y.hotkey = v
  BY <1>2, <1>7 DEF Becomes, IsNormal, HotkeysOK
<1> QED  BY <1>3, <1>9, <1>10

\* The hotkey of Ask, or none.
LEMMA AskEdit ==
  ASSUME NEW c, IsNormal(c), NEW v \in (Bindings \cup {Nothing}) \ {"invalid"}, NEW l, l = ReplaceFirst(c.asks, v)
  PROVE  LET y == Normal([c EXCEPT !.asks = l, !.ask = v, !.askHotkey = v])
         IN  IsNormal(y) /\ Groups \ {"hotkeys"} \subseteq Agree(c, y) /\ y.askHotkey = v
<1> DEFINE x == [c EXCEPT !.asks = l, !.ask = v, !.askHotkey = v]
           y == Normal(x)
<1>1. IsConfig(c) /\ DOMAIN c = Fields
  BY NormalIsSendable DEF Sendable, IsConfig
<1>2. /\ IsConfig(x) /\ x.asks = l /\ x.ask = v /\ x.askHotkey = v /\ x.list = c.list /\ x.dictation = c.dictation
      /\ x.hotkey = c.hotkey /\ x.mode = c.mode /\ x.hotkeyMode = c.hotkeyMode
      /\ SameRecording(c, x) /\ SameTranslation(c, x) /\ SameInsertion(c, x) /\ SameScenes(c, x)
  BY <1>1, FieldsAre DEF IsConfig, SameRecording, SameTranslation, SameInsertion, SameScenes
<1>3. Normal([c EXCEPT !.asks = l, !.ask = v, !.askHotkey = v]) = y
  BY Zenon
<1> HIDE DEF x
<1>4. c.asks \in Seq(Bindings)
  BY DEF IsNormal, HotkeysOK, BindingLists
<1>5. l \in Seq(Bindings) /\ FirstOf(l) = v
  BY <1>4, ReplacedIs
<1>6. Sendable(x) /\ x.list[1] # "invalid"
  BY <1>2, <1>5, NormalIsSendable DEF Sendable, Mirrored, SameRecording, SameTranslation, SameInsertion, SameScenes
<1>7. Becomes(x, y)
  BY <1>6, NormalOfSent
<1> HIDE DEF y
<1>8. {"recording", "translation", "insertion", "scenes"} \subseteq Agree(c, y)
  BY <1>2, <1>7, Untouched
<1>9. IsNormal(y) /\ Groups \ {"hotkeys"} \subseteq Agree(c, y)
  BY <1>7, <1>8 DEF Groups, Becomes
<1>10. y.askHotkey = v
  <2>1. y.asks = NormalList(l) /\ y.askHotkey = FirstOf(y.asks)
    BY <1>2, <1>7 DEF Becomes, IsNormal, HotkeysOK
  <2>2. CASE l = <<>>
    <3>1. <<>> \in BindingLists
      BY DEF BindingLists, MaxBindings
    <3>2. NormalList(l) = l
      BY <1>5, <2>2, <3>1, NormalListIs
    <3> QED  BY <1>5, <2>1, <3>2
  <2>3. CASE l # <<>>
    <3>1. l[1] = v
      BY <1>5, <2>3 DEF FirstOf
    <3>2. NormalList(l) # <<>> /\ NormalList(l)[1] = v
      BY <1>5, <2>3, <3>1, NormalListIs
    <3> QED  BY <2>1, <3>2 DEF FirstOf
  <2> QED  BY <2>2, <2>3
<1> QED  BY <1>3, <1>9, <1>10

\* The edits that are saved as they are.
LEMMA TargetEdit ==
  ASSUME NEW c, IsNormal(c), NEW v \in ToSet(c.targets)
  PROVE  LET y == Target(c, v)
         IN  IsNormal(y) /\ y.active = v /\ Groups \ {"translation"} \subseteq Agree(c, y)
<1> DEFINE y == [c EXCEPT !.active = v, !.targetLang = v]
<1>1. DOMAIN c = Fields /\ c = [f \in DOMAIN c |-> c[f]]
  BY NormalIsSendable DEF Sendable, IsConfig
<1>2. /\ DOMAIN y = DOMAIN c /\ y = [f \in DOMAIN y |-> y[f]]
      /\ y.targets = c.targets /\ y.active = v /\ y.targetLang = v /\ y.limit = c.limit
      /\ SameRecording(c, y) /\ SameHotkeys(c, y) /\ SameInsertion(c, y) /\ SameScenes(c, y)
  BY <1>1, FieldsAre DEF SameRecording, SameHotkeys, SameBindings, SameMirrors, SameInsertion, SameScenes
<1>3. Target(c, v) = y
  BY Zenon DEF Target
<1> HIDE DEF y
<1>4. IsNormal(y)
  BY <1>2 DEF IsNormal, RecordingOK, Limit, TranslationOK, HotkeysOK, ScenesOK, KnownScenes, InsertionOK,
              SameRecording, SameHotkeys, SameBindings, SameMirrors, SameInsertion, SameScenes
<1>5. Groups \ {"translation"} \subseteq Agree(c, y)
  BY <1>2 DEF Agree, Groups, SameRecording, SameHotkeys, SameBindings, SameMirrors, SameInsertion, SameScenes
<1> QED  BY <1>2, <1>3, <1>4, <1>5

\* The scene that is in force.
LEMMA AssignEdit ==
  ASSUME NEW c, IsNormal(c), NEW v \in KnownScenes(c) \cup {Nothing}
  PROVE  LET y == [c EXCEPT !.assigned = v]
         IN  IsNormal(y) /\ SceneInForce(y, FALSE, Nothing) = v /\ Groups \ {"scenes"} \subseteq Agree(c, y)
<1> DEFINE y == [c EXCEPT !.assigned = v]
<1>1. DOMAIN c = Fields /\ c = [f \in DOMAIN c |-> c[f]]
  BY NormalIsSendable DEF Sendable, IsConfig
<1>2. /\ DOMAIN y = DOMAIN c /\ y = [f \in DOMAIN y |-> y[f]]
      /\ y.scenes = c.scenes /\ y.assigned = v /\ y.limit = c.limit
      /\ SameRecording(c, y) /\ SameTranslation(c, y) /\ SameHotkeys(c, y) /\ SameInsertion(c, y)
  BY <1>1, FieldsAre DEF SameRecording, SameTranslation, SameHotkeys, SameBindings, SameMirrors, SameInsertion
<1> HIDE DEF y
<1>3. KnownScenes(y) = KnownScenes(c)
  BY <1>2 DEF KnownScenes
<1>4. IsNormal(y)
  BY <1>2, <1>3 DEF IsNormal, RecordingOK, Limit, TranslationOK, HotkeysOK, ScenesOK, InsertionOK,
                    SameRecording, SameTranslation, SameHotkeys, SameBindings, SameMirrors, SameInsertion
<1>5. Groups \ {"scenes"} \subseteq Agree(c, y)
  BY <1>2 DEF Agree, Groups, SameRecording, SameTranslation, SameHotkeys, SameBindings, SameMirrors, SameInsertion
<1>6. Nothing \notin KnownScenes(c)
  BY DEF Nothing, KnownScenes, IsNormal, ScenesOK, CustomScenes
<1>7. SceneInForce(y, FALSE, Nothing) = v
  BY <1>2, <1>3, <1>6 DEF SceneInForce
<1> QED  BY <1>4, <1>5, <1>7 DEF y

\* A wish, accepted.
LEMMA PageEditIs ==
  ASSUME NEW c, IsNormal(c), NEW e, e.what \in PageEdits, NEW values, MayAsk(e.what, values), e.to \in values,
         CanBeSaved(OfPage(c, e))
  PROVE  LET y == Prepared(OfPage(c, e))
         IN  IsNormal(y) /\ Shows(y, e) /\ Groups \ {Group(e.what)} \subseteq Agree(c, y)
<1> DEFINE v == e.to
           x == OfPage(c, e)
           y == Prepared(x)
<1> SUFFICES IsNormal(y) /\ Shows(y, e) /\ Groups \ {Group(e.what)} \subseteq Agree(c, y)
  OBVIOUS
<1>0. CanBeSaved(x)
  OBVIOUS
<1>1. CASE e.what = "provider"
  <2>1. x = [c EXCEPT !.provider = v] /\ v \in Providers
    BY <1>1, Zenon DEF OfPage, MayAsk
  <2> HIDE DEF v
  <2>2. IsNormal(y) /\ y.provider = v /\ y.limit <= HardMax[v] /\ Groups \ {"recording"} \subseteq Agree(c, y)
    BY <2>1, ProviderEdit
  <2> HIDE DEF y
  <2> QED  BY <1>1, <2>2, ShowsEach, GroupEach DEF v
<1>2. CASE e.what = "limit"
  <2>1. x = WithLimit(c, v) /\ v \in Nat
    BY <1>2, Zenon DEF OfPage, WithLimit, MayAsk
  <2> HIDE DEF v, x, y
  <2>3. IsNormal(y) /\ y.limit = Least(Greatest(v, MinCustom), HardMax[y.provider])
        /\ Groups \ {"recording"} \subseteq Agree(c, y)
    BY <1>0, <2>1, LimitEdit DEF y
  <2> QED  BY <1>2, <2>3, ShowsEach, GroupEach DEF v
<1>3. CASE e.what = "targets"
  <2> DEFINE f == e.to[1]
  <2>1. x = WithTargets(c, v, f) /\ v \in TargetLists
    BY <1>3, Zenon DEF OfPage, WithTargets, MayAsk
  <2>2. f = v[1]
    OBVIOUS
  <2> HIDE DEF v, f, x, y
  <2>3. IsNormal(y) /\ y.targets = v /\ y.active = f /\ Groups \ {"translation"} \subseteq Agree(c, y)
    BY <1>0, <2>1, <2>2, TargetsEdit DEF y
  <2> QED  BY <1>3, <2>3, ShowsEach, GroupEach DEF v, f
<1>4. CASE e.what = "list"
  <2> DEFINE f == e.to[1]
  <2>1. x = WithList(c, v, f) /\ v \in Seq(Bindings) \ {<<>>}
    BY <1>4, Zenon DEF OfPage, WithList, MayAsk
  <2>2. f = v[1]
    OBVIOUS
  <2> HIDE DEF v, f, x, y
  <2>3. /\ IsNormal(y) /\ Groups \ {"hotkeys"} \subseteq Agree(c, y)
        /\ "retired" \notin ToSet(v) => y.list = NormalList(v) /\ y.hotkey = y.list[1]
    BY <1>0, <2>1, <2>2, ListEdit DEF y
  <2> QED  BY <1>4, <2>3, ShowsEach, GroupEach DEF v
<1>5. CASE e.what = "asks"
  <2> DEFINE f == FirstOf(e.to)
  <2>1. x = WithAsks(c, v, f) /\ v \in Seq(Bindings)
    BY <1>5, Zenon DEF OfPage, WithAsks, MayAsk
  <2>2. f = FirstOf(v)
    OBVIOUS
  <2> HIDE DEF v, f, x, y
  <2>3. /\ IsNormal(y) /\ Groups \ {"hotkeys"} \subseteq Agree(c, y)
        /\ y.asks = NormalList(v) /\ y.askHotkey = FirstOf(y.asks)
    BY <1>0, <2>1, <2>2, AsksEdit DEF y
  <2> QED  BY <1>5, <2>3, ShowsEach, GroupEach DEF v
<1>6. CASE e.what = "mode"
  <2>1. x = WithMode(c, v)
    BY <1>6, Zenon DEF OfPage, WithMode
  <2> HIDE DEF v, x, y
  <2>2. IsNormal(y) /\ Groups \ {"hotkeys"} \subseteq Agree(c, y) /\ y.hotkeyMode = v
    BY <1>0, <2>1, ModeEdit DEF y
  <2> QED  BY <1>6, <2>2, ShowsEach, GroupEach DEF v
<1>7. CASE e.what = "insertion"
  <2>1. x = [c EXCEPT !.insertion = v] /\ v \in Insertions
    BY <1>7, Zenon DEF OfPage, MayAsk
  <2> HIDE DEF v
  <2>2. IsNormal(y) /\ y.insertion = v /\ Groups \ {"insertion"} \subseteq Agree(c, y)
    BY <2>1, InsertionEdit
  <2> HIDE DEF y
  <2> QED  BY <1>7, <2>2, ShowsEach, GroupEach DEF v
<1>8. CASE e.what = "scenes"
  <2>1. x = [c EXCEPT !.scenes = v] /\ v \in SUBSET CustomScenes
    BY <1>8, Zenon DEF OfPage, MayAsk
  <2> HIDE DEF v
  <2>2. IsNormal(y) /\ y.scenes = v /\ Groups \ {"scenes"} \subseteq Agree(c, y)
    BY <2>1, ScenesEdit
  <2> HIDE DEF y
  <2>3. y.assigned \in KnownScenes(y) \cup {Nothing}
    BY <2>2 DEF IsNormal, ScenesOK
  <2> QED  BY <1>8, <2>2, <2>3, ShowsEach, GroupEach DEF v
<1> QED  BY <1>1, <1>2, <1>3, <1>4, <1>5, <1>6, <1>7, <1>8, Zenon DEF PageEdits

\* Each kind of edit is in force in the settings it makes, which are normal.
LEMMA EditIs ==
  ASSUME NEW c, IsNormal(c), NEW e, e.what \in EditKinds, NEW values, MayAsk(e.what, values), e.to \in values,
         Accepted(c, e)
  PROVE  IsNormal(Edited(c, e)) /\ InForce(Edited(c, e), c, e)
<1> DEFINE v == e.to
           y == Edited(c, e)
<1> SUFFICES IsNormal(y) /\ Shows(y, e) /\ Groups \ {Group(e.what)} \subseteq Agree(c, y)
  BY Changes
<1>1. CASE e.what \in PageEdits
  <2>1. y = Prepared(OfPage(c, e)) /\ CanBeSaved(OfPage(c, e))
    BY <1>1 DEF Edited, Accepted, PageEdits
  <2> HIDE DEF y
  <2> QED  BY <1>1, <2>1, PageEditIs
<1>2. CASE e.what = "target"
  <2>1. y = Target(c, v) /\ v \in ToSet(c.targets)
    BY <1>2, Zenon DEF Edited, Accepted, PageEdits
  <2> HIDE DEF v, y
  <2>2. IsNormal(y) /\ y.active = v /\ Groups \ {"translation"} \subseteq Agree(c, y)
    BY <2>1, TargetEdit
  <2> QED  BY <1>2, <2>2, ShowsEach, GroupEach DEF v
<1>3. CASE e.what = "assign"
  <2>1. y = [c EXCEPT !.assigned = v] /\ v \in KnownScenes(c) \cup {Nothing}
    BY <1>3, Zenon DEF Edited, Accepted, PageEdits
  <2> HIDE DEF v, y
  <2>2. IsNormal(y) /\ SceneInForce(y, FALSE, Nothing) = v /\ Groups \ {"scenes"} \subseteq Agree(c, y)
    BY <2>1, AssignEdit
  <2> QED  BY <1>3, <2>2, ShowsEach, GroupEach DEF v
<1>4. CASE e.what = "hotkey"
  <2> DEFINE l == ReplaceFirst(c.list, v)
  <2>1. /\ y = Normal([c EXCEPT !.list = l, !.dictation = v, !.hotkey = v])
        /\ v \in Bindings /\ v # "invalid" /\ l = ReplaceFirst(c.list, v)
    BY <1>4, Zenon DEF Edited, Accepted, MayAsk, PageEdits
  <2> HIDE DEF v, l, y
  <2>2. IsNormal(y) /\ Groups \ {"hotkeys"} \subseteq Agree(c, y) /\ (v # "retired" => y.hotkey = v)
    BY <2>1, HotkeyEdit, Zenon
  <2> QED  BY <1>4, <2>2, ShowsEach, GroupEach DEF v
<1>5. CASE e.what = "askHotkey"
  <2> DEFINE l == ReplaceFirst(c.asks, v)
  <2>1. /\ y = Normal([c EXCEPT !.asks = l, !.ask = v, !.askHotkey = v])
        /\ v \in Bindings \cup {Nothing} /\ v # "invalid" /\ l = ReplaceFirst(c.asks, v)
    BY <1>5, Zenon DEF Edited, Accepted, MayAsk, PageEdits
  <2> HIDE DEF v, l, y
  <2>2. IsNormal(y) /\ Groups \ {"hotkeys"} \subseteq Agree(c, y) /\ y.askHotkey = v
    BY <2>1, AskEdit, Zenon
  <2> QED  BY <1>5, <2>2, ShowsEach, GroupEach DEF v
<1>6. CASE e.what = "resave"
  <2>1. y = c
    BY <1>6, Zenon DEF Edited, PageEdits
  <2> HIDE DEF y
  <2>2. Groups \subseteq Agree(c, y)
    BY <2>1 DEF Agree
  <2> QED  BY <1>6, <2>1, <2>2, ShowsEach
<1> QED  BY <1>1, <1>2, <1>3, <1>4, <1>5, <1>6, Zenon DEF EditKinds

-----------------------------------------------------------------------------
(* The migration of the keys changes nothing else                            *)

\* Taking the keys out of the settings changes nothing else.
LEMMA ClearedKeeps ==
  ASSUME NEW c, IsNormal(c)
  PROVE  LET d == Cleared(c)
         IN  /\ IsNormal(d) /\ Groups \subseteq Agree(c, d)
             /\ d.hotkey = c.hotkey /\ d.askHotkey = c.askHotkey
<1> DEFINE stt == { PendingStt(c)[i].slot : i \in DOMAIN PendingStt(c) }
           k1 == IF stt \ {"custom"} # {} THEN Nothing ELSE c.key
           k2 == IF "custom" \in stt THEN Nothing ELSE c.customKey
           d  == [c EXCEPT !.key = k1, !.customKey = k2, !.llmKey = Nothing]
<1>1. DOMAIN c = Fields /\ c = [f \in DOMAIN c |-> c[f]]
  BY NormalIsSendable DEF Sendable, IsConfig
<1>2. Cleared(c) = d
  BY Zenon DEF Cleared
<1> HIDE DEF k1, k2
<1>3. /\ DOMAIN d = DOMAIN c /\ d = [f \in DOMAIN d |-> d[f]] /\ d.limit = c.limit
      /\ SameRecording(c, d) /\ SameTranslation(c, d) /\ SameHotkeys(c, d) /\ SameInsertion(c, d) /\ SameScenes(c, d)
  BY <1>1, FieldsAre DEF SameRecording, SameTranslation, SameHotkeys, SameBindings, SameMirrors, SameInsertion,
                         SameScenes
<1> HIDE DEF d
<1>4. IsNormal(d)
  <2>1. RecordingOK(d) /\ TranslationOK(d)
    BY <1>3 DEF IsNormal, RecordingOK, Limit, TranslationOK, SameRecording, SameTranslation
  <2>2. HotkeysOK(d)
    BY <1>3 DEF IsNormal, HotkeysOK, SameHotkeys, SameBindings, SameMirrors
  <2>3. ScenesOK(d) /\ InsertionOK(d)
    BY <1>3 DEF IsNormal, ScenesOK, KnownScenes, InsertionOK, SameInsertion, SameScenes
  <2> QED  BY <1>3, <2>1, <2>2, <2>3 DEF IsNormal
<1>5. Groups \subseteq Agree(c, d)
  BY <1>3 DEF Agree, Groups, SameRecording, SameTranslation, SameHotkeys, SameBindings, SameMirrors, SameInsertion,
              SameScenes
<1>6. d.hotkey = c.hotkey /\ d.askHotkey = c.askHotkey
  BY <1>3 DEF SameHotkeys, SameMirrors
<1> QED  BY <1>2, <1>4, <1>5, <1>6

\* The config of a migration is as normal as the one before, and says the same.
SaysAs(c, d) == /\ IsNormal(d) /\ d.active = c.active
                /\ \A b, e : e.what \in EditKinds /\ InForce(c, b, e) => InForce(d, b, e)

\* An edit in force stays so while all groups agree.
LEMMA AgreeShows ==
  ASSUME NEW c, NEW d, Groups \subseteq Agree(c, d), d.hotkey = c.hotkey, d.askHotkey = c.askHotkey,
         NEW e, e.what \in EditKinds, Shows(c, e)
  PROVE  Shows(d, e)
<1>1. /\ d.provider = c.provider /\ d.limit = c.limit /\ d.targets = c.targets /\ d.active = c.active
      /\ d.list = c.list /\ d.asks = c.asks /\ d.hotkeyMode = c.hotkeyMode
      /\ d.scenes = c.scenes /\ d.assigned = c.assigned /\ d.insertion = c.insertion
  BY DEF Agree, Groups
<1>2. KnownScenes(d) = KnownScenes(c)
  BY <1>1 DEF KnownScenes
<1>3. SceneInForce(d, FALSE, Nothing) = SceneInForce(c, FALSE, Nothing)
  BY <1>1, <1>2 DEF SceneInForce
<1>4. CASE e.what = "provider"
  BY <1>1, <1>2, <1>3, <1>4, ShowsEach
<1>5. CASE e.what = "limit"
  <2>1. c.limit = Least(Greatest(e.to, MinCustom), HardMax[c.provider])
    BY <1>5, ShowsEach, Zenon
  <2>2. d.limit = Least(Greatest(e.to, MinCustom), HardMax[d.provider])
    BY <1>1, <2>1, Zenon
  <2> QED  BY <1>5, <2>2, ShowsEach, Zenon
<1>6. CASE e.what = "targets"
  BY <1>1, <1>2, <1>3, <1>6, ShowsEach
<1>7. CASE e.what = "target"
  BY <1>1, <1>2, <1>3, <1>7, ShowsEach
<1>8. CASE e.what = "list"
  <2>1. "retired" \in ToSet(e.to) \/ (c.list = NormalList(e.to) /\ c.hotkey = c.list[1])
    BY <1>8, ShowsEach, Zenon
  <2>2. "retired" \in ToSet(e.to) \/ (d.list = NormalList(e.to) /\ d.hotkey = d.list[1])
    BY <1>1, <2>1, Zenon
  <2> QED  BY <1>8, <2>2, ShowsEach, Zenon
<1>9. CASE e.what = "asks"
  <2>1. c.asks = NormalList(e.to) /\ c.askHotkey = FirstOf(c.asks)
    BY <1>9, ShowsEach, Zenon
  <2>2. d.asks = NormalList(e.to) /\ d.askHotkey = FirstOf(d.asks)
    BY <1>1, <2>1, Zenon
  <2> QED  BY <1>9, <2>2, ShowsEach, Zenon
<1>10. CASE e.what = "mode"
  BY <1>1, <1>2, <1>3, <1>10, ShowsEach
<1>11. CASE e.what = "insertion"
  BY <1>1, <1>2, <1>3, <1>11, ShowsEach
<1>12. CASE e.what = "scenes"
  BY <1>1, <1>2, <1>3, <1>12, ShowsEach
<1>13. CASE e.what = "assign"
  BY <1>1, <1>2, <1>3, <1>13, ShowsEach
<1>14. CASE e.what = "hotkey"
  BY <1>1, <1>2, <1>3, <1>14, ShowsEach
<1>15. CASE e.what = "askHotkey"
  BY <1>1, <1>2, <1>3, <1>15, ShowsEach
<1>16. CASE e.what = "resave"
  BY <1>1, <1>2, <1>3, <1>16, ShowsEach
<1> QED  BY <1>4, <1>5, <1>6, <1>7, <1>8, <1>9, <1>10, <1>11, <1>12, <1>13, <1>14, <1>15, <1>16 DEF EditKinds, PageEdits

\* The migration of the keys changes no other setting.
LEMMA MigratedSays ==
  ASSUME NEW c, IsNormal(c), NEW m \in Migrations(c)
  PROVE  SaysAs(c, m.config)
<1>1. m.config \in {c, Cleared(c)}
  BY DEF Migrations
<1>2. SaysAs(c, c)
  BY DEF SaysAs
<1>3. SaysAs(c, Cleared(c))
  <2> DEFINE d == Cleared(c)
  <2>1. IsNormal(d) /\ Groups \subseteq Agree(c, d) /\ d.hotkey = c.hotkey /\ d.askHotkey = c.askHotkey
    BY ClearedKeeps
  <2> HIDE DEF d
  <2>2. ASSUME NEW b, NEW e, e.what \in EditKinds, InForce(c, b, e)
        PROVE  InForce(d, b, e)
    <3>1. Shows(d, e)
      BY <2>1, <2>2, AgreeShows DEF InForce
    <3>2. \A g \in Groups : Says(d, g) = Says(c, g)
      BY <2>1, AgreeSays
    <3> QED  BY <2>2, <3>1, <3>2 DEF InForce
  <2>3. d.active = c.active
    BY <2>1 DEF Agree, Groups
  <2> QED  BY <2>1, <2>2, <2>3 DEF SaysAs, d
<1> QED  BY <1>1, <1>2, <1>3

-----------------------------------------------------------------------------
(* Settings: an edit that is saved is in force                               *)

Undoing == {"undo", "undoCache", "undoPersist"}

\* What holds of each command.
TaskSays(t) ==
  LET k == task[t]
  IN  /\ IsNormal(k.before) /\ IsNormal(k.config) /\ k.edit.what \in EditKinds
      /\ k.pc \in {"save", "cache", "persist", "done"} => InForce(k.config, k.before, k.edit)
      /\ k.pc \in Undoing => k.edit.what = "target"
      /\ k.pc \in {"undoCache", "undoPersist"} => k.config.active = k.before.active

\* What holds of one that no other has overlapped.
AloneSays(t) ==
  LET k == task[t]
  IN  /\ \A u \in Tasks \ {t} : ~Saving(u)
      /\ k.pc \in {"persist", "done", "undoPersist"} => cache = k.config
      /\ k.pc = "done" => disk = Stored(k.config)
      /\ k.pc = "failed" /\ k.vaulted /\ k.edit.what = "target" => cache.active = k.before.active

EditInv ==
  /\ TasksShaped
  /\ Storable(disk.config)
  /\ up => IsNormal(cache)
  /\ \A t \in Tasks : task[t].pc # "idle" => up /\ TaskSays(t) /\ (task[t].alone => AloneSays(t))

\* The invariant holds at the start.
LEMMA EditStart ==
  ASSUME SettingsInit
  PROVE  EditInv
<1>1. disk \in Stores /\ ~up /\ task = [t \in Tasks |-> NoTask]
  BY Zenon DEF SettingsInit
<1>2. disk.config \in StoredConfigs
  BY <1>1, InputsAssumption
<1>3. DOMAIN NoTask = TaskFields /\ NoTask.pc = "idle"
  BY DEF NoTask, TaskFields
<1> HIDE DEF NoTask
<1>4. TasksShaped /\ \A t \in Tasks : task[t].pc = "idle"
  BY <1>1, <1>3 DEF TasksShaped
<1> QED  BY <1>1, <1>2, <1>4, StoredConfigIs DEF EditInv

\* A start reads the settings and makes them normal.
LEMMA EditLoads ==
  ASSUME EditInv, Loads
  PROVE  EditInv'
<1> DEFINE c == FromStored(disk)
<1>1. PICK m \in Migrations(c) :
        /\ cache' = m.config
        /\ disk' \in {disk, Stored(m.config)}
  BY Zenon DEF Loads
<1>2. task' = task /\ ~up
  BY Zenon DEF Loads
<1>3. IsNormal(c)
  BY FromStoredIs DEF EditInv
<1> HIDE DEF c
<1>4. IsNormal(m.config)
  BY <1>3, MigratedSays DEF SaysAs
<1>5. Storable(disk'.config)
  <2>1. Stored(m.config).config = m.config
    BY DEF Stored
  <2> QED  BY <1>1, <1>4, <2>1, NormalIsStorable DEF EditInv
<1>6. \A t \in Tasks : task'[t].pc = "idle"
  BY <1>2 DEF EditInv
<1>7. TasksShaped'
  BY <1>2 DEF EditInv, TasksShaped
<1> QED  BY <1>1, <1>4, <1>5, <1>6, <1>7 DEF EditInv

\* A stop forgets the commands and the cache.
LEMMA EditStops ==
  ASSUME EditInv, Stops
  PROVE  EditInv'
<1>1. disk' = disk /\ ~up' /\ task' = [t \in Tasks |-> NoTask]
  BY Zenon DEF Stops
<1>2. DOMAIN NoTask = TaskFields /\ NoTask.pc = "idle"
  BY DEF NoTask, TaskFields
<1> HIDE DEF NoTask
<1>3. TasksShaped' /\ \A t \in Tasks : task'[t].pc = "idle"
  BY <1>1, <1>2 DEF TasksShaped
<1> QED  BY <1>1, <1>3 DEF EditInv

\* A command that begins overlaps those that are saving.
LEMMA EditBegins ==
  ASSUME EditInv, NEW t \in Tasks, NEW e, e.what \in EditKinds, NEW values, MayAsk(e.what, values), e.to \in values,
         CommandBegins(t, e)
  PROVE  EditInv'
<1> DEFINE others == { u \in Tasks \ {t} : Saving(u) }
           config == Edited(cache, e)
           alone  == others = {}
           new    == [pc |-> "save", edit |-> e, before |-> cache, vaulted |-> TRUE,
                      config |-> config, alone |-> alone]
           of(u)  == IF u = t THEN new ELSE IF u \in others THEN [task[u] EXCEPT !.alone = FALSE] ELSE NoTask
<1>1. /\ disk' = disk /\ cache' = cache /\ up' = up /\ up /\ Accepted(cache, e)
      /\ task' = [u \in Tasks |-> of(u)]
  BY Zenon DEF CommandBegins
<1>2. IsNormal(cache) /\ IsNormal(config) /\ InForce(config, cache, e)
  BY <1>1, EditIs DEF EditInv
<1>3. (alone <=> \A u \in Tasks \ {t} : ~Saving(u)) /\ (\A u : u \in others <=> u \in Tasks \ {t} /\ Saving(u))
  OBVIOUS
<1> HIDE DEF others, config, alone
<1>4. /\ DOMAIN new = TaskFields /\ new.before = cache /\ new.config = config /\ new.edit = e /\ new.pc = "save"
      /\ new.alone = alone
  BY DEF TaskFields
<1>5. DOMAIN NoTask = TaskFields /\ NoTask.pc = "idle"
  BY DEF NoTask, TaskFields
<1> HIDE DEF new, NoTask
<1>6. \A u \in Tasks : \/ u = t /\ task'[u] = new
                       \/ u # t /\ Saving(u) /\ task'[u] = [task[u] EXCEPT !.alone = FALSE]
                       \/ u # t /\ ~Saving(u) /\ task'[u] = NoTask
  BY <1>1, <1>3
<1>7. \A u \in Tasks : DOMAIN task[u] = TaskFields
  BY DEF EditInv, TasksShaped
<1>8. TasksShaped'
  <2>1. \A u \in Tasks : DOMAIN task'[u] = TaskFields
    BY <1>4, <1>5, <1>6, <1>7
  <2> QED  BY <1>1, <2>1 DEF TasksShaped
<1>9. ASSUME NEW u \in Tasks, task'[u].pc # "idle"
      PROVE  up' /\ TaskSays(u)' /\ (task'[u].alone => AloneSays(u)')
  <2>1. CASE u = t
    <3>1. task'[u] = new
      BY <1>6, <2>1
    <3>2. TaskSays(u)'
      BY <1>2, <1>4, <3>1 DEF TaskSays, Undoing
    <3>3. ASSUME alone
          PROVE  AloneSays(u)'
      <4>1. \A w \in Tasks \ {t} : task'[w] = NoTask
        BY <1>3, <1>6, <3>3
      <4>2. \A w \in Tasks \ {u} : ~Saving(w)'
        BY <1>5, <2>1, <4>1 DEF Saving
      <4> QED  BY <1>4, <3>1, <4>2 DEF AloneSays
    <3> QED  BY <1>1, <1>4, <3>1, <3>2, <3>3
  <2>2. CASE u # t
    <3>1. Saving(u) /\ task'[u] = [task[u] EXCEPT !.alone = FALSE]
      BY <1>5, <1>6, <1>9, <2>2
    <3>2. /\ task'[u].pc = task[u].pc /\ task'[u].edit = task[u].edit /\ task'[u].before = task[u].before
          /\ task'[u].config = task[u].config /\ task'[u].alone = FALSE
      BY <1>7, <3>1 DEF TaskFields
    <3>3. TaskSays(u)
      BY <1>9, <3>2 DEF EditInv
    <3> QED  BY <1>1, <3>2, <3>3 DEF TaskSays
  <2> QED  BY <2>1, <2>2
<1> QED  BY <1>1, <1>2, <1>8, <1>9 DEF EditInv

\* A step of a save: its task changes, and the cache or the disk with it.
LEMMA EditGoes ==
  ASSUME EditInv, NEW t \in Tasks, Saving(t), DOMAIN task' = Tasks, \A u \in Tasks \ {t} : task'[u] = task[u],
         DOMAIN task'[t] = TaskFields, task'[t].pc # "idle", task'[t].alone = task[t].alone, up' = up,
         Storable(disk'.config), up => IsNormal(cache'),
         TaskSays(t)', task[t].alone /\ AloneSays(t) => AloneSays(t)'
  PROVE  EditInv'
<1>3. TasksShaped'
  BY DEF EditInv, TasksShaped
<1>4. up /\ TaskSays(t) /\ (task[t].alone => AloneSays(t))
  BY DEF EditInv, Saving
<1>5. ASSUME NEW u \in Tasks, task'[u].pc # "idle"
      PROVE  up' /\ TaskSays(u)' /\ (task'[u].alone => AloneSays(u)')
  <2>1. CASE u = t
    BY <1>4, <2>1
  <2>2. CASE u # t
    <3>1. TaskSays(u) /\ (task[u].alone => AloneSays(u))
      BY <1>5, <2>2 DEF EditInv
    <3>2. ~task[u].alone
      BY <2>2, <3>1 DEF AloneSays
    <3> QED  BY <1>4, <2>2, <3>1, <3>2 DEF TaskSays
  <2> QED  BY <2>1, <2>2
<1> QED  BY <1>3, <1>5 DEF EditInv

\* A save has moved its keys to the vault, or has failed to.
LEMMA EditMigrates ==
  ASSUME EditInv, NEW t \in Tasks, SaveMigrates(t)
  PROVE  EditInv'
<1> DEFINE old == IF task[t].pc = "undo" THEN task[t].before ELSE task[t].config
           k   == task'[t]
<1>1. /\ disk' = disk /\ cache' = cache /\ up' = up /\ task[t].pc \in {"save", "undo"}
  BY Zenon DEF SaveMigrates
<1>2. PICK m \in Migrations(Normal(old)) :
        task' = [task EXCEPT ![t].config = m.config, ![t].vaulted = @ /\ m.ok,
                             ![t].pc = IF m.ok THEN IF @ = "undo" THEN "undoCache" ELSE "cache"
                                       ELSE IF @ = "undo" THEN "failed"
                                       ELSE Fails(t)]
  BY Zenon DEF SaveMigrates
<1>3. DOMAIN task = Tasks /\ \A u \in Tasks : DOMAIN task[u] = TaskFields
  BY DEF EditInv, TasksShaped
<1>4. Saving(t) /\ TaskSays(t) /\ (up => IsNormal(cache)) /\ Storable(disk.config)
  BY <1>1 DEF EditInv, Saving
<1>6. IsNormal(old) /\ Normal(old) = old
  BY <1>4, NormalIsLoadable, NormalIs DEF TaskSays, NormalOf
<1>7. SaysAs(old, m.config)
  BY <1>2, <1>6, MigratedSays
<1>8. /\ DOMAIN task' = Tasks /\ \A u \in Tasks \ {t} : task'[u] = task[u]
      /\ DOMAIN k = TaskFields /\ k.config = m.config /\ k.edit = task[t].edit
      /\ k.before = task[t].before /\ k.alone = task[t].alone
      /\ k.pc = IF m.ok THEN IF task[t].pc = "undo" THEN "undoCache" ELSE "cache"
                ELSE IF task[t].pc = "undo" THEN "failed" ELSE Fails(t)
  BY <1>2, <1>3 DEF TaskFields
<1>9. k.vaulted => m.ok
  BY <1>2, <1>3 DEF TaskFields
<1>10. /\ m.ok => k.pc = IF task[t].pc = "undo" THEN "undoCache" ELSE "cache"
       /\ ~m.ok => k.pc \in {"failed", "undo"}
       /\ ~m.ok /\ k.pc = "undo" => task[t].edit.what = "target"
  BY <1>8 DEF Fails
<1>11. TaskSays(t)'
  <2>1. IsNormal(m.config) /\ (task[t].pc = "undo" => m.config.active = task[t].before.active)
    BY <1>7 DEF SaysAs
  <2>2. task[t].pc = "save" => InForce(m.config, task[t].before, task[t].edit)
    BY <1>4, <1>7 DEF SaysAs, TaskSays
  <2>3. task[t].pc = "undo" => task[t].edit.what = "target"
    BY <1>4 DEF TaskSays, Undoing
  <2> HIDE DEF old
  <2> QED  BY <1>1, <1>4, <1>8, <1>10, <2>1, <2>2, <2>3 DEF TaskSays, Undoing
<1>12. ASSUME task[t].alone, AloneSays(t)
       PROVE  AloneSays(t)'
  <2>1. \A u \in Tasks \ {t} : ~Saving(u)'
    BY <1>8, <1>12 DEF AloneSays, Saving
  <2>2. k.pc \in {"cache", "undoCache", "failed", "undo"} /\ (k.pc = "failed" => ~k.vaulted)
    BY <1>1, <1>9, <1>10
  <2> QED  BY <2>1, <2>2 DEF AloneSays
<1>13. k.pc # "idle"
  BY <1>1, <1>10
<1> QED  BY <1>1, <1>4, <1>8, <1>11, <1>12, <1>13, EditGoes

\* The other steps of a save keep its config.
LEMMA EditTaskGoes ==
  ASSUME EditInv, NEW t \in Tasks, NEW pc, TaskGoes(t, pc, task[t].config)
  PROVE  LET k == task'[t]
         IN  /\ DOMAIN task' = Tasks /\ \A u \in Tasks \ {t} : task'[u] = task[u]
             /\ DOMAIN k = TaskFields /\ k.pc = pc /\ k.config = task[t].config /\ k.edit = task[t].edit
             /\ k.before = task[t].before /\ k.alone = task[t].alone /\ k.vaulted = task[t].vaulted
<1> DEFINE c == task[t].config
<1>1. task' = [task EXCEPT ![t].pc = pc, ![t].config = c]
  BY Zenon DEF TaskGoes
<1>2. DOMAIN task = Tasks /\ \A u \in Tasks : DOMAIN task[u] = TaskFields
  BY DEF EditInv, TasksShaped
<1> QED  BY <1>1, <1>2 DEF TaskFields

\* The cache gets what a save, or its undoing, brings.
LEMMA EditCaches ==
  ASSUME EditInv, NEW t \in Tasks, SaveCaches(t)
  PROVE  EditInv'
<1> DEFINE pc == IF task[t].pc = "cache" THEN "persist" ELSE "undoPersist"
           k  == task'[t]
<1>1. /\ task[t].pc \in {"cache", "undoCache"} /\ cache' = task[t].config /\ TaskGoes(t, pc, task[t].config)
      /\ disk' = disk /\ up' = up
  BY Zenon DEF SaveCaches
<1>2. (task[t].pc = "cache" /\ pc = "persist") \/ (task[t].pc = "undoCache" /\ pc = "undoPersist")
  BY <1>1
<1> HIDE DEF pc
<1>3. /\ DOMAIN task' = Tasks /\ \A u \in Tasks \ {t} : task'[u] = task[u]
      /\ DOMAIN k = TaskFields /\ k.pc = pc /\ k.config = task[t].config /\ k.edit = task[t].edit
      /\ k.before = task[t].before /\ k.alone = task[t].alone /\ k.vaulted = task[t].vaulted
  BY <1>1, EditTaskGoes
<1>4. Saving(t) /\ TaskSays(t) /\ Storable(disk'.config)
  BY <1>1 DEF EditInv, Saving
<1>5. TaskSays(t)' /\ IsNormal(cache') /\ k.pc # "idle"
  BY <1>1, <1>2, <1>3, <1>4 DEF TaskSays, Undoing
<1>6. ASSUME task[t].alone, AloneSays(t)
      PROVE  AloneSays(t)'
  <2>1. \A u \in Tasks \ {t} : ~Saving(u)'
    BY <1>3, <1>6 DEF AloneSays, Saving
  <2> QED  BY <1>1, <1>2, <1>3, <2>1 DEF AloneSays
<1> QED  BY <1>1, <1>3, <1>4, <1>5, <1>6, EditGoes

\* The disk gets it, or fails to.
LEMMA EditPersists ==
  ASSUME EditInv, NEW t \in Tasks, SavePersists(t)
  PROVE  EditInv'
<1> DEFINE p == IF task[t].pc = "persist" THEN "done" ELSE "failed"
           q == IF task[t].pc = "persist" THEN Fails(t) ELSE "failed"
<1>1. /\ task[t].pc \in {"persist", "undoPersist"}
      /\ \/ disk' = Stored(task[t].config) /\ TaskGoes(t, p, task[t].config)
         \/ disk' = disk /\ TaskGoes(t, q, task[t].config)
      /\ cache' = cache /\ up' = up
  BY Zenon DEF SavePersists
<1>2. Saving(t) /\ TaskSays(t) /\ Storable(disk.config) /\ (up => IsNormal(cache))
  BY <1>1 DEF EditInv, Saving
<1>3. PICK pc : /\ TaskGoes(t, pc, task[t].config)
                /\ \/ disk' = Stored(task[t].config) /\ pc = p
                   \/ disk' = disk /\ pc = q
  BY <1>1
<1>4. /\ pc \in {"done", "failed", "undo"}
      /\ pc = "done" => task[t].pc = "persist" /\ disk' = Stored(task[t].config)
      /\ pc = "undo" => task[t].edit.what = "target"
      /\ pc = "failed" => \/ task[t].pc = "undoPersist"
                          \/ task[t].edit.what # "target"
                          \/ task[t].config = task[t].before
  BY <1>1, <1>3 DEF Fails
<1> DEFINE k == task'[t]
<1>5. /\ DOMAIN task' = Tasks /\ \A u \in Tasks \ {t} : task'[u] = task[u]
      /\ DOMAIN k = TaskFields /\ k.pc = pc /\ k.config = task[t].config /\ k.edit = task[t].edit
      /\ k.before = task[t].before /\ k.alone = task[t].alone /\ k.vaulted = task[t].vaulted
  BY <1>3, EditTaskGoes
<1>6. TaskSays(t)' /\ k.pc # "idle"
  BY <1>1, <1>2, <1>4, <1>5 DEF TaskSays, Undoing
<1>7. Storable(disk'.config)
  <2>1. Stored(task[t].config).config = task[t].config
    BY DEF Stored
  <2> QED  BY <1>2, <1>3, <2>1, NormalIsStorable DEF TaskSays
<1>8. ASSUME task[t].alone, AloneSays(t)
      PROVE  AloneSays(t)'
  <2>1. \A u \in Tasks \ {t} : ~Saving(u)'
    BY <1>5, <1>8 DEF AloneSays, Saving
  <2>2. cache = task[t].config
    BY <1>1, <1>8 DEF AloneSays
  <2>3. pc = "failed" /\ task[t].edit.what = "target" => cache.active = task[t].before.active
    BY <1>2, <1>4, <2>2 DEF TaskSays
  <2> QED  BY <1>1, <1>4, <1>5, <2>1, <2>2, <2>3 DEF AloneSays
<1> QED  BY <1>1, <1>2, <1>5, <1>6, <1>7, <1>8, EditGoes

\* Every step keeps the invariant.
LEMMA EditStep ==
  ASSUME EditInv, [SettingsNext]_settingsVars
  PROVE  EditInv'
<1>1. CASE Loads
  BY <1>1, EditLoads
<1>2. CASE Stops
  BY <1>2, EditStops
<1>3. ASSUME NEW t \in Tasks, TaskStep(t)
      PROVE  EditInv'
  BY <1>3, EditMigrates, EditCaches, EditPersists DEF TaskStep
<1>4. ASSUME NEW t \in Tasks, NEW what \in DOMAIN Wishes, NEW to \in Wishes[what],
             CommandBegins(t, [what |-> what, to |-> to])
      PROVE  EditInv'
  <2> DEFINE e == [what |-> what, to |-> to]
             values == Wishes[what]
  <2>1. what \in EditKinds /\ MayAsk(what, values)
    BY InputsAssumption
  <2>2. e.what = what /\ e.to = to /\ to \in values
    OBVIOUS
  <2> HIDE DEF e, values
  <2> QED  BY <1>4, <2>1, <2>2, EditBegins DEF e
<1>5. ASSUME NEW slot \in Slots, NEW key, SetsCredential(slot, key)
      PROVE  EditInv'
  <2>1. disk' = disk /\ cache' = cache /\ up' = up /\ task' = task
    BY <1>5, Zenon DEF SetsCredential
  <2> QED  BY <2>1 DEF EditInv, TasksShaped, TaskSays, AloneSays, Saving
<1>6. CASE UNCHANGED settingsVars
  BY <1>6 DEF settingsVars, EditInv, TasksShaped, TaskSays, AloneSays, Saving
<1> QED  BY <1>1, <1>2, <1>3, <1>4, <1>5, <1>6, Zenon DEF SettingsNext

\* The invariant says at least what the property says.
LEMMA EditFollows ==
  ASSUME EditInv
  PROVE  EditSurvives
<1> SUFFICES ASSUME NEW t \in Tasks, task[t].alone
             PROVE  /\ task[t].pc = "done" =>
                         /\ Shows(cache, task[t].edit) /\ FromStored(disk) = cache
                         /\ \A g \in Groups \ {Group(task[t].edit.what)} : Says(cache, g) = Says(task[t].before, g)
                    /\ task[t].pc = "failed" /\ task[t].vaulted /\ task[t].edit.what = "target"
                         => cache.active = task[t].before.active
  BY DEF EditSurvives
<1>1. task[t].pc # "idle" => TaskSays(t) /\ AloneSays(t)
  BY DEF EditInv
<1>2. ASSUME task[t].pc = "done"
      PROVE  /\ Shows(cache, task[t].edit) /\ FromStored(disk) = cache
             /\ \A g \in Groups \ {Group(task[t].edit.what)} : Says(cache, g) = Says(task[t].before, g)
  <2>1. cache = task[t].config /\ disk = Stored(cache) /\ IsNormal(cache)
    BY <1>1, <1>2 DEF AloneSays, TaskSays
  <2>2. InForce(cache, task[t].before, task[t].edit)
    BY <1>1, <1>2, <2>1 DEF TaskSays
  <2> QED  BY <2>1, <2>2, ReadAgain DEF InForce
<1>3. ASSUME task[t].pc = "failed", task[t].vaulted, task[t].edit.what = "target"
      PROVE  cache.active = task[t].before.active
  BY <1>1, <1>3 DEF AloneSays
<1> QED  BY <1>2, <1>3

\* Whatever settings of whatever age are stored, and whatever the user asks for:
\* an edit that no other overlaps is in force once it is saved, with every mirror
\* of it; the next start reads the same settings, and no other group of settings
\* has changed.  A switch of the translation target that fails is undone.
THEOREM EditsSurvive ==
  SettingsSpec => []EditSurvives
<1>1. SettingsInit => EditInv
  BY EditStart
<1>2. EditInv /\ [SettingsNext]_settingsVars => EditInv'
  BY EditStep
<1>3. EditInv => EditSurvives
  BY EditFollows
<1> QED  BY <1>1, <1>2, <1>3, PTL DEF SettingsSpec

-----------------------------------------------------------------------------
(* The types of the settings                                                 *)

HoldsKnown(c) == Shape(c) /\ c.provider \in Providers /\ Keys(c) \subseteq KnownKeys

SavePcs == {"idle", "save", "cache", "persist", "undo", "undoCache", "undoPersist", "done", "failed"}

SettingsTyped ==
  /\ EditInv
  /\ disk.has \subseteq NewFields
  /\ vault \in Vaults(KnownKeys) /\ given \in Vaults(KnownKeys)
  /\ HoldsKnown(disk.config) /\ (up => HoldsKnown(cache))
  /\ \A t \in Tasks : /\ task[t].pc \in SavePcs
                      /\ task[t].pc # "idle" => HoldsKnown(task[t].config) /\ HoldsKnown(task[t].before)

\* A config that says the same of the keys holds the same ones.
LEMMA SameKnown ==
  ASSUME NEW c, NEW d, Same(c, d), HoldsKnown(c)
  PROVE  HoldsKnown(d)
<1>1. Shape(d)
  BY SameShape DEF HoldsKnown
<1> QED  BY <1>1 DEF HoldsKnown, Same, Keys

\* What waits in a config that holds known keys, a leftover one or not.
LEMMA PendingKnown ==
  ASSUME NEW c, HoldsKnown(c)
  PROVE  Pending(c) \in Seq(Entries(KnownKeys))
<1> DEFINE V == KnownKeys
           E == Entries(V)
           x == Waits(c.provider, c.key)
           y == Waits("custom", c.customKey)
           z == Waits("llm", c.llmKey)
<1>1. /\ c.provider \in Slots /\ "custom" \in Slots /\ "llm" \in Slots
      /\ c.key \in V /\ c.customKey \in V /\ c.llmKey \in V
  BY DEF HoldsKnown, Keys, Slots, Providers
<1>2. Pending(c) = (x \o y) \o z
  BY DEF Pending, PendingStt
<1> HIDE DEF V
<1>3. x \in Seq(E) /\ y \in Seq(E) /\ z \in Seq(E)
  BY <1>1, WaitsIs DEF Entries
<1> HIDE DEF E, x, y, z
<1>4. (x \o y) \o z \in Seq(E)
  BY <1>3, Joined
<1> QED  BY <1>2, <1>4 DEF E, V

\* A migration writes known keys only, and leaves known ones.
LEMMA MigratedKnown ==
  ASSUME NEW c, HoldsKnown(c), vault \in Vaults(KnownKeys), NEW m \in Migrations(c)
  PROVE  m.vault \in Vaults(KnownKeys) /\ HoldsKnown(m.config)
<1> DEFINE V   == KnownKeys
           all == Pending(c)
<1>1. PICK n \in 0 .. Len(all) :
        m = [vault |-> Written(vault, c, n), config |-> IF n = Len(all) THEN Cleared(c) ELSE c, ok |-> n = Len(all)]
  BY Zenon DEF Migrations
<1>2. m.vault = Written(vault, c, n) /\ (m.config = Cleared(c) \/ m.config = c)
  BY <1>1
<1>3. all \in Seq(Entries(V))
  BY PendingKnown
<1>4. n \in Nat /\ n <= Len(all)
  BY <1>1, <1>3
<1>5. m.vault \in Vaults(V)
  <2> DEFINE w == Written(vault, c, n)
  <2>1. IsFilled(V, vault, all, n, w)
    BY <1>3, <1>4, WritesRun
  <2> HIDE DEF V, all, w
  <2>2. PICK run \in [0 .. n -> Vaults(V)] : w = run[n]
    BY <2>1 DEF IsFilled
  <2>3. n \in 0 .. n
    BY <1>4
  <2>4. w \in Vaults(V)
    BY <2>2, <2>3
  <2> QED  BY <1>2, <2>4 DEF w
<1>6. HoldsKnown(Cleared(c))
  <2> DEFINE stt == { PendingStt(c)[i].slot : i \in DOMAIN PendingStt(c) }
             k1  == IF stt \ {"custom"} # {} THEN Nothing ELSE c.key
             k2  == IF "custom" \in stt THEN Nothing ELSE c.customKey
             d   == [c EXCEPT !.key = k1, !.customKey = k2, !.llmKey = Nothing]
  <2>1. Cleared(c) = d
    BY Zenon DEF Cleared
  <2>2. k1 \in {Nothing, c.key} /\ k2 \in {Nothing, c.customKey} /\ Nothing \in KnownKeys
    BY DEF KnownKeys
  <2> HIDE DEF k1, k2
  <2>3. DOMAIN d = DOMAIN c /\ d.provider = c.provider /\ d.key = k1 /\ d.customKey = k2 /\ d.llmKey = Nothing
    BY DEF HoldsKnown, Shape
  <2> HIDE DEF d
  <2> QED  BY <2>1, <2>2, <2>3 DEF HoldsKnown, Shape, Keys
<1> QED  BY <1>2, <1>5, <1>6

LEMMA SettingsTypesStart ==
  ASSUME SettingsInit
  PROVE  SettingsTyped
<1>1. EditInv
  BY EditStart
<1>2. disk \in Stores /\ ~up
  BY DEF SettingsInit
<1>3. disk.has \subseteq NewFields /\ disk.config \in StoredConfigs
  BY <1>2, InputsAssumption
<1> DEFINE c == disk.config
<1>4. Shape(c) /\ c.provider \in Providers
  BY <1>3 DEF StoredConfigs, Shape
<1>5. Nothing \in KnownKeys /\ {c.key, c.customKey, c.llmKey} \subseteq KnownKeys
  BY <1>2 DEF KnownKeys
<1> HIDE DEF c
<1>6. vault \in Vaults(KnownKeys)
  BY <1>5 DEF SettingsInit, Vaults
<1>7. given \in Vaults(KnownKeys)
  <2> DEFINE of(s) == CASE s = "llm"    -> c.llmKey
                        [] s = "custom" -> c.customKey
                        [] OTHER -> IF s = c.provider THEN c.key ELSE Nothing
  <2>1. given = [s \in Slots |-> of(s)]
    BY Zenon DEF SettingsInit, c
  <2>2. \A s \in Slots : of(s) \in KnownKeys
    BY <1>5
  <2> QED  BY <2>1, <2>2 DEF Vaults
<1>8. \A t \in Tasks : task[t].pc = "idle"
  BY DEF SettingsInit, NoTask
<1> QED  BY <1>1, <1>2, <1>3, <1>4, <1>5, <1>6, <1>7, <1>8 DEF SettingsTyped, HoldsKnown, Keys, SavePcs, c

LEMMA LoadsTyped ==
  ASSUME SettingsTyped, Loads
  PROVE  SettingsTyped'
<1> DEFINE c == FromStored(disk)
<1>1. EditInv'
  BY EditLoads DEF SettingsTyped
<1>2. PICK m \in Migrations(c) :
        /\ vault' = m.vault
        /\ cache' = m.config
        /\ disk' \in IF m.ok /\ Pending(c) # <<>> THEN {disk, Stored(m.config)} ELSE {disk}
  BY Zenon DEF Loads
<1>3. task' = task /\ given' = given
  BY Zenon DEF Loads
<1>4. HoldsKnown(c)
  <2>1. Shape(disk.config)
    BY DEF SettingsTyped, HoldsKnown
  <2> QED  BY <2>1, FromStoredSame, SameKnown DEF SettingsTyped
<1> HIDE DEF c
<1>5. m.vault \in Vaults(KnownKeys) /\ HoldsKnown(m.config)
  BY <1>2, <1>4, MigratedKnown DEF SettingsTyped
<1>6. disk' = disk \/ disk' = Stored(m.config)
  BY <1>2
<1>7. disk'.has \subseteq NewFields /\ HoldsKnown(disk'.config)
  <2>1. Stored(m.config).has = NewFields /\ Stored(m.config).config = m.config
    BY DEF Stored
  <2>2. CASE disk' = disk
    BY <2>2 DEF SettingsTyped
  <2>3. CASE disk' = Stored(m.config)
    BY <1>5, <2>1, <2>3
  <2> QED  BY <1>6, <2>2, <2>3
<1> QED  BY <1>1, <1>2, <1>3, <1>5, <1>7 DEF SettingsTyped

LEMMA SaveBeginsTyped ==
  ASSUME SettingsTyped, NEW t \in Tasks, NEW e, e.what \in EditKinds, NEW values, MayAsk(e.what, values),
         e.to \in values, CommandBegins(t, e)
  PROVE  SettingsTyped'
<1> DEFINE others == { u \in Tasks \ {t} : Saving(u) }
           config == Edited(cache, e)
           alone  == others = {}
           new    == [pc |-> "save", edit |-> e, before |-> cache, vaulted |-> TRUE,
                      config |-> config, alone |-> alone]
           of(u)  == IF u = t THEN new ELSE IF u \in others THEN [task[u] EXCEPT !.alone = FALSE] ELSE NoTask
<1>1. EditInv'
  BY EditBegins DEF SettingsTyped
<1>2. /\ disk' = disk /\ cache' = cache /\ up' = up /\ up /\ vault' = vault /\ given' = given
      /\ task' = [u \in Tasks |-> of(u)]
  BY Zenon DEF CommandBegins
<1>3. HoldsKnown(cache)
  BY <1>2 DEF SettingsTyped
<1>4. HoldsKnown(config)
  <2> DEFINE d == IF e.what = "provider" THEN [cache EXCEPT !.provider = e.to] ELSE cache
  <2>1. HoldsKnown(d)
    <3>1. e.what = "provider" => e.to \in Providers
      BY DEF MayAsk
    <3> DEFINE p == e.to
               x == [cache EXCEPT !.provider = p]
    <3> HIDE DEF p
    <3>2. /\ DOMAIN x = DOMAIN cache /\ x.provider = p
          /\ x.key = cache.key /\ x.customKey = cache.customKey /\ x.llmKey = cache.llmKey
      BY <1>3 DEF HoldsKnown, Shape
    <3> HIDE DEF x
    <3>3. p \in Providers => HoldsKnown(x)
      BY <1>3, <3>2 DEF HoldsKnown, Shape, Keys
    <3> QED  BY <1>3, <3>1, <3>3 DEF p, x
  <2>2. Same(d, config)
    BY <1>3, EditedSame DEF HoldsKnown
  <2> QED  BY <2>1, <2>2, SameKnown
<1>5. \A u : u \in others <=> u \in Tasks \ {t} /\ Saving(u)
  OBVIOUS
<1> HIDE DEF others, config, alone
<1>6. new.before = cache /\ new.config = config /\ new.pc = "save"
  OBVIOUS
<1> HIDE DEF new
<1>7. \A u \in Tasks : \/ task'[u] = new
                       \/ Saving(u) /\ task'[u] = [task[u] EXCEPT !.alone = FALSE]
                       \/ task'[u] = NoTask
  BY <1>2, <1>5
<1>8. \A u \in Tasks : DOMAIN task[u] = TaskFields
  BY DEF SettingsTyped, EditInv, TasksShaped
<1>9. NoTask.pc = "idle"
  BY DEF NoTask
<1>10. ASSUME NEW u \in Tasks
       PROVE  /\ task'[u].pc \in SavePcs
              /\ task'[u].pc # "idle" => HoldsKnown(task'[u].config) /\ HoldsKnown(task'[u].before)
  <2>1. CASE task'[u] = new
    BY <1>3, <1>4, <1>6, <2>1 DEF SavePcs
  <2>2. CASE Saving(u) /\ task'[u] = [task[u] EXCEPT !.alone = FALSE]
    <3>1. /\ task'[u].pc = task[u].pc /\ task'[u].before = task[u].before
          /\ task'[u].config = task[u].config
      BY <1>8, <2>2 DEF TaskFields
    <3> QED  BY <3>1 DEF SettingsTyped
  <2>3. CASE task'[u] = NoTask
    BY <1>9, <2>3 DEF SavePcs
  <2> QED  BY <1>7, <2>1, <2>2, <2>3
<1> QED  BY <1>1, <1>2, <1>10 DEF SettingsTyped

LEMMA MigratesTyped ==
  ASSUME SettingsTyped, NEW t \in Tasks, SaveMigrates(t)
  PROVE  SettingsTyped'
<1> DEFINE old == IF task[t].pc = "undo" THEN task[t].before ELSE task[t].config
           k   == task'[t]
<1>1. EditInv'
  BY EditMigrates DEF SettingsTyped
<1>2. /\ disk' = disk /\ cache' = cache /\ up' = up /\ given' = given /\ task[t].pc \in {"save", "undo"}
  BY Zenon DEF SaveMigrates
<1>3. PICK m \in Migrations(Normal(old)) :
        /\ vault' = m.vault
        /\ task' = [task EXCEPT ![t].config = m.config, ![t].vaulted = @ /\ m.ok,
                                ![t].pc = IF m.ok THEN IF @ = "undo" THEN "undoCache" ELSE "cache"
                                          ELSE IF @ = "undo" THEN "failed"
                                          ELSE Fails(t)]
  BY Zenon DEF SaveMigrates
<1>4. HoldsKnown(task[t].config) /\ HoldsKnown(task[t].before)
  BY <1>2 DEF SettingsTyped
<1>5. HoldsKnown(Normal(old))
  <2>1. HoldsKnown(old)
    BY <1>4
  <2> HIDE DEF old
  <2> QED  BY <2>1, NormalSame, SameKnown DEF HoldsKnown
<1> HIDE DEF old
<1>6. m.vault \in Vaults(KnownKeys) /\ HoldsKnown(m.config)
  BY <1>3, <1>5, MigratedKnown DEF SettingsTyped
<1>7. DOMAIN task = Tasks /\ \A u \in Tasks : DOMAIN task[u] = TaskFields
  BY DEF SettingsTyped, EditInv, TasksShaped
<1>8. /\ \A u \in Tasks \ {t} : task'[u] = task[u]
      /\ k.config = m.config /\ k.before = task[t].before
      /\ k.pc = IF m.ok THEN IF task[t].pc = "undo" THEN "undoCache" ELSE "cache"
                ELSE IF task[t].pc = "undo" THEN "failed" ELSE Fails(t)
  BY <1>3, <1>7 DEF TaskFields
<1>9. k.pc \in SavePcs
  BY <1>8 DEF Fails, SavePcs
<1> HIDE DEF k
<1>10. \A u \in Tasks : /\ task'[u].pc \in SavePcs
                        /\ task'[u].pc # "idle" => HoldsKnown(task'[u].config) /\ HoldsKnown(task'[u].before)
  BY <1>4, <1>6, <1>8, <1>9 DEF SettingsTyped, k
<1> QED  BY <1>1, <1>2, <1>3, <1>6, <1>10 DEF SettingsTyped

\* The other steps of a save.
LEMMA GoesTyped ==
  ASSUME SettingsTyped, NEW t \in Tasks, NEW pc \in SavePcs, TaskGoes(t, pc, task[t].config), task[t].pc # "idle",
         EditInv', up' = up, vault' = vault, given' = given,
         disk' = disk \/ disk' = Stored(task[t].config), cache' = cache \/ cache' = task[t].config
  PROVE  SettingsTyped'
<1>1. HoldsKnown(task[t].config) /\ HoldsKnown(task[t].before)
  BY DEF SettingsTyped
<1>2. /\ \A u \in Tasks \ {t} : task'[u] = task[u]
      /\ task'[t].pc = pc /\ task'[t].config = task[t].config /\ task'[t].before = task[t].before
  BY EditTaskGoes DEF SettingsTyped
<1>3. \A u \in Tasks : /\ task'[u].pc \in SavePcs
                       /\ task'[u].pc # "idle" => HoldsKnown(task'[u].config) /\ HoldsKnown(task'[u].before)
  BY <1>1, <1>2 DEF SettingsTyped
<1>4. disk'.has \subseteq NewFields /\ HoldsKnown(disk'.config)
  <2>1. Stored(task[t].config).has = NewFields /\ Stored(task[t].config).config = task[t].config
    BY DEF Stored
  <2>2. CASE disk' = disk
    BY <2>2 DEF SettingsTyped
  <2>3. CASE disk' = Stored(task[t].config)
    BY <1>1, <2>1, <2>3
  <2> QED  BY <2>2, <2>3
<1>5. up' => HoldsKnown(cache')
  BY <1>1 DEF SettingsTyped
<1> QED  BY <1>3, <1>4, <1>5 DEF SettingsTyped

LEMMA SettingsTypesStep ==
  ASSUME SettingsTyped, [SettingsNext]_settingsVars
  PROVE  SettingsTyped'
<1>1. EditInv'
  BY EditStep DEF SettingsTyped
<1>2. CASE Loads
  BY <1>2, LoadsTyped
<1>3. CASE Stops
  <2>1. disk' = disk /\ vault' = vault /\ given' = given /\ ~up' /\ task' = [t \in Tasks |-> NoTask]
    BY <1>3, Zenon DEF Stops
  <2>2. NoTask.pc = "idle"
    BY DEF NoTask
  <2> HIDE DEF NoTask
  <2>3. \A t \in Tasks : task'[t].pc = "idle"
    BY <2>1, <2>2
  <2> QED  BY <1>1, <2>1, <2>3 DEF SettingsTyped, SavePcs
<1>4. ASSUME NEW t \in Tasks, SaveMigrates(t)
      PROVE  SettingsTyped'
  BY <1>4, MigratesTyped
<1>5. ASSUME NEW t \in Tasks, SaveCaches(t)
      PROVE  SettingsTyped'
  <2> DEFINE pc == IF task[t].pc = "cache" THEN "persist" ELSE "undoPersist"
  <2>1. /\ task[t].pc \in {"cache", "undoCache"} /\ cache' = task[t].config /\ TaskGoes(t, pc, task[t].config)
        /\ disk' = disk /\ up' = up /\ vault' = vault /\ given' = given
    BY <1>5, Zenon DEF SaveCaches
  <2>2. pc \in SavePcs
    BY DEF SavePcs
  <2> HIDE DEF pc
  <2> QED  BY <1>1, <2>1, <2>2, GoesTyped
<1>6. ASSUME NEW t \in Tasks, SavePersists(t)
      PROVE  SettingsTyped'
  <2> DEFINE p == IF task[t].pc = "persist" THEN "done" ELSE "failed"
             q == IF task[t].pc = "persist" THEN Fails(t) ELSE "failed"
  <2>1. /\ task[t].pc \in {"persist", "undoPersist"}
        /\ \/ disk' = Stored(task[t].config) /\ TaskGoes(t, p, task[t].config)
           \/ disk' = disk /\ TaskGoes(t, q, task[t].config)
        /\ cache' = cache /\ up' = up /\ vault' = vault /\ given' = given
    BY <1>6, Zenon DEF SavePersists
  <2>2. p \in SavePcs /\ q \in SavePcs
    BY DEF SavePcs, Fails
  <2> HIDE DEF p, q
  <2> QED  BY <1>1, <2>1, <2>2, GoesTyped
<1>7. ASSUME NEW t \in Tasks, NEW what \in DOMAIN Wishes, NEW to \in Wishes[what],
             CommandBegins(t, [what |-> what, to |-> to])
      PROVE  SettingsTyped'
  <2> DEFINE e == [what |-> what, to |-> to]
             values == Wishes[what]
  <2>1. what \in EditKinds /\ MayAsk(what, values)
    BY InputsAssumption
  <2>2. e.what = what /\ e.to = to /\ to \in values
    OBVIOUS
  <2> HIDE DEF e, values
  <2> QED  BY <1>7, <2>1, <2>2, SaveBeginsTyped DEF e
<1>8. ASSUME NEW slot \in Slots, NEW key \in {Nothing, "new"}, SetsCredential(slot, key)
      PROVE  SettingsTyped'
  <2>1. /\ disk' = disk /\ cache' = cache /\ up' = up /\ task' = task
        /\ vault' = [vault EXCEPT ![slot] = key] /\ given' = [given EXCEPT ![slot] = key]
    BY <1>8, Zenon DEF SetsCredential
  <2>2. key \in KnownKeys
    BY DEF KnownKeys
  <2>3. vault' \in Vaults(KnownKeys) /\ given' \in Vaults(KnownKeys)
    BY <2>1, <2>2 DEF SettingsTyped, Vaults
  <2> QED  BY <1>1, <2>1, <2>3 DEF SettingsTyped
<1>9. CASE UNCHANGED settingsVars
  BY <1>1, <1>9 DEF settingsVars, SettingsTyped
<1> QED  BY <1>2, <1>3, <1>4, <1>5, <1>6, <1>7, <1>8, <1>9, Zenon DEF SettingsNext, TaskStep

LEMMA SettingsTypesFollow ==
  ASSUME SettingsTyped
  PROVE  SettingsTypeOK
<1>1. {vault, given} \subseteq [Slots -> KnownKeys]
  BY DEF SettingsTyped, Vaults
<1>2. up => cache = Normal(cache)
  <2>1. up => IsNormal(cache)
    BY DEF SettingsTyped, EditInv
  <2> QED  BY <2>1, NormalIsLoadable, NormalIs DEF NormalOf
<1> QED  BY <1>1, <1>2 DEF SettingsTyped, SettingsTypeOK, SavePcs

\* Every value that the settings keep is one of its type; a vault holds no other
\* keys than those that settings.json had or the user set; and what the running
\* program uses is normal, whatever was stored and whichever commands overlap.
THEOREM SettingsTypes == SettingsSpec => []SettingsTypeOK
<1>1. SettingsInit => SettingsTyped
  BY SettingsTypesStart
<1>2. SettingsTyped /\ [SettingsNext]_settingsVars => SettingsTyped'
  BY SettingsTypesStep
<1>3. SettingsTyped => SettingsTypeOK
  BY SettingsTypesFollow
<1> QED  BY <1>1, <1>2, <1>3, PTL DEF SettingsSpec
=============================================================================
