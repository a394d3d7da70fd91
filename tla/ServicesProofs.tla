--------------------------- MODULE ServicesProofs ---------------------------
(***************************************************************************)
(* Five of the services of the daemon, which share no state, each for any  *)
(* value of its constants: what the device observer's generation numbers   *)
(* mean, and that it implements the epochs its users rely on; that a       *)
(* settings file, and the session that holds it, are what the user was     *)
(* promised; that a C2 assessment is tracked and its evidence shown in its *)
(* scope only; that lookups share their cache without harm; and that the   *)
(* responses of the API server are bounded.                                *)
(***************************************************************************)
EXTENDS C2Assessment, DeviceObserver, Settings, MetadataCache, ApiServer, Integers,
        FiniteSetTheorems, SequenceTheorems, TLAPS

-----------------------------------------------------------------------------
(* DeviceObserver: the probe, the tracker and the failures readers report. *)

\* Before the first probe the tracker has seen nothing: only a first probe
\* then finds `sampled' FALSE, and it always starts a generation.
UnsampledIsUnknown == ~ snapshot.sampled => snapshot.saw = "unknown"

\* Each reader failure starts a generation, so there are no more of them; and
\* the count a probe began at tells exactly whether a reader failed since.
FailuresAreCounted ==
    /\ mutation <= Generation
    /\ probe # NoProbe => /\ probe.mutation <= mutation
                          /\ crossed <=> probe.mutation < mutation

ObserverInv ==
    /\ ObserverType
    /\ UnsampledIsUnknown
    /\ FailuresAreCounted

\* The invariant holds before the first probe.
LEMMA ObserverInitHolds == ObserverInit => ObserverInv
  <1> SUFFICES ASSUME ObserverInit PROVE ObserverInv
    OBVIOUS
  <1>1. probe \in Probes /\ crossed \in BOOLEAN
    BY DEF ObserverInit, Probes, NoProbe
  <1>2. ObserverType
    BY <1>1, ObserverConstants DEF ObserverInit, ObserverType, Sightings
  <1>3. UnsampledIsUnknown /\ FailuresAreCounted
    BY DEF ObserverInit, UnsampledIsUnknown, FailuresAreCounted, Generation
  <1> QED
    BY <1>2, <1>3 DEF ObserverInv

\* A probe's result leaves the tracker well formed, whichever sighting it is.
LEMMA TrackKeeps ==
    ASSUME ObserverInv, NEW saw \in Sightings, Track(saw)
    PROVE  /\ snapshot' \in [sampled : BOOLEAN, generation : 0..MaxObservations,
                             saw : Sightings]
           /\ snapshot'.sampled
           /\ snapshot'.generation \in {Generation, Generation + 1}
           /\ snapshot'.saw = saw
  <1>1. snapshot.generation \in 0..MaxObservations
    BY DEF ObserverInv, ObserverType
  <1>2. snapshot' = [sampled |-> TRUE, saw |-> saw,
                     generation |-> IF Tells(saw) THEN Generation + 1 ELSE Generation]
    BY DEF Track
  <1>3. (IF Tells(saw) THEN Generation + 1 ELSE Generation) \in 0..MaxObservations
    BY <1>1, ObserverConstants DEF Track, Generation
  <1>4. QED
    BY <1>2, <1>3

\* Every probe, report and change of the node keeps the invariant.
LEMMA ObserverStepHolds == ObserverInv /\ [ObserverNext]_observerVars => ObserverInv'
  <1> SUFFICES ASSUME ObserverInv, [ObserverNext]_observerVars PROVE ObserverInv'
    OBVIOUS
  <1> USE ObserverConstants
  <1>1. CASE NodeChanges
    BY <1>1 DEF NodeChanges, ObserverInv, ObserverType, UnsampledIsUnknown, FailuresAreCounted, Generation
  <1>2. CASE BeginProbe
    <2>1. probe' \in Probes /\ probe'.mutation = mutation
      BY <1>2 DEF BeginProbe, ObserverInv, ObserverType, Probes
    <2>2. crossed' \in BOOLEAN /\ ~ crossed' /\ UNCHANGED <<node, snapshot, mutation>>
      BY <1>2 DEF BeginProbe
    <2>3. mutation \in Nat /\ mutation <= Generation
      BY DEF ObserverInv, ObserverType, FailuresAreCounted
    <2>4. ObserverType' /\ UnsampledIsUnknown'
      BY <2>1, <2>2 DEF ObserverInv, ObserverType, UnsampledIsUnknown
    <2>5. FailuresAreCounted'
      <3>1. mutation' <= Generation' /\ probe'.mutation <= mutation' /\ ~ (probe'.mutation < mutation')
        BY <2>1, <2>2, <2>3 DEF Generation
      <3> QED
        BY <2>2, <3>1 DEF FailuresAreCounted
    <2>6. QED
      BY <2>4, <2>5 DEF ObserverInv
  <1>3. CASE ReadNode
    <2>1. PICK saw \in {node, "unknown"} :
            probe' = [at |-> "seen", mutation |-> probe.mutation, saw |-> saw]
      BY <1>3 DEF ReadNode
    <2>2. saw \in Sightings /\ probe.mutation \in Nat
      BY <1>3, <2>1 DEF ReadNode, ObserverInv, ObserverType, Probes, Sightings
    <2>3. probe' \in Probes /\ probe'.mutation = probe.mutation /\ probe # NoProbe
      BY <1>3, <2>1, <2>2 DEF Probes, ReadNode, NoProbe
    <2>4. QED
      BY <1>3, <2>3
         DEF ReadNode, ObserverInv, ObserverType, UnsampledIsUnknown, FailuresAreCounted, Generation
  <1>4. CASE EndProbe
    <2>1. probe' \in Probes /\ probe' = NoProbe
      BY <1>4 DEF EndProbe, Probes, NoProbe
    <2>2. CASE ProbeStands
      <3>1. probe.saw \in Sightings /\ Track(probe.saw)
        BY <1>4, <2>2 DEF EndProbe, ObserverInv, ObserverType, Probes
      <3>2. /\ snapshot' \in [sampled : BOOLEAN, generation : 0..MaxObservations,
                              saw : Sightings]
            /\ snapshot'.sampled
            /\ snapshot'.generation \in {Generation, Generation + 1}
        BY <3>1, TrackKeeps
      <3>3. QED
        BY <1>4, <2>1, <3>2
           DEF EndProbe, ObserverInv, ObserverType, UnsampledIsUnknown, FailuresAreCounted, Generation
    <2>3. CASE ~ ProbeStands
      BY <1>4, <2>1, <2>3
         DEF EndProbe, ObserverInv, ObserverType, UnsampledIsUnknown, FailuresAreCounted, Generation
    <2>4. QED
      BY <2>2, <2>3
  <1>5. CASE NoteReaderFailure
    <2>1. \/ probe = NoProbe
          \/ probe.mutation \in Nat
      BY DEF ObserverInv, ObserverType, Probes, NoProbe
    <2>2. mutation \in 0..MaxObservations /\ Generation \in 0..MaxObservations
      BY DEF ObserverInv, ObserverType, Generation
    <2>3. /\ mutation' = mutation + 1 /\ Generation' = Generation + 1 /\ Generation < MaxObservations
          /\ crossed' /\ crossed' \in BOOLEAN /\ UNCHANGED <<node, probe>>
          /\ snapshot' \in [sampled : BOOLEAN, generation : 0..MaxObservations, saw : Sightings]
          /\ snapshot'.sampled = snapshot.sampled /\ snapshot'.saw = snapshot.saw
      BY <1>5 DEF NoteReaderFailure, ObserverInv, ObserverType, Generation
    <2>4. ObserverType' /\ UnsampledIsUnknown'
      BY <2>2, <2>3 DEF ObserverInv, ObserverType, UnsampledIsUnknown, FailuresAreCounted
    <2>5. FailuresAreCounted'
      BY <2>1, <2>2, <2>3 DEF ObserverInv, FailuresAreCounted
    <2>6. QED
      BY <2>4, <2>5 DEF ObserverInv
  <1>6. CASE UNCHANGED observerVars
    BY <1>6 DEF observerVars, ObserverInv, ObserverType, UnsampledIsUnknown, FailuresAreCounted, Generation
  <1>7. QED
    BY <1>1, <1>2, <1>3, <1>4, <1>5, <1>6 DEF ObserverNext, ObserverThread

\* The invariant holds throughout.
LEMMA ObserverInvariant == ObserverSpec => []ObserverInv
  BY ObserverInitHolds, ObserverStepHolds, PTL DEF ObserverSpec

\* Type correctness, and what mutation_ counts: no reader failure is without
\* a generation of its own, and the count that DeviceLifecycleObserver::run
\* takes before a probe differs from the one after it exactly when a reader
\* was reported failed in between.
THEOREM ObserverTypeAlways == ObserverSpec => [](ObserverType /\ FailuresAreCounted)
  BY ObserverInvariant, PTL DEF ObserverInv

-----------------------------------------------------------------------------
(* Each step, against what the users of the observer rely on.              *)

\* What one step does to the tracker: nothing, or it starts a generation.
\* A reader failure and a probe's result are the only steps that touch it.
LEMMA TrackerStep ==
    ASSUME ObserverInv, [ObserverNext]_observerVars
    PROVE  \/ UNCHANGED <<Generation, snapshot.saw>>
           \/ /\ Generation < MaxObservations
              /\ Generation' = Generation + 1
  <1>1. CASE NodeChanges \/ BeginProbe \/ ReadNode \/ UNCHANGED observerVars
    BY <1>1 DEF NodeChanges, BeginProbe, ReadNode, observerVars, Generation
  <1>2. CASE NoteReaderFailure
    BY <1>2 DEF NoteReaderFailure, ObserverInv, ObserverType, Generation
  <1>3. CASE EndProbe
    <2>1. CASE ~ ProbeStands
      BY <1>3, <2>1 DEF EndProbe, Generation
    <2>2. CASE ProbeStands
      <3>1. Track(probe.saw)
        BY <1>3, <2>2 DEF EndProbe
      <3>2. CASE Tells(probe.saw)
        BY <3>1, <3>2 DEF Track, Generation
      <3>3. CASE ~ Tells(probe.saw)
        BY <3>1, <3>3 DEF Track, Tells, Generation
      <3>4. QED
        BY <3>2, <3>3
    <2>3. QED
      BY <2>1, <2>2
  <1>4. QED
    BY <1>1, <1>2, <1>3 DEF ObserverNext, ObserverThread

\* As long as the generation stays the same, the node the tracker last saw
\* has not been seen to change: MediaWorker, the epoch readers and the session
\* compare the number alone.
THEOREM GenerationNamesDeviceAlways == ObserverSpec => GenerationNamesDevice
  <1>1. ObserverInv /\ [ObserverNext]_observerVars
        => [snapshot'.generation = Generation => snapshot'.saw = snapshot.saw]_observerVars
    <2> SUFFICES ASSUME ObserverInv, [ObserverNext]_observerVars,
                        snapshot'.generation = Generation
                 PROVE  snapshot'.saw = snapshot.saw
      OBVIOUS
    <2>1. Generation \in Nat
      BY ObserverConstants DEF ObserverInv, ObserverType, Generation
    <2>2. Generation' # Generation + 1
      BY <2>1 DEF Generation
    <2>3. QED
      BY <2>2, TrackerStep
  <1>2. QED
    BY <1>1, ObserverInvariant, PTL DEF ObserverSpec, GenerationNamesDevice

\* The observer implements the epochs: permits() changes only as a generation
\* starts, so two positive answers for one generation, before and after a drive
\* operation, mean that it was permitted throughout.
THEOREM ObserverImplementsEpochs == ObserverSpec => ImplementsEpochs
  <1>1. ObserverInit => Epochs!EpochInit
    BY DEF ObserverInit, Epochs!EpochInit, Permits, Generation
  <1>2. ObserverInv /\ [ObserverNext]_observerVars => [Epochs!NewEpoch]_(Epochs!epochVars)
    <2> SUFFICES ASSUME ObserverInv, [ObserverNext]_observerVars
                 PROVE  [Epochs!NewEpoch]_(Epochs!epochVars)
      OBVIOUS
    <2>1. CASE UNCHANGED <<Generation, snapshot.saw>>
      BY <2>1 DEF Epochs!epochVars, Permits, Generation
    <2>2. CASE Generation < MaxObservations /\ Generation' = Generation + 1
      <3>1. Permits(Generation)' \in BOOLEAN
        BY DEF Permits
      <3>2. QED
        BY <2>2, <3>1 DEF Epochs!NewEpoch
    <2>3. QED
      BY <2>1, <2>2, TrackerStep
  <1>3. QED
    BY <1>1, <1>2, ObserverInvariant, PTL DEF ObserverSpec, ImplementsEpochs, Epochs!EpochSpec

\* Whatever the probe saw, and however often readers fail while it is under
\* way: a look from before a failure is dropped.
THEOREM OldLooksAreDroppedAlways == ObserverSpec => OldLooksAreDropped
  <1>1. ObserverInv /\ [ObserverNext]_observerVars
        => [crossed /\ probe.at = "seen" /\ probe' = NoProbe => UNCHANGED snapshot]_observerVars
    <2> SUFFICES ASSUME ObserverInv, [ObserverNext]_observerVars,
                        crossed, probe.at = "seen", probe' = NoProbe
                 PROVE  UNCHANGED snapshot
      OBVIOUS
    <2>1. probe # NoProbe /\ probe' # probe
      BY DEF NoProbe
    <2>2. EndProbe
      BY <2>1 DEF ObserverNext, ObserverThread, NodeChanges, BeginProbe, ReadNode,
                  NoteReaderFailure, observerVars
    <2>3. probe.mutation < mutation /\ mutation \in 0..MaxObservations /\ probe.mutation \in Nat
      BY <2>1 DEF ObserverInv, FailuresAreCounted, ObserverType, Probes
    <2>4. ~ ProbeStands
      BY <2>3, ObserverConstants DEF ProbeStands
    <2> QED
      BY <2>2, <2>4 DEF EndProbe
  <1>2. QED
    BY <1>1, ObserverInvariant, PTL DEF ObserverSpec, OldLooksAreDropped

\* All together: a user of the observer that finds the generation it remembers
\* permitted is on the same device, and was all the time; and what was seen
\* of it after a failed reader was looked for after that.
THEOREM EpochsAreKeptAlways == ObserverSpec => EpochsAreKept
  BY GenerationNamesDeviceAlways, ObserverImplementsEpochs, OldLooksAreDroppedAlways DEF EpochsAreKept

-----------------------------------------------------------------------------
(* Settings: what is in the file, what the session holds and what the user *)
(* was promised, through every step of a save, its failure and a crash.    *)

SaveSteps == {"write", "sync", "rename", "dirsync"}
Saves == [at : SaveSteps, command : {"policy", "background"}, pair : Pairs, synced : BOOLEAN]

Sessions == [up : BOOLEAN, configured : BOOLEAN, requested : Policies, effective : Policies, pending : BOOLEAN,
             playing : BOOLEAN, background : BOOLEAN, available : BOOLEAN, saved : BOOLEAN]

Disks == [found : Contents, left : SUBSET Contents]

SettingsTypes ==
    /\ disk \in Disks /\ session \in Sessions /\ promised \subseteq Contents
    /\ save # NoSave => /\ save \in Saves /\ session.up /\ session.configured
                        /\ (save.synced <=> save.at \in {"rename", "dirsync"})

\* Before its rename a save is unseen, after it the file is its pair; so the
\* file is one that was promised, whether or not the save then fails.
FileInv ==
    IF save # NoSave /\ save.at = "dirsync"
    THEN disk.found = save.pair /\ disk.left \subseteq promised \cup {save.pair}
    ELSE {disk.found} \cup disk.left \subseteq promised

\* The pair of a save is the other setting as it is requested, with the new one.
PairInv ==
    save # NoSave =>
        IF save.command = "policy" THEN save.pair.background = session.background
        ELSE /\ save.pair.policy = session.requested
             /\ session.background => save.pair.background

\* A save of OFF may have left the file behind; any other leaves it alone
\* until the rename.  Without a settings file nothing is taken from one.
StoredInv ==
    /\ session.saved /\ ~(save # NoSave /\ (save.at = "dirsync" \/ (save.command = "background" /\ ~save.pair.background)))
         => disk.found = Pair(session.requested, session.background)
    /\ session.configured /\ session.background => disk.found \in Pairs /\ disk.found.background
    /\ ~session.configured => ~session.saved

EffectInv == ~session.pending => session.effective = session.requested

SettingsInv == SettingsTypes /\ FileInv /\ PairInv /\ StoredInv /\ EffectInv

\* The record of a pair of settings, and the files that hold none.
LEMMA PairFacts ==
    /\ \A p \in Policies, b \in BOOLEAN :
          /\ Pair(p, b) \in Pairs /\ Pair(p, b).policy = p /\ Pair(p, b).background = b
    /\ \A pair \in Pairs : /\ pair.policy \in Policies /\ pair.background \in BOOLEAN
                           /\ pair = Pair(pair.policy, pair.background)
    /\ Missing \notin Pairs /\ Broken \notin Pairs
    /\ Pairs \subseteq Contents
<1>1. ASSUME NEW p \in Policies, NEW b \in BOOLEAN
      PROVE  Pair(p, b) \in Pairs /\ Pair(p, b).policy = p /\ Pair(p, b).background = b
  BY DEF Pairs, Pair
<1>2. ASSUME NEW pair \in Pairs
      PROVE  /\ pair.policy \in Policies /\ pair.background \in BOOLEAN
             /\ pair = Pair(pair.policy, pair.background) /\ pair.is = "pair"
  <2>1. PICK p \in Policies, b \in BOOLEAN : pair = Pair(p, b)
    BY DEF Pairs
  <2> QED
    BY <2>1 DEF Pair
<1>3. Missing.is # "pair" /\ Broken.is # "pair"
  BY DEF Missing, Broken
<1> QED
  BY <1>1, <1>2, <1>3 DEF Contents

\* The value that stands for no save is none.
LEMMA NotASave == NoSave.at = "none" /\ NoSave \notin Saves
BY DEF NoSave, Saves, SaveSteps

\* A session that is down is well formed and shows nothing.
LEMMA DownIsSession == Down \in Sessions /\ ~Down.up /\ ~Down.background /\ ~Down.saved /\ Down.effective = Down.requested
BY SettingsConstants DEF Down, Sessions

\* The invariant holds of any file found at the first start.
LEMMA SettingsInitHolds == SettingsInit => SettingsInv
<1> SUFFICES ASSUME SettingsInit PROVE SettingsInv
  OBVIOUS
<1>1. PICK c \in Contents : disk = [found |-> c, left |-> {c}] /\ promised = {c} /\ save = NoSave /\ session = Down
  BY DEF SettingsInit
<1>2. disk \in Disks /\ disk.found = c /\ disk.left = {c}
  BY <1>1 DEF Disks
<1>3. SettingsTypes
  BY <1>1, <1>2, DownIsSession DEF SettingsTypes
<1> QED
  BY <1>1, <1>2, <1>3, DownIsSession DEF SettingsInv, FileInv, PairInv, StoredInv, EffectInv

\* At its start the session shows what it finds.
LEMMA StartSessionKeeps == ASSUME SettingsInv, StartSession PROVE SettingsInv'
<1>1. PICK available \in BOOLEAN, configured \in BOOLEAN :
        session' = [Down EXCEPT !.up = TRUE, !.configured = configured,
                                !.requested = Restored(configured).policy,
                                !.effective = Restored(configured).policy,
                                !.background = Restored(configured).background, !.available = available,
                                !.saved = Loaded(configured)]
  BY DEF StartSession
<1>2. ~session.up /\ UNCHANGED <<disk, save, promised>>
  BY DEF StartSession
<1>3. save = NoSave
  BY <1>2 DEF SettingsInv, SettingsTypes
<1> DEFINE found == Loaded(configured)
           r == Restored(configured)
<1>4. /\ r \in Pairs /\ (found => r = disk.found /\ disk.found \in Pairs /\ configured)
      /\ (~found => r.background = FALSE)
  BY PairFacts, SettingsConstants DEF Restored, Loaded
<1>5. r.policy \in Policies /\ r.background \in BOOLEAN /\ found \in BOOLEAN /\ r = Pair(r.policy, r.background)
  BY <1>4, PairFacts DEF Loaded
<1>6. session' = [Down EXCEPT !.up = TRUE, !.configured = configured, !.requested = r.policy, !.effective = r.policy,
                              !.background = r.background, !.available = available, !.saved = found]
  BY <1>1
<1> HIDE DEF r, found
<1>7. /\ session' \in Sessions /\ session'.up /\ session'.requested = r.policy /\ session'.effective = r.policy
      /\ session'.background = r.background /\ session'.saved = found /\ session'.configured = configured
  BY <1>5, <1>6, DownIsSession DEF Sessions
<1>8. SettingsTypes' /\ FileInv' /\ PairInv'
  BY <1>2, <1>3, <1>7 DEF SettingsInv, SettingsTypes, FileInv, PairInv
<1>9. StoredInv' /\ EffectInv'
  BY <1>2, <1>4, <1>5, <1>7 DEF StoredInv, EffectInv
<1> QED
  BY <1>8, <1>9 DEF SettingsInv

\* A crash leaves one of the files that were promised, or the one under way.
LEMMA CrashKeeps == ASSUME SettingsInv, Crash PROVE SettingsInv'
<1>1. /\ session' = Down /\ save' = NoSave
      /\ promised' = promised \cup IF save = NoSave THEN {} ELSE {save.pair}
  BY DEF Crash
<1>2. disk' = disk \/ \E c \in disk.left : disk' = [found |-> c, left |-> {c}]
  BY DEF Crash
<1>3. disk \in Disks /\ disk.found \in Contents /\ disk.left \subseteq Contents /\ promised \subseteq Contents
  BY DEF SettingsInv, SettingsTypes, Disks
<1>4. save # NoSave => save.pair \in Contents
  BY PairFacts DEF SettingsInv, SettingsTypes, Saves
<1>5. disk' \in Disks /\ {disk'.found} \cup disk'.left \subseteq {disk.found} \cup disk.left
  BY <1>2, <1>3 DEF Disks
<1>6. {disk.found} \cup disk.left \subseteq promised'
  BY <1>1 DEF SettingsInv, FileInv
<1>7. SettingsTypes' /\ FileInv'
  BY <1>1, <1>3, <1>4, <1>5, <1>6, DownIsSession DEF SettingsTypes, FileInv
<1> QED
  BY <1>1, <1>7, DownIsSession DEF SettingsInv, PairInv, StoredInv, EffectInv

\* A session that goes on with the same settings, saved as they were.
LEMMA SameSettingsKeep ==
    ASSUME SettingsInv, save = NoSave, UNCHANGED <<disk, save, promised>>, session' \in Sessions,
           session'.up, session'.requested = session.requested, session'.background = session.background,
           session'.saved = session.saved, session'.configured = session.configured,
           ~session'.pending => session'.effective = session'.requested
    PROVE  SettingsInv'
BY DEF SettingsInv, SettingsTypes, FileInv, PairInv, StoredInv, EffectInv

\* Playback moves the effective policy only, and only to the requested one.
LEMMA PlaybackKeeps == ASSUME SettingsInv, Playback PROVE SettingsInv'
<1>1. Settled /\ UNCHANGED <<disk, save, promised>>
  BY DEF Playback, Play, Stop, ApplyPending, DeviceStops
<1>2. save = NoSave /\ session.up /\ session \in Sessions /\ (~session.pending => session.effective = session.requested)
  BY <1>1 DEF Settled, SettingsInv, SettingsTypes, EffectInv
<1>3. CASE Play \/ Stop
  <2>1. \E on \in BOOLEAN : session' = [session EXCEPT !.playing = on]
    BY <1>3 DEF Play, Stop
  <2>2. /\ session' \in Sessions /\ session'.up = session.up /\ session'.requested = session.requested
        /\ session'.background = session.background /\ session'.saved = session.saved
        /\ session'.pending = session.pending /\ session'.effective = session.effective
        /\ session'.configured = session.configured
    BY <1>2, <2>1 DEF Sessions
  <2> QED
    BY <1>1, <1>2, <2>2, SameSettingsKeep
<1>4. CASE ApplyPending \/ DeviceStops
  <2>1. \/ session' = [session EXCEPT !.effective = session.requested, !.pending = FALSE]
        \/ session' = [[session EXCEPT !.playing = FALSE] EXCEPT !.effective = session.requested, !.pending = FALSE]
    BY <1>2, <1>4 DEF ApplyPending, DeviceStops, Applied, Sessions
  <2>2. /\ session' \in Sessions /\ session'.up = session.up /\ session'.requested = session.requested
        /\ session'.background = session.background /\ session'.saved = session.saved
        /\ session'.effective = session.requested /\ session'.configured = session.configured
    BY ZenonT(30), <1>2, <2>1 DEF Sessions
  <2> QED
    BY <1>1, <1>2, <2>2, SameSettingsKeep
<1> QED
  BY <1>3, <1>4 DEF Playback

\* A policy that is accepted is requested, and in effect or pending.
LEMMA AcceptedFacts ==
    ASSUME NEW s \in Sessions, NEW policy \in Policies
    PROVE  /\ Accepted(s, policy) \in Sessions
           /\ Accepted(s, policy).up = s.up /\ Accepted(s, policy).configured = s.configured
           /\ Accepted(s, policy).saved = s.saved /\ Accepted(s, policy).background = s.background
           /\ Accepted(s, policy).requested = policy
           /\ ~Accepted(s, policy).pending => Accepted(s, policy).effective = policy
<1> DEFINE t == [s EXCEPT !.requested = policy]
<1>1. /\ t \in Sessions /\ t.up = s.up /\ t.configured = s.configured /\ t.saved = s.saved
      /\ t.background = s.background /\ t.requested = policy
  BY DEF Sessions
<1>2. Accepted(s, policy) = IF s.playing THEN [t EXCEPT !.pending = TRUE] ELSE Applied(t)
  BY DEF Accepted
<1> HIDE DEF t
<1>3. CASE s.playing
  <2>1. Accepted(s, policy) = [t EXCEPT !.pending = TRUE]
    BY <1>2, <1>3
  <2> DEFINE a == [t EXCEPT !.pending = TRUE]
  <2>2. /\ a \in Sessions /\ a.up = t.up /\ a.configured = t.configured /\ a.saved = t.saved
        /\ a.background = t.background /\ a.requested = t.requested /\ a.pending
    BY <1>1 DEF Sessions
  <2> HIDE DEF a
  <2> QED
    BY <1>1, <2>1, <2>2 DEF a
<1>4. CASE ~s.playing
  <2> DEFINE a == [t EXCEPT !.effective = t.requested, !.pending = FALSE]
  <2>1. Accepted(s, policy) = a
    BY <1>2, <1>4 DEF Applied
  <2>2. /\ a \in Sessions /\ a.up = t.up /\ a.configured = t.configured /\ a.saved = t.saved
        /\ a.background = t.background /\ a.requested = t.requested /\ a.effective = t.requested
    BY <1>1 DEF Sessions
  <2> HIDE DEF a
  <2> QED
    BY <1>1, <2>1, <2>2
<1> QED
  BY <1>3, <1>4

\* Without a settings file a session may come to any settings: no file is
\* touched, and none is said to hold them.
LEMMA SessionOnlyKeeps ==
    ASSUME SettingsInv, save = NoSave, ~session.configured, UNCHANGED <<disk, save, promised>>,
           session' \in Sessions, session'.up, ~session'.configured, session'.saved = session.saved,
           ~session'.pending => session'.effective = session'.requested
    PROVE  SettingsInv'
BY DEF SettingsInv, SettingsTypes, FileInv, PairInv, StoredInv, EffectInv

\* A save begins with both settings: the new one, and the other as requested.
LEMMA CommandsKeep == ASSUME SettingsInv, Commands PROVE SettingsInv'
<1>1. UNCHANGED <<disk, promised>> /\ Settled
  BY DEF Commands, SetReadPolicy, SetBackground
<1>2. /\ save = NoSave /\ session.up /\ session \in Sessions /\ (~session.pending => session.effective = session.requested)
      /\ session.requested \in Policies /\ session.background \in BOOLEAN
  BY <1>1 DEF Settled, SettingsInv, SettingsTypes, EffectInv, Sessions
<1>3. ASSUME NEW command \in {"policy", "background"}, NEW pair \in Pairs, BeginSave(command, pair)
      PROVE  /\ save' \in Saves /\ save' # NoSave /\ save'.at = "write" /\ save'.command = command /\ save'.pair = pair
             /\ (save'.synced <=> save'.at \in {"rename", "dirsync"})
  <2>1. save' = [at |-> "write", command |-> command, pair |-> pair, synced |-> FALSE]
    BY <1>3 DEF BeginSave
  <2>2. save' \in Saves
    BY <2>1 DEF Saves, SaveSteps
  <2> QED
    BY <2>1, <2>2, NotASave
<1>4. {disk.found} \cup disk.left \subseteq promised
  BY <1>2 DEF SettingsInv, FileInv
<1>5. ASSUME NEW policy \in Policies, SetReadPolicy(policy), session.configured PROVE SettingsInv'
  <2> DEFINE pair == Pair(policy, session.background)
  <2>1. session' = session /\ BeginSave("policy", pair)
    BY <1>5 DEF SetReadPolicy, PairWithPolicy
  <2>2. pair \in Pairs /\ pair.background = session.background
    BY <1>2, PairFacts
  <2> HIDE DEF pair
  <2>3. /\ save' \in Saves /\ save' # NoSave /\ save'.at = "write" /\ save'.command = "policy" /\ save'.pair = pair
        /\ (save'.synced <=> save'.at \in {"rename", "dirsync"})
    BY <1>3, <2>1, <2>2
  <2>4. SettingsTypes' /\ FileInv' /\ PairInv' /\ EffectInv'
    BY <1>1, <1>2, <1>4, <1>5, <2>1, <2>2, <2>3 DEF SettingsInv, SettingsTypes, FileInv, PairInv, EffectInv
  <2>5. StoredInv'
    BY <1>1, <1>2, <1>5, <2>1, <2>3 DEF SettingsInv, StoredInv
  <2> QED
    BY <2>4, <2>5 DEF SettingsInv
<1>6. ASSUME NEW on \in BOOLEAN, SetBackground(on), session.configured PROVE SettingsInv'
  <2> DEFINE pair == Pair(session.requested, on)
             b == session.background /\ on
  <2>1. session' = [session EXCEPT !.background = b] /\ BeginSave("background", pair)
    BY <1>6 DEF SetBackground
  <2>2. pair \in Pairs /\ pair.background = on /\ pair.policy = session.requested /\ b \in BOOLEAN
    BY <1>2, PairFacts
  <2>3. (b => session.background /\ on) /\ (on => b = session.background)
    BY <1>2
  <2> HIDE DEF pair, b
  <2>4. /\ session' \in Sessions /\ session'.up = session.up /\ session'.requested = session.requested
        /\ session'.background = b /\ session'.saved = session.saved /\ session'.configured
        /\ session'.pending = session.pending /\ session'.effective = session.effective
    BY <1>2, <1>6, <2>1, <2>2 DEF Sessions
  <2>5. /\ save' \in Saves /\ save' # NoSave /\ save'.at = "write" /\ save'.command = "background" /\ save'.pair = pair
        /\ (save'.synced <=> save'.at \in {"rename", "dirsync"})
    BY <1>3, <2>1, <2>2
  <2>6. SettingsTypes' /\ FileInv' /\ PairInv' /\ EffectInv'
    BY <1>1, <1>2, <1>4, <2>2, <2>3, <2>4, <2>5 DEF SettingsInv, SettingsTypes, FileInv, PairInv, EffectInv
  <2>7. StoredInv'
    BY <1>1, <1>2, <1>6, <2>2, <2>3, <2>4, <2>5 DEF SettingsInv, StoredInv
  <2> QED
    BY <2>6, <2>7 DEF SettingsInv
<1>7. ASSUME NEW policy \in Policies, SetReadPolicy(policy), ~session.configured PROVE SettingsInv'
  <2>1. session' = Accepted(session, policy) /\ UNCHANGED save
    BY <1>7 DEF SetReadPolicy
  <2> QED
    BY <1>1, <1>2, <1>7, <2>1, AcceptedFacts, SessionOnlyKeeps
<1>8. ASSUME NEW on \in BOOLEAN, SetBackground(on), ~session.configured PROVE SettingsInv'
  <2>1. session' = [session EXCEPT !.background = on] /\ UNCHANGED save
    BY <1>8 DEF SetBackground
  <2>2. /\ session' \in Sessions /\ session'.up = session.up /\ session'.configured = session.configured
        /\ session'.saved = session.saved /\ session'.requested = session.requested
        /\ session'.pending = session.pending /\ session'.effective = session.effective
    BY <1>2, <2>1 DEF Sessions
  <2> QED
    BY <1>1, <1>2, <1>8, <2>1, <2>2, SessionOnlyKeeps
<1> QED
  BY <1>5, <1>6, <1>7, <1>8 DEF Commands

\* The steps of a save up to its rename.
LEMMA WriteKeeps == ASSUME SettingsInv, Write \/ SyncFile PROVE SettingsInv'
<1>1. UNCHANGED <<disk, session, promised>>
  BY DEF Write, SyncFile
<1>2. save.at \in {"write", "sync"} /\ save # NoSave
  BY NotASave DEF Write, SyncFile
<1>3. save \in Saves /\ session.up /\ session.configured /\ ~save.synced
  BY <1>2 DEF SettingsInv, SettingsTypes
<1>4. /\ save' \in Saves /\ save'.at \in {"sync", "rename"} /\ save'.command = save.command /\ save'.pair = save.pair
      /\ (save'.synced <=> save'.at \in {"rename", "dirsync"})
  <2>1. CASE Write
    <3>1. save' = [save EXCEPT !.at = "sync"]
      BY <2>1 DEF Write
    <3> QED
      BY <1>3, <3>1 DEF Saves, SaveSteps
  <2>2. CASE SyncFile
    <3>1. save' = [save EXCEPT !.at = "rename", !.synced = TRUE]
      BY <2>2 DEF SyncFile
    <3>2. "rename" \in SaveSteps
      BY DEF SaveSteps
    <3>3. /\ save' \in Saves /\ save'.at = "rename" /\ save'.synced = TRUE
          /\ save'.command = save.command /\ save'.pair = save.pair
      BY <1>3, <3>1, <3>2 DEF Saves
    <3> QED
      BY <3>3
  <2> QED
    BY <2>1, <2>2
<1>5. save' # NoSave
  BY <1>4, NotASave
<1> QED
  BY <1>1, <1>2, <1>3, <1>4, <1>5 DEF SettingsInv, SettingsTypes, FileInv, PairInv, StoredInv, EffectInv

\* The rename puts a whole pair in place, for its contents are synced.
LEMMA RenameKeeps == ASSUME SettingsInv, Rename PROVE SettingsInv'
<1>1. /\ save.at = "rename" /\ UNCHANGED <<session, promised>> /\ save' = [save EXCEPT !.at = "dirsync"]
      /\ disk' = [found |-> save.pair, left |-> disk.left \cup {IF save.synced THEN save.pair ELSE Broken}]
  BY DEF Rename
<1>2. save # NoSave
  BY <1>1, NotASave
<1>3. save \in Saves /\ session.up /\ session.configured /\ save.synced /\ save.pair \in Pairs
  BY <1>1, <1>2 DEF SettingsInv, SettingsTypes, Saves
<1>4. /\ save' \in Saves /\ save'.at = "dirsync" /\ save'.command = save.command /\ save'.pair = save.pair
      /\ save'.synced = save.synced /\ save' # NoSave
  BY <1>1, <1>3, NotASave DEF Saves, SaveSteps
<1>5. disk \in Disks /\ promised \subseteq Contents /\ disk.left \subseteq promised
  BY <1>1, <1>2 DEF SettingsInv, SettingsTypes, FileInv
<1>6. disk' \in Disks /\ disk'.found = save.pair /\ disk'.left = disk.left \cup {save.pair}
  BY <1>1, <1>3, <1>5, PairFacts DEF Disks
<1>7. SettingsTypes' /\ FileInv' /\ PairInv' /\ EffectInv'
  BY <1>1, <1>2, <1>3, <1>4, <1>5, <1>6 DEF SettingsInv, SettingsTypes, FileInv, PairInv, EffectInv
<1>8. StoredInv'
  <2>1. session.background => save.pair.background
    BY <1>2, <1>3 DEF SettingsInv, SettingsTypes, PairInv, Saves, Sessions
  <2> QED
    BY <1>1, <1>3, <1>4, <1>6, <2>1 DEF StoredInv
<1> QED
  BY <1>7, <1>8 DEF SettingsInv

\* A save that fails before its rename leaves the file, and what the user has.
LEMMA SaveFailsKeeps == ASSUME SettingsInv, SaveFails PROVE SettingsInv'
<1>1. /\ save.at \in {"write", "sync", "rename"} /\ save' = NoSave /\ UNCHANGED <<disk, promised>>
      /\ session' = NotSaved(session)
  BY DEF SaveFails
<1>2. save # NoSave
  BY <1>1, NotASave
<1>3. save \in Saves /\ session.up /\ session.configured /\ session \in Sessions
  BY <1>2 DEF SettingsInv, SettingsTypes
<1> DEFINE off == save.command = "background" /\ ~save.pair.background
<1>4. session' = IF off THEN [session EXCEPT !.saved = FALSE] ELSE session
  BY <1>1 DEF NotSaved
<1>5. /\ session' \in Sessions /\ session'.up = session.up /\ session'.requested = session.requested
      /\ session'.background = session.background /\ session'.saved = (session.saved /\ ~off)
      /\ session'.pending = session.pending /\ session'.effective = session.effective
      /\ session'.configured
  BY <1>3, <1>4 DEF Sessions
<1>6. session.saved /\ ~off => disk.found = Pair(session.requested, session.background)
  BY <1>1 DEF SettingsInv, StoredInv
<1> HIDE DEF off
<1>7. SettingsTypes' /\ FileInv' /\ PairInv' /\ EffectInv'
  BY <1>1, <1>2, <1>3, <1>5 DEF SettingsInv, SettingsTypes, FileInv, PairInv, EffectInv
<1>8. StoredInv'
  BY <1>1, <1>3, <1>5, <1>6 DEF SettingsInv, StoredInv
<1> QED
  BY <1>7, <1>8 DEF SettingsInv

\* A save that is accepted is what the file says, and what is shown.
LEMMA SyncDirectoryKeeps == ASSUME SettingsInv, SyncDirectory PROVE SettingsInv'
<1>1. /\ save.at = "dirsync" /\ save' = NoSave /\ session' = Saved(session)
      /\ \/ disk' = [disk EXCEPT !.left = {save.pair}] /\ promised' = {save.pair}
         \/ disk' = disk /\ promised' = promised \cup {save.pair}
  BY DEF SyncDirectory
<1>2. save # NoSave
  BY <1>1, NotASave
<1>3. /\ save \in Saves /\ session.up /\ session.configured /\ session \in Sessions /\ save.pair \in Pairs /\ save.command \in {"policy", "background"}
      /\ disk \in Disks /\ promised \subseteq Contents
  BY <1>2 DEF SettingsInv, SettingsTypes, Saves
<1>4. save.pair.policy \in Policies /\ save.pair.background \in BOOLEAN /\ save.pair = Pair(save.pair.policy, save.pair.background)
      /\ save.pair \in Contents
  BY <1>3, PairFacts
<1>5. disk.found = save.pair /\ disk.left \subseteq promised \cup {save.pair}
  BY <1>1, <1>2 DEF SettingsInv, FileInv
<1>6. disk' \in Disks /\ disk'.found = save.pair /\ disk'.left \subseteq promised' /\ promised' \subseteq Contents /\ save.pair \in promised'
  BY <1>1, <1>3, <1>4, <1>5 DEF Disks
<1>7. IF save.command = "policy" THEN save.pair.background = session.background
      ELSE save.pair.policy = session.requested
  BY <1>2 DEF SettingsInv, PairInv
<1>8. /\ session' \in Sessions /\ session'.up /\ session'.configured
      /\ session'.requested = save.pair.policy /\ session'.background = save.pair.background
      /\ (~session'.pending => session'.effective = session'.requested)
  <2> DEFINE t == [session EXCEPT !.saved = TRUE]
  <2>1. /\ t \in Sessions /\ t.up = session.up /\ t.configured = session.configured
        /\ t.requested = session.requested /\ t.background = session.background
        /\ t.pending = session.pending /\ t.effective = session.effective
    BY <1>3 DEF Sessions
  <2>2. session' = IF save.command = "background" THEN [t EXCEPT !.background = save.pair.background]
                   ELSE Accepted(t, save.pair.policy)
    BY <1>1 DEF Saved
  <2> HIDE DEF t
  <2>3. CASE save.command = "background"
    <3>1. session' = [t EXCEPT !.background = save.pair.background]
      BY <2>2, <2>3
    <3>2. /\ session' \in Sessions /\ session'.up = t.up /\ session'.configured = t.configured
          /\ session'.requested = t.requested /\ session'.pending = t.pending
          /\ session'.effective = t.effective /\ session'.background = save.pair.background
      BY <1>4, <2>1, <3>1 DEF Sessions
    <3> QED
      BY <1>3, <1>7, <2>1, <2>3, <3>2 DEF SettingsInv, EffectInv
  <2>4. CASE save.command = "policy"
    <3>1. session' = Accepted(t, save.pair.policy)
      BY <2>2, <2>4
    <3>2. /\ session' \in Sessions /\ session'.up = t.up /\ session'.configured = t.configured
          /\ session'.background = t.background /\ session'.requested = save.pair.policy
          /\ ~session'.pending => session'.effective = save.pair.policy
      BY <1>4, <2>1, <3>1, AcceptedFacts
    <3> QED
      BY <1>3, <1>7, <2>1, <2>4, <3>2
  <2> QED
    BY <1>3, <2>3, <2>4
<1>9. SettingsTypes' /\ FileInv' /\ PairInv' /\ EffectInv'
  BY <1>1, <1>6, <1>8 DEF SettingsTypes, FileInv, PairInv, EffectInv
<1>10. StoredInv'
  BY <1>3, <1>4, <1>6, <1>8 DEF StoredInv
<1> QED
  BY <1>9, <1>10 DEF SettingsInv

\* Every step keeps the invariant.
LEMMA SettingsStepHolds == SettingsInv /\ [SettingsNext]_settingsVars => SettingsInv'
<1> SUFFICES ASSUME SettingsInv, [SettingsNext]_settingsVars PROVE SettingsInv'
  OBVIOUS
<1>1. CASE UNCHANGED settingsVars
  BY <1>1 DEF settingsVars, SettingsInv, SettingsTypes, FileInv, PairInv, StoredInv, EffectInv
<1> QED
  BY <1>1, StartSessionKeeps, CrashKeeps, PlaybackKeeps, CommandsKeep, WriteKeeps, RenameKeeps, SaveFailsKeeps,
     SyncDirectoryKeeps DEF SettingsNext

\* The invariant says that the settings are honest.
LEMMA SettingsInvMeans == SettingsInv => SettingsAreHonest
<1> SUFFICES ASSUME SettingsInv PROVE SettingsAreHonest
  OBVIOUS
<1>1. SettingsType
  BY DEF SettingsInv, SettingsTypes, SettingsType, Disks, Sessions, Saves
<1>2. RestartFindsAPromise
  BY DEF SettingsInv, FileInv, RestartFindsAPromise
<1>3. SavedIsHonest
  <2>1. Settled /\ session.saved => disk.found = Pair(session.requested, session.background)
    BY DEF SettingsInv, StoredInv, Settled
  <2>2. ~session.configured => ~session.saved /\ save = NoSave
    BY DEF SettingsInv, SettingsTypes, StoredInv
  <2> QED
    BY <2>1, <2>2 DEF SavedIsHonest
<1>4. ConsentIsStored /\ PendingIsHonest
  BY DEF SettingsInv, StoredInv, EffectInv, ConsentIsStored, PendingIsHonest, Settled
<1> QED
  BY <1>1, <1>2, <1>3, <1>4 DEF SettingsAreHonest

\* For any policies, whatever step of save_settings() fails or is cut short by
\* a crash or a power loss, and whichever sessions run without a settings file:
\* a restart finds a pair the user was promised, what is shown as saved is in
\* the file, photographs have a stored consent where there is a file to store
\* it in, and the policy in effect is the one requested unless it is shown as
\* pending.
THEOREM SettingsAreHonestAlways == SettingsSpec => []SettingsAreHonest
<1>1. SettingsSpec => []SettingsInv
  BY SettingsInitHolds, SettingsStepHolds, PTL DEF SettingsSpec
<1> QED
  BY <1>1, SettingsInvMeans, PTL

-----------------------------------------------------------------------------
(* C2Assessment: the session and the media worker's thread.                *)

Labels == {"idle", "check", "wait", "admit", "operate", "judge", "finish", "exited"}
AssessWorks == {"none", "assess_c2"}
Evidences == [known : BOOLEAN, device : 0..MaxContexts, revision : 0..MaxContexts]
C2Results == [work : {"assess_c2"}, job : 0..MaxJobs, gen : 0..MaxContexts,
              outcome : Outcomes \cup RunOutcomes, spoilt : BOOLEAN]

AtMostOne(s) == s = <<>> \/ \E r \in C2Results : s = <<r>>

WorkerTypes ==
    /\ pending \in [work : AssessWorks, job : 0..MaxJobs]
    /\ task \in [work : AssessWorks, job : 0..MaxJobs, gen : 0..MaxContexts]
    /\ stage \in Labels /\ outcome \in Outcomes \cup RunOutcomes
    /\ cancelled \in BOOLEAN /\ executed \in BOOLEAN /\ spoilt \in BOOLEAN /\ closing \in BOOLEAN
    /\ AtMostOne(results)
    /\ observed = device /\ drive \in {"free", "media", "other"}

AssessTypes ==
    /\ device \in 0..MaxContexts /\ revision \in 0..MaxContexts /\ permitted \in {device, MaxContexts + 1}
    /\ ready \in BOOLEAN /\ quiet \in BOOLEAN /\ active \in BOOLEAN /\ released \in BOOLEAN /\ reference \in BOOLEAN
    /\ state \in States /\ job \in 0..MaxJobs
    /\ scope \in Evidences /\ flag \in Evidences /\ AtMostOne(staged)

\* One thing at a time is with the worker: it is asked for, worked on, or
\* answered; it is of the last job, and an answer is of the present device.
JobInv ==
    /\ pending # Nothing => pending.work = "assess_c2" /\ pending.job = job /\ ~Busy /\ results = <<>>
    /\ Busy => task.work = "assess_c2" /\ task.job = job /\ task.gen <= observed /\ results = <<>>
    /\ results # <<>> => ~cancelled
    /\ \A i \in DOMAIN results : ~results[i].spoilt /\ results[i].gen = observed /\ results[i].job = job
    /\ stage = "exited" => closing

\* An operation that was spoilt stays so: what was permitted no more is not
\* permitted again for the same generation.
SpoiltInv ==
    /\ spoilt => stage \in {"judge", "finish"}
    /\ spoilt /\ stage = "judge" => ~Current(task.gen)
    /\ spoilt /\ stage = "finish" => ~executed

\* A released assessment has nothing with the worker; what is staged came back.
HoldInv ==
    /\ released => Idle
    /\ staged # <<>> => released

\* A job that is running was not cancelled, is on its device, and its work is
\* on its way to a result.
OnItsWay ==
    \/ pending # Nothing \/ results # <<>> \/ staged # <<>>
    \/ Busy /\ (stage \in {"operate", "judge", "finish"} => executed)

RunInv ==
    /\ active => scope.known
    /\ active /\ state = "RUNNING" =>
         /\ ~cancelled /\ scope.device = device
         /\ Busy => task.gen = observed
         /\ permitted = device /\ ~closing => OnItsWay

EvidenceInv == state = "COMPLETE" => flag = scope /\ scope.known

AssessInv == WorkerTypes /\ AssessTypes /\ JobInv /\ SpoiltInv /\ HoldInv /\ RunInv /\ EvidenceInv

\* A sequence of at most one result.
LEMMA OneFacts ==
    /\ AtMostOne(<<>>)
    /\ \A r \in C2Results : /\ AtMostOne(<<r>>) /\ <<r>> # <<>> /\ DOMAIN <<r>> = {1} /\ <<r>>[1] = r /\ Len(<<r>>) = 1
                            /\ Head(<<r>>) = r /\ Tail(<<r>>) = <<>> /\ Append(<<>>, r) = <<r>>
<1>1. AtMostOne(<<>>)
  BY DEF AtMostOne
<1>2. ASSUME NEW r \in C2Results
      PROVE  /\ AtMostOne(<<r>>) /\ <<r>> # <<>> /\ DOMAIN <<r>> = {1} /\ <<r>>[1] = r /\ Len(<<r>>) = 1
             /\ Head(<<r>>) = r /\ Tail(<<r>>) = <<>> /\ Append(<<>>, r) = <<r>>
  <2>1. AtMostOne(<<r>>)
    BY DEF AtMostOne
  <2>2. <<r>> # <<>> /\ DOMAIN <<r>> = {1} /\ <<r>>[1] = r /\ Len(<<r>>) = 1 /\ Head(<<r>>) = r
    OBVIOUS
  <2>3. Tail(<<r>>) = <<>> /\ Append(<<>>, r) = <<r>>
    OBVIOUS
  <2> QED
    BY <2>1, <2>2, <2>3
<1> QED
  BY <1>1, <1>2

\* The value that stands for no evidence is well formed.
LEMMA NoEvidenceType == NoEvidence \in Evidences
BY ContextBound DEF NoEvidence, Evidences

\* The value that stands for no request is well formed.
LEMMA NothingFacts == Nothing.work = "none" /\ Nothing \in [work : AssessWorks, job : 0..MaxJobs]
BY MediaConstants DEF Nothing, AssessWorks

\* cancel_c2() leaves nothing with the worker but what it is at.
LEMMA CancelDrops ==
    ASSUME AssessInv, CancelC2
    PROVE  /\ cancelled' = TRUE /\ pending' = Nothing /\ results' = <<>>
           /\ UNCHANGED <<observed, task, stage, executed, outcome, spoilt, closing>>
           /\ Idle' <=> ~Busy
<1>1. pending' = Nothing
  BY DEF CancelC2, AssessInv, JobInv
<1>2. results' = <<>>
  <2> DEFINE kept == {i \in DOMAIN results : results[i].work # "assess_c2"}
             n == Cardinality(kept)
             at(k) == results[CHOOSE i \in kept : Cardinality({j \in kept : j < i}) = k - 1]
  <2>1. kept = {}
    <3>1. AtMostOne(results)
      BY DEF AssessInv, WorkerTypes
    <3>2. CASE results = <<>>
      BY <3>2
    <3>3. CASE \E r \in C2Results : results = <<r>>
      BY <3>3 DEF C2Results
    <3> QED
      BY <3>1, <3>2, <3>3 DEF AtMostOne
  <2>2. n = 0
    BY <2>1, FS_EmptySet
  <2>3. results' = [k \in 1..n |-> at(k)]
    BY DEF CancelC2, OtherResults
  <2> HIDE DEF n, at
  <2>4. 1..n = {}
    BY <2>2
  <2> QED
    BY <2>3, <2>4
<1>3. cancelled' = TRUE /\ UNCHANGED <<observed, task, stage, executed, outcome, spoilt, closing>>
  BY DEF CancelC2, runVars
<1> QED
  BY <1>1, <1>2, <1>3 DEF Idle, Busy

\* A step that takes back what the worker was asked for, whatever it is at.
LEMMA DropKeeps ==
    ASSUME AssessInv, UNCHANGED <<task, stage, executed, outcome, spoilt, closing, drive, job, scope>>,
           cancelled' = TRUE, pending' = Nothing, results' = <<>>,
           observed' = device', device' \in 0..MaxContexts,
           (device' = device /\ permitted' = permitted) \/ (device' = device + 1 /\ permitted' = device'),
           revision' \in 0..MaxContexts, ready' \in BOOLEAN, quiet' \in BOOLEAN, reference' \in BOOLEAN,
           active, active' \in BOOLEAN, released' \in BOOLEAN, released' => ~Busy,
           state' \in {"CANCELLED", "INVALIDATED"}, staged' = <<>>, flag' = NoEvidence
    PROVE  AssessInv'
<1>1. WorkerTypes'
  BY OneFacts, NothingFacts DEF AssessInv, WorkerTypes
<1>2. AssessTypes'
  BY OneFacts, NoEvidenceType DEF AssessInv, AssessTypes, States
<1>3. device \in Nat /\ observed = device /\ task.gen \in Nat /\ device' \in Nat
  BY DEF AssessInv, AssessTypes, WorkerTypes
<1>4. JobInv'
  BY <1>3 DEF AssessInv, JobInv, Busy
<1>5. SpoiltInv'
  <2>1. stage = "judge" => task.gen <= observed
    BY DEF AssessInv, JobInv, Busy
  <2>2. stage = "judge" /\ Current(task.gen)' => Current(task.gen)
    BY <1>3, <2>1 DEF Current
  <2> QED
    BY <2>2 DEF AssessInv, SpoiltInv
<1>6. HoldInv' /\ RunInv' /\ EvidenceInv'
  BY DEF AssessInv, HoldInv, RunInv, EvidenceInv, Idle, Busy
<1> QED
  BY <1>1, <1>2, <1>4, <1>5, <1>6 DEF AssessInv

\* A step of the session that leaves the worker alone.
LEMMA WorkerSameKeeps ==
    ASSUME AssessInv, UNCHANGED <<mediaVars, job, scope, device>>, drive' \in {"free", "media", "other"},
           permitted' \in {permitted, MaxContexts + 1},
           revision' \in 0..MaxContexts, ready' \in BOOLEAN, quiet' \in BOOLEAN, reference' \in BOOLEAN,
           active' \in BOOLEAN, released' \in BOOLEAN, state' \in States, flag' \in Evidences,
           staged' = staged \/ staged' = <<>>,
           released' => Idle, staged' # <<>> => released',
           active' => active, active' /\ state' = "RUNNING" => state = "RUNNING" /\ staged' = staged,
           state' = "COMPLETE" => flag' = scope /\ scope.known
    PROVE  AssessInv'
<1>1. UNCHANGED <<pending, cancelled, observed, task, stage, executed, outcome, spoilt, results, closing>>
  BY DEF mediaVars, requestVars, runVars
<1>2. WorkerTypes'
  BY <1>1 DEF AssessInv, WorkerTypes, AtMostOne
<1>3. AssessTypes'
  <2>1. AtMostOne(staged')
    BY OneFacts DEF AssessInv, AssessTypes
  <2> QED
    BY <2>1 DEF AssessInv, AssessTypes, AtMostOne
<1>4. JobInv'
  BY <1>1 DEF AssessInv, JobInv, Busy
<1>5. device # MaxContexts + 1 /\ observed = device
  BY ContextBound DEF AssessInv, AssessTypes, WorkerTypes
<1>6. SpoiltInv'
  BY <1>1, <1>5 DEF AssessInv, SpoiltInv, Current
<1>7. HoldInv'
  BY <1>1 DEF HoldInv, Idle, Busy
<1>8. RunInv'
  BY <1>1, <1>5 DEF AssessInv, RunInv, OnItsWay, Busy
<1> QED
  BY <1>2, <1>3, <1>4, <1>6, <1>7, <1>8 DEF AssessInv, EvidenceInv

\* start() asks the idle worker for a job of the next number.
LEMMA StartC2Keeps == ASSUME AssessInv, Start PROVE AssessInv'
<1>1. /\ ~active /\ permitted = device /\ Idle /\ job < MaxJobs /\ job' = job + 1
      /\ pending' = [work |-> "assess_c2", job |-> job + 1] /\ cancelled' = FALSE
      /\ reference' = TRUE /\ scope' = [known |-> TRUE, device |-> device, revision |-> revision]
      /\ staged' = <<>> /\ flag' = NoEvidence /\ state' = "RUNNING" /\ active' = TRUE /\ released' = FALSE
      /\ UNCHANGED <<observed, task, stage, executed, outcome, spoilt, results, closing>>
      /\ UNCHANGED <<device, revision, ready, quiet, permitted, drive>>
  BY DEF Start, CanStart, DeviceCurrent, RequestC2, runVars, contextVars
<1>2. job' \in 0..MaxJobs
  BY <1>1, MediaConstants DEF AssessInv, AssessTypes
<1>3. WorkerTypes'
  BY <1>1, <1>2, OneFacts DEF AssessInv, WorkerTypes, AssessWorks, Idle
<1>4. scope' \in Evidences /\ scope'.known /\ scope'.device = device
  BY <1>1 DEF AssessInv, AssessTypes, Evidences
<1>5. AssessTypes'
  BY <1>1, <1>2, <1>4, OneFacts, NoEvidenceType DEF AssessInv, AssessTypes, States
<1>6. JobInv' /\ SpoiltInv' /\ HoldInv'
  BY <1>1 DEF AssessInv, JobInv, SpoiltInv, HoldInv, Idle, Busy, Current
<1>7. RunInv' /\ EvidenceInv'
  <2>1. pending' # Nothing
    BY <1>1, NothingFacts
  <2> QED
    BY <1>1, <1>4, <2>1 DEF RunInv, EvidenceInv, OnItsWay, Idle, Busy
<1> QED
  BY <1>3, <1>5, <1>6, <1>7 DEF AssessInv

\* What the session offers came back, so nothing of the job is left elsewhere.
LEMMA OfferKeeps == ASSUME AssessInv, Offer PROVE AssessInv'
<1>1. /\ results # <<>> /\ results' = Tail(results)
      /\ UNCHANGED <<pending, cancelled, observed, task, stage, executed, outcome, spoilt, closing>>
      /\ UNCHANGED <<active, state, job, reference, scope, flag, device, revision, ready, quiet, permitted, drive>>
  BY DEF Offer, Pop, requestVars, runVars, contextVars
<1>2. PICK r \in C2Results : results = <<r>>
  BY <1>1 DEF AssessInv, WorkerTypes, AtMostOne
<1>3. /\ results' = <<>> /\ Head(results) = r /\ r.work = "assess_c2" /\ r.job = job /\ r.gen = observed
      /\ pending = Nothing /\ ~Busy /\ ~cancelled
  <2>1. results' = <<>> /\ Head(results) = r /\ results[1] = r /\ 1 \in DOMAIN results
    BY <1>1, <1>2, OneFacts
  <2>2. r.work = "assess_c2"
    BY DEF C2Results
  <2> QED
    BY <1>1, <2>1, <2>2 DEF AssessInv, JobInv
<1>4. /\ released' = TRUE
      /\ staged' = IF active /\ state = "RUNNING" /\ r.gen = scope.device THEN <<r>> ELSE staged
  BY <1>3 DEF Offer
<1>5. WorkerTypes'
  BY <1>1, <1>3, OneFacts DEF AssessInv, WorkerTypes
<1>6. AtMostOne(staged')
  BY <1>4, OneFacts DEF AssessInv, AssessTypes
<1>7. AssessTypes'
  BY <1>1, <1>4, <1>6 DEF AssessInv, AssessTypes, AtMostOne
<1>8. JobInv' /\ SpoiltInv' /\ HoldInv'
  BY <1>1, <1>3, <1>4 DEF AssessInv, JobInv, SpoiltInv, HoldInv, Idle, Busy, Current
<1>9. RunInv' /\ EvidenceInv'
  <2>1. active /\ state = "RUNNING" => staged' # <<>>
    <3> HAVE active /\ state = "RUNNING"
    <3>1. r.gen = scope.device
      BY <1>3 DEF AssessInv, RunInv, WorkerTypes
    <3> QED
      BY <1>4, <3>1, OneFacts
  <2> QED
    BY <1>1, <2>1 DEF AssessInv, RunInv, EvidenceInv, OnItsWay, Busy
<1> QED
  BY <1>5, <1>7, <1>8, <1>9 DEF AssessInv

\* A command interrupts, and changes something only once it is released.
LEMMA CommandKeeps == ASSUME AssessInv, Command PROVE AssessInv'
<1>1. /\ Interrupt /\ UNCHANGED <<device, ready, permitted, job, reference, scope, drive>>
      /\ quiet' \in BOOLEAN /\ revision' \in 0..MaxContexts
  <2>1. quiet' = quiet \/ quiet' = ~quiet
    BY DEF Command
  <2>2. revision' = revision \/ (revision < MaxContexts /\ revision' = revision + 1)
    BY DEF Command
  <2>3. quiet \in BOOLEAN /\ revision \in 0..MaxContexts
    BY DEF AssessInv, AssessTypes
  <2>4. revision' \in 0..MaxContexts
    BY <2>2, <2>3, ContextBound
  <2> QED
    BY <2>1, <2>3, <2>4 DEF Command
<1>2. AssessTypes /\ WorkerTypes
  BY DEF AssessInv
<1>3. CASE active
  <2>1. /\ CancelC2 /\ staged' = <<>> /\ flag' = NoEvidence /\ state' = "CANCELLED"
        /\ released' = Idle' /\ active' = ~Idle'
    BY <1>1, <1>3 DEF Interrupt
  <2>2. active' \in BOOLEAN /\ released' \in BOOLEAN
    BY <2>1 DEF Idle
  <2> QED
    BY <1>1, <1>2, <1>3, <2>1, <2>2, CancelDrops, DropKeeps DEF AssessTypes, WorkerTypes
<1>4. CASE ~active
  <2>1. UNCHANGED <<mediaVars, staged, flag, state, released, active>>
    BY <1>1, <1>4 DEF Interrupt
  <2> QED
    BY <1>1, <1>2, <2>1, WorkerSameKeeps DEF AssessInv, AssessTypes, WorkerTypes, HoldInv, EvidenceInv
<1> QED
  BY <1>3, <1>4

\* cancel() of the job, or poll() in another context.
LEMMA WithdrawKeeps == ASSUME AssessInv, Cancel \/ PollOutdated PROVE AssessInv'
<1>1. /\ UNCHANGED <<job, scope, device, revision, ready, quiet, permitted, drive>>
      /\ reference' = FALSE /\ flag' = NoEvidence /\ staged' = <<>> /\ state' \in {"CANCELLED", "INVALIDATED"}
      /\ IF active THEN CancelC2 /\ released' = Idle' /\ active' = ~Idle'
                   ELSE UNCHANGED <<mediaVars, released, active>>
  BY DEF Cancel, PollOutdated, contextVars
<1>2. AssessTypes /\ WorkerTypes
  BY DEF AssessInv
<1>3. CASE active
  <2>1. active' \in BOOLEAN /\ released' \in BOOLEAN
    BY <1>1, <1>3 DEF Idle
  <2> QED
    BY <1>1, <1>2, <1>3, <2>1, CancelDrops, DropKeeps DEF AssessTypes, WorkerTypes
<1>4. CASE ~active
  BY <1>1, <1>2, <1>4, NoEvidenceType, WorkerSameKeeps DEF AssessInv, AssessTypes, WorkerTypes, HoldInv, States
<1> QED
  BY <1>3, <1>4

\* poll() of an interrupted run, or of one that came back.
LEMMA PollKeeps == ASSUME AssessInv, PollReleasing \/ PollStaged PROVE AssessInv'
<1>1. AssessTypes /\ WorkerTypes /\ HoldInv /\ RunInv /\ EvidenceInv
  BY DEF AssessInv
<1>2. CASE PollReleasing
  <2>1. (released \/ Idle) /\ active' = FALSE /\ released' = TRUE
    BY <1>2 DEF PollReleasing
  <2>2. UNCHANGED <<mediaVars, state, job, reference, scope, staged, flag, device, revision, ready, quiet, permitted, drive>>
    BY <1>2 DEF PollReleasing, contextVars
  <2> QED
    BY <1>1, <1>2, <2>1, <2>2, WorkerSameKeeps DEF PollReleasing, AssessTypes, WorkerTypes, HoldInv, EvidenceInv
<1>3. CASE PollStaged
  <2>1. /\ active /\ staged # <<>> /\ staged' = <<>> /\ active' = FALSE /\ released' = TRUE
        /\ UNCHANGED <<mediaVars, job, reference, scope, device, revision, ready, quiet, permitted, drive>>
    BY <1>3 DEF PollStaged, contextVars
  <2>2. PICK r \in C2Results : staged = <<r>>
    BY <1>1, <2>1 DEF AssessTypes, AtMostOne
  <2>3. Head(staged) = r
    BY <2>2, OneFacts
  <2>4. /\ state' = IF ContextCurrent THEN StateOf(r.outcome) ELSE "INVALIDATED"
        /\ flag' = IF ContextCurrent /\ r.outcome = "complete" THEN scope ELSE flag
    BY <1>3, <2>3 DEF PollStaged
  <2>5. state' \in States /\ (state' = "COMPLETE" => ContextCurrent /\ r.outcome = "complete")
    BY <2>4 DEF StateOf, States
  <2>6. flag' \in Evidences /\ (state' = "COMPLETE" => flag' = scope /\ scope.known)
    BY <1>1, <2>1, <2>4, <2>5 DEF AssessTypes, RunInv
  <2>7. Idle
    BY <1>1, <2>1 DEF HoldInv
  <2> QED
    BY <1>1, <2>1, <2>5, <2>6, <2>7, WorkerSameKeeps DEF AssessTypes, WorkerTypes
<1> QED
  BY <1>2, <1>3

\* The device, the disc, and who else is on the drive.
LEMMA ContextKeeps ==
    ASSUME AssessInv, DeviceChanges \/ LoadDisc \/ LoseDisc \/ OtherTakesDrive \/ OtherReturnsDrive
    PROVE  AssessInv'
<1>1. AssessTypes /\ WorkerTypes /\ HoldInv /\ EvidenceInv
  BY DEF AssessInv
<1>2. UNCHANGED <<mediaVars, device, active, released, state, job, reference, scope, staged, flag>>
  BY DEF DeviceChanges, LoadDisc, LoseDisc, OtherTakesDrive, OtherReturnsDrive, assessVars, contextVars
<1>3. permitted' \in {permitted, MaxContexts + 1} /\ drive' \in {drive, "free", "other"}
  BY DEF DeviceChanges, LoadDisc, LoseDisc, OtherTakesDrive, OtherReturnsDrive, contextVars
<1>4. revision' \in 0..MaxContexts
  <2>1. revision' = revision \/ (revision < MaxContexts /\ revision' = revision + 1)
    BY DEF DeviceChanges, LoadDisc, LoseDisc, OtherTakesDrive, OtherReturnsDrive, contextVars
  <2> QED
    BY <1>1, <2>1, ContextBound DEF AssessTypes
<1>5. ready' \in BOOLEAN /\ quiet' \in BOOLEAN
  BY <1>1 DEF DeviceChanges, LoadDisc, LoseDisc, OtherTakesDrive, OtherReturnsDrive, contextVars, AssessTypes
<1> QED
  BY <1>1, <1>2, <1>3, <1>4, <1>5, WorkerSameKeeps DEF AssessTypes, WorkerTypes, HoldInv, EvidenceInv

\* A new device takes everything back.
LEMMA ApplyDeviceKeeps == ASSUME AssessInv, ApplyDevice PROVE AssessInv'
<1>1. /\ permitted # device /\ device < MaxContexts /\ observed' = device + 1
      /\ pending' = Nothing /\ cancelled' = TRUE /\ results' = <<>>
      /\ UNCHANGED <<task, stage, executed, outcome, spoilt, closing>>
      /\ device' = device + 1 /\ permitted' = device + 1 /\ ready' = FALSE
      /\ UNCHANGED <<revision, quiet, job, reference, scope, drive>>
      /\ IF active
         THEN /\ staged' = <<>> /\ flag' = NoEvidence /\ state' = "CANCELLED"
              /\ released' = (stage = "idle") /\ active' = (stage # "idle")
         ELSE UNCHANGED <<staged, flag, state, released, active>>
  BY DEF ApplyDevice, InterruptThenInvalidate, runVars
<1>2. AssessTypes /\ WorkerTypes /\ JobInv /\ SpoiltInv /\ HoldInv /\ RunInv /\ EvidenceInv
  BY DEF AssessInv
<1>3. device' \in 0..MaxContexts
  BY <1>1, <1>2, ContextBound DEF AssessTypes
<1>4. CASE active
  <2>1. active' \in BOOLEAN /\ released' \in BOOLEAN /\ (released' => ~Busy)
    BY <1>1, <1>4 DEF Busy
  <2> QED
    BY <1>1, <1>2, <1>3, <1>4, <2>1, DropKeeps DEF AssessTypes
<1>5. CASE ~active
  <2>1. UNCHANGED <<staged, flag, state, released, active>>
    BY <1>1, <1>5
  <2>2. WorkerTypes'
    BY <1>1, <1>2, OneFacts, NothingFacts DEF WorkerTypes
  <2>3. AssessTypes'
    BY <1>1, <1>2, <1>3, <2>1 DEF AssessTypes, AtMostOne
  <2>4. device \in Nat /\ observed = device /\ task.gen \in Nat
    BY <1>2 DEF AssessTypes, WorkerTypes
  <2>5. JobInv'
    BY <1>1, <1>2, <2>4 DEF JobInv, Busy
  <2>6. SpoiltInv'
    <3>1. stage = "judge" => task.gen <= observed
      BY <1>2 DEF JobInv, Busy
    <3>2. stage = "judge" => ~Current(task.gen)'
      BY <1>1, <2>4, <3>1 DEF Current
    <3> QED
      BY <1>1, <1>2, <3>2 DEF SpoiltInv
  <2>7. HoldInv' /\ RunInv' /\ EvidenceInv'
    BY <1>1, <1>2, <1>5, <2>1 DEF HoldInv, RunInv, EvidenceInv, Idle, Busy
  <2> QED
    BY <2>2, <2>3, <2>5, <2>6, <2>7 DEF AssessInv
<1> QED
  BY <1>4, <1>5

\* What every step of the worker's thread leaves alone.
LEMMA AssessThreadFrame ==
    ASSUME AssessInv, Thread
    PROVE  /\ UNCHANGED <<cancelled, observed, closing, device, revision, ready, quiet, permitted>>
           /\ UNCHANGED <<active, released, state, job, reference, scope, staged, flag>>
           /\ AssessTypes' /\ EvidenceInv'
<1>1. UNCHANGED <<cancelled, observed, closing, contextVars, assessVars>>
  BY DEF Thread, Run, Operate, MediaStep, Take, Exit, CheckBeforeDrive, Acquire, AdmitOperation, RefuseOperation, Judge, Finish,
         requestVars
<1> QED
  BY <1>1 DEF contextVars, assessVars, AssessInv, AssessTypes, AtMostOne, EvidenceInv

\* A step of the thread that is at something: from label to label, or to its end.
LEMMA AtWorkKeeps ==
    ASSUME AssessInv, Thread, Busy, UNCHANGED <<pending, task, results>>,
           stage' \in Labels \ {"idle", "exited"}, outcome' \in Outcomes \cup RunOutcomes,
           executed' \in BOOLEAN, spoilt' \in BOOLEAN, drive' \in {"free", "media", "other"},
           spoilt' => stage' \in {"judge", "finish"},
           spoilt' /\ stage' = "judge" => ~Current(task.gen), spoilt' /\ stage' = "finish" => ~executed',
           stage' \in {"operate", "judge", "finish"} /\ task.gen = observed /\ permitted = device /\ ~closing /\ ~cancelled
              /\ (stage \in {"operate", "judge", "finish"} => executed)
             => executed'
    PROVE  AssessInv'
<1>1. /\ UNCHANGED <<cancelled, observed, closing, device, permitted>>
      /\ UNCHANGED <<active, released, state, job, scope, staged>>
      /\ AssessTypes' /\ EvidenceInv'
  BY AssessThreadFrame
<1>2. Busy'
  BY DEF Labels, Busy
<1>3. WorkerTypes'
  BY <1>1 DEF AssessInv, WorkerTypes, AtMostOne
<1>4. JobInv'
  BY <1>1, <1>2 DEF AssessInv, JobInv, Busy
<1>5. SpoiltInv'
  BY <1>1 DEF SpoiltInv, Current
<1>6. HoldInv'
  BY <1>1, <1>2 DEF AssessInv, HoldInv, Idle
<1>7. RunInv'
  BY <1>1, <1>2 DEF AssessInv, RunInv, OnItsWay
<1> QED
  BY <1>1, <1>3, <1>4, <1>5, <1>6, <1>7 DEF AssessInv

\* run() takes the request, and with it the present generation.
LEMMA TakeWorkKeeps == ASSUME AssessInv, Thread, Take PROVE AssessInv'
<1>1. /\ stage = "idle" /\ pending # Nothing /\ stage' = "check"
      /\ task' = [work |-> pending.work, job |-> pending.job, gen |-> observed]
      /\ executed' = FALSE /\ outcome' = "ok" /\ spoilt' = FALSE /\ pending' = Nothing
      /\ UNCHANGED <<results, drive>>
  BY DEF Take
<1>2. /\ UNCHANGED <<cancelled, observed, closing, device, permitted>>
      /\ UNCHANGED <<active, released, state, job, scope, staged>>
      /\ AssessTypes' /\ EvidenceInv'
  BY AssessThreadFrame
<1>3. pending.work = "assess_c2" /\ pending.job = job /\ results = <<>>
  BY <1>1 DEF AssessInv, JobInv
<1>4. /\ task' \in [work : AssessWorks, job : 0..MaxJobs, gen : 0..MaxContexts]
      /\ task'.work = "assess_c2" /\ task'.job = job /\ task'.gen = observed
  BY <1>1, <1>3 DEF AssessInv, WorkerTypes, AssessTypes, AssessWorks
<1>5. observed \in Nat /\ ~released
  BY <1>1 DEF AssessInv, WorkerTypes, AssessTypes, HoldInv, Idle
<1>6. WorkerTypes'
  BY <1>1, <1>2, <1>4, NothingFacts DEF AssessInv, WorkerTypes, AtMostOne, Labels, Outcomes
<1>7. Busy'
  BY <1>1 DEF Busy
<1>8. JobInv'
  BY <1>1, <1>2, <1>3, <1>4, <1>5, <1>7 DEF AssessInv, JobInv
<1>9. SpoiltInv' /\ HoldInv'
  BY <1>1, <1>2, <1>5 DEF AssessInv, SpoiltInv, HoldInv
<1>10. RunInv'
  BY <1>1, <1>2, <1>4, <1>7 DEF AssessInv, RunInv, OnItsWay
<1> QED
  BY <1>2, <1>6, <1>8, <1>9, <1>10 DEF AssessInv

\* run() ends when it is closing.
LEMMA ExitWorkKeeps == ASSUME AssessInv, Thread, Exit PROVE AssessInv'
<1>1. stage = "idle" /\ closing /\ stage' = "exited" /\ UNCHANGED <<task, executed, outcome, spoilt, pending, results, drive>>
  BY DEF Exit, Goto, requestVars
<1>2. /\ UNCHANGED <<cancelled, observed, closing, device, permitted>>
      /\ UNCHANGED <<active, released, state, job, scope, staged>>
      /\ AssessTypes' /\ EvidenceInv'
  BY AssessThreadFrame
<1>3. WorkerTypes' /\ JobInv' /\ SpoiltInv'
  BY <1>1, <1>2 DEF AssessInv, WorkerTypes, AtMostOne, Labels, JobInv, SpoiltInv, Busy
<1>4. HoldInv' /\ RunInv'
  BY <1>1, <1>2 DEF AssessInv, HoldInv, RunInv, Idle, Busy
<1> QED
  BY <1>2, <1>3, <1>4 DEF AssessInv

\* What the thread asks before it runs an operation.
LEMMA AdmitKeeps ==
    ASSUME AssessInv, Thread, CheckBeforeDrive \/ Acquire \/ AdmitOperation \/ RefuseOperation
    PROVE  AssessInv'
<1>1. /\ WorkerTypes /\ SpoiltInv /\ JobInv /\ observed = device
  BY DEF AssessInv, WorkerTypes
<1>2. CASE CheckBeforeDrive
  <2>1. /\ stage = "check" /\ stage' = (IF Current(task.gen) THEN "wait" ELSE "judge")
        /\ UNCHANGED <<task, executed, outcome, spoilt, pending, results, drive>>
    BY <1>2 DEF CheckBeforeDrive, Goto, requestVars
  <2>2. ~spoilt /\ Busy
    BY <1>1, <2>1 DEF SpoiltInv, Busy
  <2>3. task.gen = observed /\ permitted = device /\ ~closing => Current(task.gen)
    BY <1>1 DEF Current
  <2>4. stage' \in {"wait", "judge"} /\ (Current(task.gen) => stage' = "wait")
    BY <2>1
  <2> QED
    BY <1>1, <2>1, <2>2, <2>3, <2>4, AtWorkKeeps DEF WorkerTypes, Labels
<1>3. CASE Acquire
  <2>1. /\ stage = "wait" /\ stage' = "admit" /\ drive' = "media"
        /\ UNCHANGED <<task, executed, outcome, spoilt, pending, results>>
    BY <1>3 DEF Acquire, Goto, requestVars
  <2>2. ~spoilt /\ Busy
    BY <1>1, <2>1 DEF SpoiltInv, Busy
  <2> QED
    BY <1>1, <2>1, <2>2, AtWorkKeeps DEF WorkerTypes, Labels
<1>4. CASE AdmitOperation
  <2>1. /\ stage = "admit" /\ stage' = "operate" /\ executed' = TRUE
        /\ UNCHANGED <<task, outcome, spoilt, pending, results, drive>>
    BY <1>4 DEF AdmitOperation, requestVars
  <2>2. ~spoilt /\ Busy
    BY <1>1, <2>1 DEF SpoiltInv, Busy
  <2> QED
    BY <1>1, <2>1, <2>2, AtWorkKeeps DEF WorkerTypes, Labels
<1>5. CASE RefuseOperation
  <2>1. /\ stage = "admit" /\ stage' = "judge" /\ drive' = "free" /\ ~Admissible
        /\ UNCHANGED <<task, executed, outcome, spoilt, pending, results>>
    BY <1>5 DEF RefuseOperation, Goto, requestVars
  <2>2. ~spoilt /\ Busy
    BY <1>1, <2>1 DEF SpoiltInv, Busy
  <2>3. ~(task.gen = observed /\ permitted = device /\ ~closing /\ ~cancelled)
    BY <1>1, <2>1 DEF Admissible, Current
  <2> QED
    BY <1>1, <2>1, <2>2, <2>3, AtWorkKeeps DEF WorkerTypes, Labels
<1> QED
  BY <1>2, <1>3, <1>4, <1>5

\* The operation, and whether its result may be delivered.
LEMMA OperateKeeps == ASSUME AssessInv, Thread, Run \/ Judge PROVE AssessInv'
<1>1. /\ WorkerTypes /\ SpoiltInv /\ JobInv /\ observed = device
  BY DEF AssessInv, WorkerTypes
<1>2. CASE Run
  <2>1. PICK o \in RunOutcomes : Operate(o)
    BY <1>2 DEF Run
  <2>2. /\ stage = "operate" /\ outcome' = o /\ drive' = "free" /\ stage' = "judge" /\ spoilt' = ~Current(task.gen)
        /\ UNCHANGED <<task, executed, pending, results>>
    BY <2>1 DEF Operate, requestVars
  <2>3. Busy /\ spoilt' \in BOOLEAN
    BY <2>2 DEF Busy
  <2> QED
    BY <1>1, <2>2, <2>3, AtWorkKeeps DEF WorkerTypes, Labels
<1>3. CASE Judge
  <2>1. /\ stage = "judge" /\ stage' = "finish" /\ executed' = Deliverable
        /\ UNCHANGED <<task, outcome, spoilt, pending, results, drive>>
    BY <1>3 DEF Judge, requestVars
  <2>2. Busy /\ executed' \in BOOLEAN
    BY <1>1, <2>1 DEF Busy, Deliverable, WorkerTypes
  <2>3. spoilt => ~Deliverable
    BY <1>1, <2>1 DEF SpoiltInv, Deliverable
  <2>4. task.gen = observed /\ permitted = device /\ ~closing /\ executed => Deliverable
    BY <1>1 DEF Deliverable, Current
  <2> QED
    BY <1>1, <2>1, <2>2, <2>3, <2>4, AtWorkKeeps DEF WorkerTypes, Labels
<1> QED
  BY <1>2, <1>3

\* The result is handed over if it is still wanted.
LEMMA FinishKeeps == ASSUME AssessInv, Thread, Finish PROVE AssessInv'
<1>1. /\ stage = "finish" /\ stage' = "idle" /\ task' = NoTask /\ executed' = FALSE /\ outcome' = "ok" /\ spoilt' = FALSE
      /\ results' = IF Wanted THEN Append(results, Result) ELSE results
      /\ UNCHANGED <<pending, drive>>
  BY DEF Finish, requestVars
<1>2. /\ UNCHANGED <<cancelled, observed, closing, device, permitted>>
      /\ UNCHANGED <<active, released, state, job, scope, staged>>
      /\ AssessTypes' /\ EvidenceInv'
  BY AssessThreadFrame
<1>3. Busy /\ ~Busy'
  BY <1>1 DEF Busy
<1>4. task.work = "assess_c2" /\ task.job = job /\ results = <<>> /\ pending = Nothing /\ (Wanted => ~spoilt /\ ~cancelled /\ task.gen = observed)
  BY <1>1, <1>3 DEF AssessInv, JobInv, SpoiltInv, Wanted
<1>5. /\ Result \in C2Results /\ Result.gen = task.gen /\ Result.job = task.job /\ Result.spoilt = spoilt
  BY <1>4 DEF AssessInv, WorkerTypes, Result, C2Results
<1> DEFINE r == Result
<1>6. IF Wanted THEN results' = <<r>> /\ DOMAIN <<r>> = {1} /\ <<r>>[1] = r /\ <<r>> # <<>> /\ AtMostOne(<<r>>) ELSE results' = <<>>
  BY <1>1, <1>4, <1>5, OneFacts
<1> HIDE DEF r
<1>7. AtMostOne(results')
  BY <1>6, OneFacts
<1>8. NoTask \in [work : AssessWorks, job : 0..MaxJobs, gen : 0..MaxContexts]
  BY MediaConstants, ContextBound DEF NoTask, AssessWorks
<1>9. WorkerTypes'
  BY <1>1, <1>2, <1>7, <1>8 DEF AssessInv, WorkerTypes, Labels, Outcomes
<1>10. JobInv'
  <2>1. results' # <<>> => Wanted /\ results' = <<r>>
    BY <1>6
  <2>2. \A i \in DOMAIN results' : results'[i] = r /\ Wanted
    BY <1>6
  <2>3. Wanted => r.gen = observed /\ r.job = job /\ ~r.spoilt
    BY <1>4, <1>5 DEF r
  <2> QED
    BY <1>1, <1>2, <1>3, <1>4, <2>1, <2>2, <2>3 DEF JobInv
<1>11. SpoiltInv'
  BY <1>1 DEF SpoiltInv
<1>12. HoldInv'
  BY <1>2, <1>3 DEF AssessInv, HoldInv, Idle
<1>13. RunInv'
  <2>1. active /\ state = "RUNNING" /\ permitted = device /\ ~closing => Wanted \/ staged # <<>>
    BY <1>1, <1>4 DEF AssessInv, RunInv, OnItsWay, Wanted
  <2>2. Wanted => results' # <<>>
    BY <1>6
  <2> QED
    BY <1>2, <1>3, <2>1, <2>2 DEF AssessInv, RunInv, OnItsWay
<1> QED
  BY <1>2, <1>9, <1>10, <1>11, <1>12, <1>13 DEF AssessInv

\* The worker's destructor drops what was asked for and not begun.
LEMMA ShutdownKeeps == ASSUME AssessInv, Shutdown PROVE AssessInv'
<1>1. /\ closing' = TRUE
      /\ UNCHANGED <<pending, cancelled, observed, task, stage, executed, outcome, spoilt, results, drive>>
      /\ UNCHANGED <<device, revision, ready, quiet, permitted, active, released, state, job, reference, scope, staged, flag>>
  BY DEF Shutdown, Destroy, requestVars, runVars, contextVars, assessVars
<1>2. WorkerTypes' /\ AssessTypes' /\ JobInv'
  BY <1>1 DEF AssessInv, WorkerTypes, AssessTypes, AtMostOne, JobInv, Busy
<1>3. SpoiltInv' /\ HoldInv' /\ RunInv' /\ EvidenceInv'
  BY <1>1 DEF AssessInv, SpoiltInv, HoldInv, RunInv, EvidenceInv, Current, Idle, Busy
<1> QED
  BY <1>2, <1>3 DEF AssessInv

\* Stuttering keeps the invariant.
LEMMA AssessStutterKeeps == ASSUME AssessInv, UNCHANGED c2Vars PROVE AssessInv'
<1>1. /\ UNCHANGED <<pending, cancelled, observed, task, stage, executed, outcome, spoilt, results, closing, drive>>
      /\ UNCHANGED <<device, revision, ready, quiet, permitted, active, released, state, job, reference, scope, staged, flag>>
  BY DEF c2Vars, vars, mediaVars, requestVars, runVars, assessVars
<1>2. WorkerTypes' /\ AssessTypes' /\ JobInv'
  BY <1>1 DEF AssessInv, WorkerTypes, AssessTypes, AtMostOne, JobInv, Busy
<1>3. SpoiltInv' /\ HoldInv' /\ RunInv' /\ EvidenceInv'
  BY <1>1 DEF AssessInv, SpoiltInv, HoldInv, RunInv, EvidenceInv, OnItsWay, Current, Idle, Busy
<1> QED
  BY <1>2, <1>3 DEF AssessInv

\* The invariant holds initially.
LEMMA AssessInitHolds == Init => AssessInv
<1> SUFFICES ASSUME Init PROVE AssessInv
  OBVIOUS
<1>1. 0 \in 0..MaxContexts /\ 0 \in 0..MaxJobs
  BY MediaConstants, ContextBound
<1>2. NoTask \in [work : AssessWorks, job : 0..MaxJobs, gen : 0..MaxContexts]
  BY <1>1 DEF NoTask, AssessWorks
<1>3. WorkerTypes
  BY <1>2, OneFacts, NothingFacts DEF Init, MediaInit, WorkerTypes, Labels, Outcomes
<1>4. AssessTypes
  BY <1>1, OneFacts, NoEvidenceType DEF Init, AssessTypes, States
<1>5. JobInv /\ SpoiltInv /\ HoldInv /\ RunInv /\ EvidenceInv
  BY DEF Init, MediaInit, JobInv, SpoiltInv, HoldInv, RunInv, EvidenceInv, Idle, Busy
<1> QED
  BY <1>3, <1>4, <1>5 DEF AssessInv

\* Every step of the session and of the thread keeps the invariant.
LEMMA AssessStepHolds == AssessInv /\ [Next]_c2Vars => AssessInv'
<1> SUFFICES ASSUME AssessInv, [Next]_c2Vars PROVE AssessInv'
  OBVIOUS
<1>1. CASE Thread
  BY <1>1, TakeWorkKeeps, ExitWorkKeeps, AdmitKeeps, OperateKeeps, FinishKeeps DEF Thread, MediaStep
<1>2. CASE Session
  BY <1>2, StartC2Keeps, WithdrawKeeps, OfferKeeps, PollKeeps, ApplyDeviceKeeps, ContextKeeps, CommandKeeps DEF Session
<1> QED
  BY <1>1, <1>2, ContextKeeps, ShutdownKeeps, AssessStutterKeeps DEF Next

\* The invariant says that an assessment is tracked and its evidence in scope.
LEMMA AssessInvMeans == AssessInv => AssessmentIsTracked /\ EvidenceInScope
<1> SUFFICES ASSUME AssessInv PROVE AssessmentIsTracked /\ EvidenceInScope
  OBVIOUS
<1>1. WorkerTypes /\ AssessTypes /\ JobInv /\ HoldInv /\ RunInv /\ EvidenceInv
  BY DEF AssessInv
<1>2. TypeOK
  <2>1. {cancelled, executed, spoilt, closing, active, released, reference, ready, quiet} \subseteq BOOLEAN
    BY <1>1 DEF WorkerTypes, AssessTypes
  <2>2. {device, revision} \subseteq 0..MaxContexts /\ permitted \in 0..(MaxContexts + 1)
    BY <1>1, ContextBound DEF AssessTypes
  <2> QED
    BY <1>1, <2>1, <2>2 DEF TypeOK, WorkerTypes, AssessTypes, AssessWorks, Evidences, Labels
<1>3. ReleasedIsReal
  BY <1>1 DEF ReleasedIsReal, HoldInv, Idle
<1>4. RunningHasWork
  BY <1>1 DEF RunningHasWork, RunInv, OnItsWay, JobInv
<1>5. ResultsAreWanted
  BY <1>1 DEF ResultsAreWanted, JobInv
<1>6. OneAtATime
  <2> DEFINE asked == IF pending # Nothing THEN 1 ELSE 0
             running == IF Busy THEN 1 ELSE 0
  <2>1. CASE results = <<>>
    <3>1. Len(results) = 0
      BY <2>1
    <3>2. asked \in {0, 1} /\ running \in {0, 1} /\ (asked = 0 \/ running = 0)
      BY <1>1 DEF JobInv
    <3> HIDE DEF asked, running
    <3>3. Len(results) + asked + running <= 1
      BY <3>1, <3>2
    <3> QED
      BY <3>3 DEF OneAtATime, asked, running
  <2>2. CASE results # <<>>
    <3>1. PICK r \in C2Results : results = <<r>>
      BY <1>1, <2>2 DEF WorkerTypes, AtMostOne
    <3>2. Len(results) = 1
      BY <3>1
    <3>3. asked = 0 /\ running = 0
      BY <1>1, <2>2 DEF JobInv
    <3> HIDE DEF asked, running
    <3>4. Len(results) + asked + running <= 1
      BY <3>2, <3>3
    <3> QED
      BY <3>4 DEF OneAtATime, asked, running
  <2> QED
    BY <2>1, <2>2
<1>7. EvidenceInScope
  BY <1>1 DEF EvidenceInScope, Shown, ContextCurrent, EvidenceInv
<1> QED
  BY <1>2, <1>3, <1>4, <1>5, <1>6, <1>7 DEF AssessmentIsTracked

\* The invariant holds throughout.
LEMMA AssessInvariant == Spec => []AssessInv
BY AssessInitHolds, AssessStepHolds, PTL DEF Spec

\* How the session sees the worker, by what it is at.
Seen ==
    /\ pending # Nothing =>
          /\ Phase = "asked" /\ Asked = [work |-> pending.work, job |-> pending.job, gen |-> observed]
          /\ Standing = (~closing /\ ~cancelled) /\ Allowed = (observed = permitted)
    /\ Busy =>
          /\ Phase # "none" /\ Asked = task
          /\ Standing = (~closing /\ task.gen = observed /\ ~cancelled) /\ Allowed = (task.gen = permitted)
    /\ pending = Nothing /\ ~Busy =>
          Phase = "none" /\ Asked = NoTask /\ Standing = FALSE /\ Allowed = FALSE

LEMMA WorkerIsSeen == WorkerTypes /\ JobInv => Seen
<1> SUFFICES ASSUME WorkerTypes, JobInv PROVE Seen
  OBVIOUS
<1>1. CASE pending # Nothing
  <2>1. Phase = "asked"
    BY <1>1 DEF Phase, JobInv, Busy
  <2>2. ~Busy /\ pending.work = "assess_c2"
    BY <1>1 DEF JobInv
  <2>3. Asked = [work |-> pending.work, job |-> pending.job, gen |-> observed]
    BY <1>1 DEF Asked
  <2>4. Asked.gen = observed /\ Asked.work = "assess_c2"
    BY <2>2, <2>3
  <2>5. cancelled \in BOOLEAN /\ closing \in BOOLEAN
    BY DEF WorkerTypes
  <2>6. Standing = (~closing /\ ~cancelled) /\ Allowed = (observed = permitted)
    BY <2>1, <2>4, <2>5 DEF Standing, Allowed
  <2> QED
    BY <1>1, <2>1, <2>2, <2>3, <2>6 DEF Seen
<1>2. CASE pending = Nothing /\ Busy
  <2>1. Phase # "none"
    BY <1>2 DEF Phase, Busy, WorkerTypes, Labels
  <2>2. Asked = task
    BY <1>2 DEF Asked
  <2>3. task.work = "assess_c2"
    BY <1>2 DEF JobInv
  <2>4. Standing = (~closing /\ task.gen = observed /\ ~cancelled) /\ Allowed = (task.gen = permitted)
    BY <2>1, <2>2, <2>3 DEF Standing, Allowed, WorkerTypes
  <2> QED
    BY <1>2, <2>1, <2>2, <2>4 DEF Seen
<1>3. CASE pending = Nothing /\ ~Busy
  <2>1. Phase = "none"
    BY <1>3 DEF Phase, Busy, WorkerTypes, Labels
  <2>2. Asked = NoTask
    BY <1>3 DEF Asked
  <2> QED
    BY <1>3, <2>1, <2>2 DEF Standing, Allowed, Seen
<1> QED
  BY <1>1, <1>2, <1>3

\* ... and so before and after every step.
LEMMA WorkerIsSeenNext == AssessInv /\ AssessInv' => Seen /\ Seen'
<1>1. AssessInv => Seen
  BY WorkerIsSeen DEF AssessInv
<1> QED
  BY <1>1, PTL

\* An operation was executed if it is under way, and was not before.
ExecutedInv ==
    /\ stage \in {"check", "wait", "admit"} => ~executed
    /\ stage = "operate" => executed

LEMMA ExecutedStep == ExecutedInv /\ [Next]_c2Vars => ExecutedInv'
<1> SUFFICES ASSUME ExecutedInv, [Next]_c2Vars PROVE ExecutedInv'
  OBVIOUS
<1>1. CASE Thread
  <2>1. CASE Run \/ Judge \/ Finish \/ Take \/ Exit
    BY <2>1 DEF ExecutedInv, Run, Operate, Judge, Finish, Take, Exit, Goto
  <2>2. CASE CheckBeforeDrive \/ Acquire \/ AdmitOperation \/ RefuseOperation
    BY <2>2 DEF ExecutedInv, CheckBeforeDrive, Acquire, AdmitOperation, RefuseOperation, Goto
  <2> QED
    BY <1>1, <2>1, <2>2 DEF Thread, MediaStep
<1>2. CASE UNCHANGED <<stage, executed>>
  BY <1>2 DEF ExecutedInv
<1>3. CASE Session
  <2>1. UNCHANGED <<stage, executed>>
    BY <1>3 DEF Session, Start, Cancel, Offer, PollOutdated, PollReleasing, PollStaged, ApplyDevice, LoadDisc, LoseDisc, Command,
                RequestC2, CancelC2, Pop, Interrupt, InterruptThenInvalidate, mediaVars, runVars
  <2> QED
    BY <1>2, <2>1
<1>4. CASE DeviceChanges \/ Shutdown \/ OtherTakesDrive \/ OtherReturnsDrive \/ UNCHANGED c2Vars
  BY <1>2, <1>4 DEF DeviceChanges, Shutdown, Destroy, OtherTakesDrive, OtherReturnsDrive, c2Vars, vars, mediaVars, runVars
<1> QED
  BY <1>1, <1>3, <1>4 DEF Next

LEMMA ExecutedInvariant == Spec => []ExecutedInv
<1>1. Init => ExecutedInv
  BY DEF Init, MediaInit, ExecutedInv
<1> QED
  BY <1>1, ExecutedStep, PTL DEF Spec

\* No answer, seen from outside, is no result.
LEMMA NoAnswer == results = <<>> => Answered = <<>>
BY DEF Answered

\* What does not touch the worker's state does not touch what is seen of it.
LEMMA SameIsSeen ==
    ASSUME UNCHANGED <<pending, cancelled, observed, task, stage, executed, results, closing, permitted>>
    PROVE  UNCHANGED Promise!requestsVars
BY DEF Promise!requestsVars, Asked, Phase, Standing, Allowed, Answered, Busy

\* To cancel, or to observe another generation, is to withdraw.
LEMMA DropWithdraws ==
    ASSUME AssessInv, AssessInv', UNCHANGED <<task, stage, executed, closing>>,
           cancelled' = TRUE, pending' = Nothing, results' = <<>>,
           \/ observed' = observed /\ permitted' = permitted
           \/ observed' = observed + 1 /\ permitted' = observed'
    PROVE  Promise!Withdraw
<1>1. Seen /\ Seen' /\ WorkerTypes /\ JobInv
  BY WorkerIsSeenNext DEF AssessInv
<1>2. Answered' = <<>>
  BY DEF Answered
<1>3. CASE pending # Nothing
  <2>1. Phase = "asked" /\ ~Busy'
    BY <1>1, <1>3 DEF Seen, JobInv, Busy
  <2> QED
    BY <1>1, <1>2, <2>1 DEF Seen, Promise!Withdraw, Promise!Gone
<1>4. CASE Busy
  <2>1. Busy' /\ pending = Nothing /\ Phase' = Phase
    BY <1>1, <1>4 DEF JobInv, Busy, Phase
  <2>2. Asked' = Asked /\ Standing' = FALSE
    BY <1>1, <1>4, <2>1 DEF Seen
  <2>3. task.gen \in Nat /\ observed \in Nat /\ task.gen <= observed
    BY <1>1, <1>4 DEF WorkerTypes, JobInv, AssessInv, AssessTypes
  <2>4. Allowed' \in {Allowed, FALSE}
    <3>1. Allowed = (task.gen = permitted) /\ Allowed' = (task.gen = permitted')
      BY <1>1, <1>4, <2>1 DEF Seen
    <3>2. permitted' = permitted \/ task.gen # permitted'
      BY <2>3
    <3> QED
      BY <3>1, <3>2
  <2> QED
    BY <1>2, <2>1, <2>2, <2>4 DEF Promise!Withdraw
<1>5. CASE pending = Nothing /\ ~Busy
  <2>1. ~Busy'
    BY <1>5 DEF Busy
  <2> QED
    BY <1>1, <1>2, <1>5, <2>1 DEF Seen, Promise!Withdraw
<1> QED
  BY <1>3, <1>4, <1>5

\* start() asks, for a device that has not changed.
LEMMA StartAsks == ASSUME AssessInv, AssessInv', Start PROVE Promise!Ask
<1>1. Seen /\ Seen' /\ WorkerTypes /\ AssessTypes
  BY WorkerIsSeenNext DEF AssessInv
<1>2. /\ pending = Nothing /\ ~Busy /\ results = <<>> /\ results' = results /\ ~closing
      /\ pending' = [work |-> "assess_c2", job |-> job + 1] /\ cancelled' = FALSE
      /\ UNCHANGED <<observed, closing, permitted>> /\ job \in Nat
  BY <1>1 DEF Start, CanStart, Idle, RequestC2, runVars, contextVars, AssessTypes
<1>3. Answered = <<>> /\ Answered' = <<>>
  BY <1>2, NoAnswer DEF Answered
<1>4. pending' # Nothing
  BY <1>2, NothingFacts
<1>5. Asked' = [work |-> "assess_c2", job |-> job + 1, gen |-> observed] /\ Phase' = "asked"
  BY <1>1, <1>2, <1>4 DEF Seen
<1>6. observed \in Nat
  BY <1>1 DEF WorkerTypes, AssessTypes
<1>7. Asked' \in [work : Works, job : Nat, gen : Nat]
  BY <1>2, <1>5, <1>6 DEF Works
<1>8. Standing' = TRUE /\ Allowed' \in BOOLEAN /\ Phase = "none"
  BY <1>1, <1>2, <1>4 DEF Seen, WorkerTypes
<1> QED
  BY <1>3, <1>5, <1>7, <1>8 DEF Promise!Ask

\* The session collects what it offers.
LEMMA OfferCollects == ASSUME AssessInv, AssessInv', Offer PROVE Promise!Collect
<1>1. /\ results # <<>> /\ results' = Tail(results)
      /\ UNCHANGED <<pending, cancelled, observed, task, stage, executed, closing, permitted>>
  BY DEF Offer, Pop, requestVars, runVars, contextVars
<1>2. PICK r \in C2Results : results = <<r>>
  BY <1>1 DEF AssessInv, WorkerTypes, AtMostOne
<1>3. results' = <<>>
  BY <1>1, <1>2, OneFacts
<1>4. Answered' = <<>>
  BY <1>3 DEF Answered
<1>5. Answered # <<>>
  <2>1. DOMAIN results = {1}
    BY <1>2
  <2>2. DOMAIN Answered = {1}
    BY <2>1 DEF Answered
  <2> QED
    BY <2>2
<1>6. UNCHANGED <<Asked, Phase, Standing, Allowed>>
  BY <1>1 DEF Asked, Phase, Standing, Allowed, Busy
<1> QED
  BY <1>4, <1>5, <1>6 DEF Promise!Collect

\* The destructor withdraws what is with the worker.
LEMMA ShutdownWithdraws ==
    ASSUME AssessInv, AssessInv', Shutdown PROVE [Promise!Next]_(Promise!requestsVars)
<1>1. /\ closing' = TRUE
      /\ UNCHANGED <<pending, cancelled, observed, task, stage, executed, results, permitted>>
  BY DEF Shutdown, Destroy, requestVars, runVars, contextVars
<1>2. Seen /\ Seen' /\ JobInv
  BY WorkerIsSeenNext DEF AssessInv
<1>3. UNCHANGED <<Asked, Phase, Answered>> /\ (Busy' <=> Busy)
  BY <1>1 DEF Asked, Phase, Answered, Busy
<1>4. CASE pending # Nothing \/ Busy
  <2>1. results = <<>>
    BY <1>2, <1>4 DEF JobInv
  <2>2. Answered' = <<>> /\ Standing' = FALSE
    BY <1>1, <1>2, <1>3, <1>4, <2>1, NoAnswer DEF Seen
  <2>3. Allowed' = Allowed
    BY <1>1, <1>2, <1>3, <1>4 DEF Seen
  <2> QED
    BY <1>3, <2>2, <2>3 DEF Promise!Withdraw, Promise!Next
<1>5. CASE pending = Nothing /\ ~Busy
  BY <1>1, <1>2, <1>3, <1>5 DEF Seen, Promise!requestsVars
<1> QED
  BY <1>4, <1>5

\* The thread takes a request, or ends: nothing is seen of either.
LEMMA TakeIsUnseen ==
    ASSUME AssessInv, AssessInv', Thread, Take \/ Exit PROVE UNCHANGED Promise!requestsVars
<1>1. Seen /\ Seen' /\ JobInv /\ WorkerTypes
  BY WorkerIsSeenNext DEF AssessInv
<1>2. UNCHANGED <<cancelled, observed, closing, permitted>>
  BY AssessThreadFrame
<1>3. CASE Take
  <2>1. /\ stage = "idle" /\ pending # Nothing /\ stage' = "check" /\ pending' = Nothing /\ UNCHANGED results
        /\ task' = [work |-> pending.work, job |-> pending.job, gen |-> observed]
    BY <1>3 DEF Take
  <2>2. Busy' /\ Phase = "asked" /\ Phase' = "asked"
    BY <1>1, <2>1 DEF Seen, Busy, Phase
  <2>3. UNCHANGED <<Asked, Standing, Allowed>>
    BY <1>1, <1>2, <2>1, <2>2 DEF Seen
  <2> QED
    BY <2>1, <2>2, <2>3 DEF Promise!requestsVars, Answered
<1>4. CASE Exit
  <2>1. stage = "idle" /\ stage' = "exited" /\ UNCHANGED <<task, executed, pending, results>>
    BY <1>4 DEF Exit, Goto, requestVars
  <2>2. ~Busy /\ ~Busy'
    BY <2>1 DEF Busy
  <2>3. UNCHANGED <<Asked, Phase, Standing, Allowed>>
    BY <1>1, <1>2, <2>1, <2>2 DEF Seen
  <2> QED
    BY <2>1, <2>3 DEF Promise!requestsVars, Answered
<1> QED
  BY <1>3, <1>4

\* While the thread is at a request, only how far it has come is seen.
LEMMA AtWorkIsSeen ==
    ASSUME AssessInv, AssessInv', Thread, Busy, Busy', UNCHANGED <<task, pending, results>>
    PROVE  /\ UNCHANGED <<Asked, Standing, Allowed, Answered>>
           /\ pending = Nothing
           /\ Standing = (~closing /\ task.gen = observed /\ ~cancelled) /\ Allowed = (task.gen = permitted)
<1>1. Seen /\ Seen' /\ JobInv
  BY WorkerIsSeenNext DEF AssessInv
<1>2. UNCHANGED <<cancelled, observed, closing, permitted>>
  BY AssessThreadFrame
<1> QED
  BY <1>1, <1>2 DEF Seen, JobInv, Answered

\* What the thread asks before an operation, the operation, and what is made
\* of its result: each is a step of the promise, or not seen.
LEMMA WorkIsPromised ==
    ASSUME AssessInv, AssessInv', ExecutedInv, Thread,
           CheckBeforeDrive \/ Acquire \/ AdmitOperation \/ RefuseOperation \/ Run \/ Judge
    PROVE  [Promise!Next]_(Promise!requestsVars)
<1>1. JobInv /\ WorkerTypes /\ SpoiltInv
  BY DEF AssessInv
<1>2. Busy /\ Busy' /\ UNCHANGED <<task, pending, results>>
  BY DEF CheckBeforeDrive, Acquire, AdmitOperation, RefuseOperation, Run, Operate, Judge, Goto, requestVars, Busy
<1>3. /\ UNCHANGED <<Asked, Standing, Allowed, Answered>>
      /\ pending = Nothing /\ pending' = Nothing /\ task.work = "assess_c2"
      /\ Standing = (~closing /\ task.gen = observed /\ ~cancelled) /\ Allowed = (task.gen = permitted)
  BY <1>1, <1>2, AtWorkIsSeen DEF JobInv
<1>4. Current(task.gen) = (~closing /\ task.gen = observed /\ Allowed)
  BY <1>3 DEF Current
<1>5. CASE CheckBeforeDrive
  <2>1. CASE Current(task.gen)
    <3>1. Phase = "asked" /\ Phase' = "asked"
      BY <1>3, <1>5, <2>1 DEF CheckBeforeDrive, Goto, Phase
    <3> QED
      BY <1>3, <3>1 DEF Promise!requestsVars
  <2>2. CASE ~Current(task.gen)
    <3>1. Phase = "asked" /\ stage' = "judge" /\ ~executed
      BY <1>1, <1>3, <1>5, <2>2 DEF CheckBeforeDrive, Goto, Phase, ExecutedInv
    <3>2. Phase' = "refused"
      BY <1>3, <1>5, <3>1 DEF CheckBeforeDrive, Goto, Phase
    <3> QED
      BY <1>3, <1>4, <2>2, <3>1, <3>2 DEF Promise!Next, Promise!Refuse, Promise!Goes
  <2> QED
    BY <2>1, <2>2
<1>6. CASE Acquire
  <2>1. Phase = "asked" /\ Phase' = "asked"
    BY <1>3, <1>6 DEF Acquire, Goto, Phase
  <2> QED
    BY <1>3, <2>1 DEF Promise!requestsVars
<1>7. CASE AdmitOperation
  <2>1. Phase = "asked" /\ Phase' = "running"
    BY <1>3, <1>7 DEF AdmitOperation, Phase
  <2>2. Standing /\ Allowed
    BY <1>3, <1>4, <1>7 DEF AdmitOperation, Admissible
  <2> QED
    BY <1>3, <2>1, <2>2 DEF Promise!Next, Promise!Begin, Promise!Goes
<1>8. CASE RefuseOperation
  <2>1. Phase = "asked" /\ stage' = "judge" /\ UNCHANGED executed /\ ~executed
    BY <1>3, <1>8 DEF RefuseOperation, Goto, Phase, ExecutedInv
  <2>2. Phase' = "refused"
    BY <1>3, <2>1 DEF Phase
  <2>3. ~(Standing /\ Allowed)
    BY <1>3, <1>4, <1>8 DEF RefuseOperation, Admissible
  <2> QED
    BY <1>3, <2>1, <2>2, <2>3 DEF Promise!Next, Promise!Refuse, Promise!Goes
<1>9. CASE Run
  <2>1. stage = "operate" /\ stage' = "judge" /\ UNCHANGED executed /\ executed
    BY <1>9 DEF Run, Operate, ExecutedInv
  <2>2. Phase = "running" /\ Phase' = "returned"
    BY <1>3, <2>1 DEF Phase
  <2> QED
    BY <1>3, <2>2 DEF Promise!Next, Promise!Return, Promise!Goes
<1>10. CASE Judge
  <2>1. stage = "judge" /\ stage' = "finish" /\ executed' = Deliverable
    BY <1>10 DEF Judge
  <2>2. CASE ~executed
    <3>1. Phase = "refused" /\ Phase' = "refused"
      BY <1>3, <2>1, <2>2 DEF Phase, Deliverable
    <3> QED
      BY <1>3, <3>1 DEF Promise!requestsVars
  <2>3. CASE executed /\ Current(task.gen)
    <3>1. Phase = "returned" /\ Phase' = "kept"
      BY <1>3, <2>1, <2>3 DEF Phase, Deliverable
    <3> QED
      BY <1>3, <1>4, <2>3, <3>1 DEF Promise!Next, Promise!Keep, Promise!Goes
  <2>4. CASE executed /\ ~Current(task.gen)
    <3>1. Phase = "returned" /\ Phase' = "refused"
      BY <1>3, <2>1, <2>4 DEF Phase, Deliverable
    <3> QED
      BY <1>3, <1>4, <2>4, <3>1 DEF Promise!Next, Promise!Refuse, Promise!Goes
  <2> QED
    BY <1>1, <2>2, <2>3, <2>4 DEF WorkerTypes
<1> QED
  BY <1>5, <1>6, <1>7, <1>8, <1>9, <1>10

\* A result that is wanted is the answer; of another request nothing is left.
LEMMA FinishIsPromised ==
    ASSUME AssessInv, AssessInv', Thread, Finish PROVE Promise!Answer \/ Promise!GiveUp
<1>1. /\ stage = "finish" /\ stage' = "idle"
      /\ results' = IF Wanted THEN Append(results, Result) ELSE results
      /\ UNCHANGED pending
  BY DEF Finish, requestVars
<1>2. Seen /\ Seen' /\ JobInv /\ WorkerTypes
  BY WorkerIsSeenNext DEF AssessInv
<1>3. Busy /\ ~Busy' /\ pending = Nothing /\ results = <<>> /\ task.work = "assess_c2"
  BY <1>1, <1>2 DEF Busy, JobInv
<1>4. Promise!Gone
  BY <1>1, <1>2, <1>3 DEF Seen, Promise!Gone
<1>5. Asked = task /\ Standing = (~closing /\ task.gen = observed /\ ~cancelled)
  BY <1>2, <1>3 DEF Seen
<1>6. CASE Wanted
  <2>1. Phase = "kept" /\ Standing
    BY <1>1, <1>3, <1>5, <1>6 DEF Wanted, Phase
  <2>2. results' = <<Result>>
    BY <1>1, <1>3, <1>6
  <2>3. Answered' = <<[work |-> Result.work, job |-> Result.job, gen |-> Result.gen]>>
    <3> DEFINE r == Result
    <3> HIDE DEF r
    <3>1. results' = <<r>>
      BY <2>2 DEF r
    <3>2. DOMAIN results' = {1} /\ results'[1] = r
      BY <3>1
    <3>3. Answered' = <<[work |-> r.work, job |-> r.job, gen |-> r.gen]>>
      BY <3>2 DEF Answered
    <3> QED
      BY <3>3 DEF r
  <2>4. task \in [work : AssessWorks, job : 0..MaxJobs, gen : 0..MaxContexts]
    BY <1>2 DEF WorkerTypes
  <2>5. [work |-> Result.work, job |-> Result.job, gen |-> Result.gen] = task
    BY <2>4 DEF Result
  <2> QED
    BY <1>4, <1>5, <2>1, <2>3, <2>5 DEF Promise!Answer
<1>7. CASE ~Wanted
  <2>1. Phase = "refused" \/ (Phase = "kept" /\ ~Standing)
    <3>1. executed => ~Standing
      BY <1>3, <1>5, <1>7 DEF Wanted
    <3> QED
      BY <1>1, <1>2, <1>3, <3>1 DEF Phase, WorkerTypes
  <2>2. Answered' = Answered
    BY <1>1, <1>7 DEF Answered
  <2> QED
    BY <1>4, <2>1, <2>2 DEF Promise!GiveUp
<1> QED
  BY <1>6, <1>7

\* A step of the session is one of its user's, or is not seen.
LEMMA SessionIsPromised ==
    ASSUME AssessInv, AssessInv', Session PROVE [Promise!Next]_(Promise!requestsVars)
<1>1. CASE Start \/ Offer
  BY <1>1, StartAsks, OfferCollects DEF Promise!Next
<1>2. ASSUME CancelC2, permitted' = permitted PROVE Promise!Withdraw
  BY <1>2, CancelDrops, DropWithdraws
<1>3. ASSUME UNCHANGED mediaVars, permitted' = permitted PROVE UNCHANGED Promise!requestsVars
  BY <1>3, SameIsSeen DEF mediaVars, requestVars, runVars
<1>4. CASE Cancel \/ PollOutdated \/ Command
  <2>1. (CancelC2 \/ UNCHANGED mediaVars) /\ permitted' = permitted
    BY <1>4 DEF Cancel, PollOutdated, Command, Interrupt, contextVars
  <2> QED
    BY <1>2, <1>3, <2>1 DEF Promise!Next
<1>5. CASE PollReleasing \/ PollStaged \/ LoadDisc \/ LoseDisc
  <2>1. UNCHANGED mediaVars /\ permitted' = permitted
    BY <1>5 DEF PollReleasing, PollStaged, LoadDisc, LoseDisc, contextVars
  <2> QED
    BY <1>3, <2>1
<1>6. CASE ApplyDevice
  <2>1. /\ observed' = observed + 1 /\ permitted' = observed'
        /\ pending' = Nothing /\ cancelled' = TRUE /\ results' = <<>>
        /\ UNCHANGED <<task, stage, executed, closing>>
    BY <1>6 DEF ApplyDevice, InterruptThenInvalidate, runVars, AssessInv, WorkerTypes
  <2> QED
    BY <2>1, DropWithdraws DEF Promise!Next
<1> QED
  BY <1>1, <1>4, <1>5, <1>6 DEF Session

\* A change of the device is the lapse of what is asked for an older one.
LEMMA ChangeLapses == ASSUME AssessInv, AssessInv', DeviceChanges PROVE Promise!Lapse
<1>1. /\ permitted' = MaxContexts + 1
      /\ UNCHANGED <<pending, cancelled, observed, task, stage, executed, results, closing>>
  BY DEF DeviceChanges, mediaVars, requestVars, runVars
<1>2. Seen' /\ WorkerTypes /\ AssessTypes
  BY WorkerIsSeenNext DEF AssessInv
<1>3. observed' # permitted' /\ task'.gen # permitted'
  <2>1. observed \in 0..MaxContexts /\ task.gen \in 0..MaxContexts
    BY <1>2 DEF WorkerTypes, AssessTypes
  <2> QED
    BY <1>1, <2>1, ContextBound
<1>4. Allowed' = FALSE
  BY <1>2, <1>3 DEF Seen
<1>5. UNCHANGED <<Asked, Phase, Standing, Answered>>
  BY <1>1 DEF Asked, Phase, Standing, Answered, Busy
<1> QED
  BY <1>4, <1>5 DEF Promise!Lapse

\* Every step of the assessment is a step of the promise, or is not seen.
LEMMA AssessStepIsPromised ==
    ASSUME AssessInv, AssessInv', ExecutedInv, [Next]_c2Vars
    PROVE  [Promise!Next]_(Promise!requestsVars)
<1>1. CASE Thread
  <2>1. CASE Finish
    BY <1>1, <2>1, FinishIsPromised DEF Promise!Next
  <2>2. CASE ~Finish
    BY <1>1, <2>2, TakeIsUnseen, WorkIsPromised DEF Thread, MediaStep
  <2> QED
    BY <2>1, <2>2
<1>2. CASE Session
  BY <1>2, SessionIsPromised
<1>3. CASE DeviceChanges \/ Shutdown
  BY <1>3, ChangeLapses, ShutdownWithdraws DEF Promise!Next
<1>4. CASE OtherTakesDrive \/ OtherReturnsDrive \/ UNCHANGED c2Vars
  <2>1. UNCHANGED <<pending, cancelled, observed, task, stage, executed, results, closing, permitted>>
    BY <1>4 DEF OtherTakesDrive, OtherReturnsDrive, c2Vars, vars, mediaVars, requestVars, runVars, contextVars
  <2> QED
    BY <2>1, SameIsSeen
<1> QED
  BY <1>1, <1>2, <1>3, <1>4 DEF Next

\* For any number of jobs and of changes of device, disc and policy: what
\* C2AssessmentSession reports as released holds no reader, a running job has
\* its work with MediaWorker, and what that hands over was asked for, once.
THEOREM AssessmentIsTrackedAlways == Spec => []AssessmentIsTracked
BY AssessInvariant, AssessInvMeans, PTL

\* C2 evidence is shown only in the context it was gathered in.
THEOREM EvidenceInScopeAlways == Spec => []EvidenceInScope
BY AssessInvariant, AssessInvMeans, PTL

\* The media worker keeps its promise to an assessment: however jobs, their
\* cancellation, changes of the device and MediaWorker::run() interleave, the
\* drive is touched only for a request that stands, and a request is answered
\* once, if it still stands and its device did not change, and else never.
THEOREM C2ImplementsRequests == Spec => ImplementsRequests
<1>1. Init => Promise!Init
  <2> SUFFICES ASSUME Init PROVE Promise!Init
    OBVIOUS
  <2>1. pending = Nothing /\ ~Busy /\ results = <<>> /\ stage = "idle"
    BY DEF Init, MediaInit, Busy
  <2>2. Phase = "none" /\ Asked = NoTask
    BY <2>1 DEF Phase, Asked
  <2> QED
    BY <2>1, <2>2 DEF Promise!Init, Standing, Allowed, Answered
<1>2. AssessInv /\ AssessInv' /\ ExecutedInv /\ [Next]_c2Vars => [Promise!Next]_(Promise!requestsVars)
  BY AssessStepIsPromised
<1> QED
  BY <1>1, <1>2, AssessInvariant, ExecutedInvariant, PTL DEF Spec, ImplementsRequests, Promise!Spec

-----------------------------------------------------------------------------
(* MetadataCache: the entries that two lookups share, and their answers.    *)

Entry == [good : BOOLEAN, fresh : BOOLEAN, older : SUBSET Files]

LookAts == {"reading", "fetching", "scanning", "evicting", "writing", "renaming", "parsing"}
Vias == {"none", "cache", "stale", "network"}
Mets == {"none", "failure", "success"}
BusyLook == [at : LookAts, file : Files, cached : BOOLEAN, body : {"none", "good", "bad"}, via : Vias,
             again : BOOLEAN, victims : SUBSET (SUBSET Files), had : BOOLEAN, met : Mets]
IdleLook == [at : {"idle"}, answer : {"none", "failed", "answered", "unavailable"}, file : Files,
             via : Vias, met : Mets, had : BOOLEAN]

FilesOf(t) == IF t = "artwork" THEN {"cover", "image"} ELSE {"disc", "other"}

\* What a lookup knows of the entry that it found: a bad body that is not from
\* the network means that the entry was not good, and so does a fetch that has
\* nothing to fall back on.
LookupIsHonest(l, t) ==
    /\ l.at = "idle" =>
         /\ l \in IdleLook
         /\ l.answer = "failed" => l.via = "network" \/ (l.met = "failure" /\ ~l.had)
         /\ l.via = "stale" => l.met = "failure"
    /\ l.at # "idle" => l \in BusyLook /\ l.file \in FilesOf(t)
    /\ l.at = "reading" => ~l.again /\ l.via = "none"
    /\ l.at = "fetching" => l.via = "none" /\ (l.again \/ ~l.cached => ~l.had)
    /\ l.at \in {"scanning", "evicting", "writing", "renaming"} => l.via = "network"
    /\ l.at = "parsing" => /\ l.body = "bad" /\ l.via # "network" => ~l.had
                           /\ l.via = "stale" => l.met = "failure"

\* Where the total leaves no room for a cover and its image, the artwork
\* thread, which alone writes them, removes the one before it writes the other.
CoverOrImage ==
    MaxTotal < 3 =>
      /\ ~({"cover", "image"} \subseteq Stored)
      /\ LET l == lookup["artwork"]
             rest == (Stored \cap {"cover", "image"}) \ {l.file}
         IN /\ l.at = "evicting" => rest \subseteq UNION l.victims
            /\ l.at \in {"writing", "renaming"} => rest = {}

CacheInv ==
    /\ CacheType /\ FilesHaveAnOrder
    /\ lookup = [t \in Lookers |-> lookup[t]]
    /\ \A t \in Lookers : LookupIsHonest(lookup[t], t)
    /\ CoverOrImage

\* One element more.
LEMMA OneMore ==
    ASSUME NEW S, NEW n \in Nat, IsFiniteSet(S), Cardinality(S) = n, NEW x, x \notin S
    PROVE  IsFiniteSet(S \cup {x}) /\ Cardinality(S \cup {x}) = n + 1
BY FS_AddElement

\* What files take together.
LEMMA Totals ==
    ASSUME NEW S \in SUBSET Files
    PROVE  /\ TotalOf(S) \in Nat /\ TotalOf(S) <= 5
           /\ ~({"cover", "image"} \subseteq S) => TotalOf(S) <= 4
           /\ "image" \in S => TotalOf(S) >= 2
           /\ S # {} => TotalOf(S) >= 1
<1> DEFINE B == {b \in S \X (1..2) : b[2] <= Size[b[1]]}
           d == <<"disc", 1>>
           o == <<"other", 1>>
           c == <<"cover", 1>>
           i == <<"image", 1>>
           j == <<"image", 2>>
           A == {d, o, i, j, c}
<1>1. Size["disc"] = 1 /\ Size["other"] = 1 /\ Size["cover"] = 1 /\ Size["image"] = 2
  BY DEF Size
<1>2. ASSUME NEW b \in B PROVE b \in A /\ (b = c => "cover" \in S) /\ (b = i \/ b = j => "image" \in S)
  <2>1. PICK f \in S, n \in 1..2 : b = <<f, n>>
    OBVIOUS
  <2>2. f \in {"disc", "other", "cover", "image"} /\ n <= Size[f] /\ n \in {1, 2}
    BY <2>1 DEF Files
  <2> QED
    BY <1>1, <2>1, <2>2
<1>3. /\ "disc" \in S => d \in B
      /\ "other" \in S => o \in B
      /\ "cover" \in S => c \in B
      /\ "image" \in S => i \in B /\ j \in B
  BY <1>1
<1>4. /\ o \notin {d} /\ i \notin {d, o} /\ j \notin {d, o, i} /\ c \notin {d, o, i, j}
      /\ j \notin {i} /\ c \notin {d, o}
  OBVIOUS
<1>5. TotalOf(S) = Cardinality(B)
  BY DEF TotalOf
<1> HIDE DEF B, d, o, c, i, j
<1>6. IsFiniteSet({d}) /\ Cardinality({d}) = 1 /\ IsFiniteSet({i}) /\ Cardinality({i}) = 1
  BY FS_Singleton
<1>7. IsFiniteSet({d, o}) /\ Cardinality({d, o}) = 2 /\ IsFiniteSet({i, j}) /\ Cardinality({i, j}) = 2
  <2>1. {d, o} = {d} \cup {o} /\ {i, j} = {i} \cup {j}
    OBVIOUS
  <2>2. Cardinality({d} \cup {o}) = 1 + 1 /\ IsFiniteSet({d} \cup {o})
    BY <1>4, <1>6, OneMore
  <2>3. Cardinality({i} \cup {j}) = 1 + 1 /\ IsFiniteSet({i} \cup {j})
    BY <1>4, <1>6, OneMore
  <2> QED
    BY <2>1, <2>2, <2>3
<1>8. IsFiniteSet({d, o, i}) /\ Cardinality({d, o, i}) = 3 /\ IsFiniteSet({d, o, c}) /\ Cardinality({d, o, c}) = 3
  <2>1. {d, o, i} = {d, o} \cup {i} /\ {d, o, c} = {d, o} \cup {c}
    OBVIOUS
  <2>2. Cardinality({d, o} \cup {i}) = 2 + 1 /\ IsFiniteSet({d, o} \cup {i})
    BY <1>4, <1>7, OneMore
  <2>3. Cardinality({d, o} \cup {c}) = 2 + 1 /\ IsFiniteSet({d, o} \cup {c})
    BY <1>4, <1>7, OneMore
  <2> QED
    BY <2>1, <2>2, <2>3
<1>9. IsFiniteSet({d, o, i, j}) /\ Cardinality({d, o, i, j}) = 4
  <2>1. {d, o, i, j} = {d, o, i} \cup {j}
    OBVIOUS
  <2>2. Cardinality({d, o, i} \cup {j}) = 3 + 1 /\ IsFiniteSet({d, o, i} \cup {j})
    BY <1>4, <1>8, OneMore
  <2> QED
    BY <2>1, <2>2
<1>10. IsFiniteSet(A) /\ Cardinality(A) = 5
  <2>1. A = {d, o, i, j} \cup {c}
    OBVIOUS
  <2>2. Cardinality({d, o, i, j} \cup {c}) = 4 + 1 /\ IsFiniteSet({d, o, i, j} \cup {c})
    BY <1>4, <1>9, OneMore
  <2> QED
    BY <2>1, <2>2
<1>11. B \subseteq A
  BY <1>2
<1>12. IsFiniteSet(B) /\ Cardinality(B) \in Nat /\ Cardinality(B) <= 5
  BY <1>10, <1>11, FS_Subset, FS_CardinalityType
<1>13. ASSUME ~({"cover", "image"} \subseteq S) PROVE Cardinality(B) <= 4
  <2>1. CASE "cover" \notin S
    <3>1. B \subseteq {d, o, i, j}
      BY <1>2, <2>1
    <3> QED
      BY <1>9, <3>1, FS_Subset
  <2>2. CASE "image" \notin S
    <3>1. B \subseteq {d, o, c}
      BY <1>2, <2>2
    <3>2. Cardinality(B) <= 3
      BY <1>8, <3>1, FS_Subset
    <3> QED
      BY <1>12, <3>2
  <2> QED
    BY <1>13, <2>1, <2>2
<1>14. ASSUME "image" \in S PROVE Cardinality(B) >= 2
  <2>1. {i, j} \subseteq B
    BY <1>3, <1>14
  <2>2. Cardinality({i, j}) <= Cardinality(B)
    BY <1>12, <2>1, FS_Subset
  <2> QED
    BY <1>7, <1>12, <2>2
<1>15. ASSUME S # {} PROVE Cardinality(B) >= 1
  <2>1. "disc" \in S \/ "other" \in S \/ "cover" \in S \/ "image" \in S
    BY <1>15 DEF Files
  <2>2. B # {}
    BY <1>3, <2>1
  <2>3. Cardinality(B) # 0
    BY <1>12, <2>2, FS_EmptySet
  <2> QED
    BY <1>12, <2>3
<1> QED
  BY <1>5, <1>12, <1>13, <1>14, <1>15

\* Files that are removed: the rest keep their order.
LEMMA WithoutKeepsOrder ==
    ASSUME CacheType, FilesHaveAnOrder, NEW gone, dir' = Without(gone)
    PROVE  /\ dir' \in [Files -> SUBSET Entry] /\ FilesHaveAnOrder' /\ Stored' = Stored \ gone
           /\ \A f \in Files \ gone : \A e \in dir'[f] : \E d \in dir[f] : e.good = d.good
<1> DEFINE After(e) == [e EXCEPT !.older = @ \ gone]
<1>1. dir \in [Files -> SUBSET Entry]
  BY DEF CacheType, Entry
<1>2. ASSUME NEW e \in Entry
      PROVE  After(e) \in Entry /\ After(e).older = e.older \ gone /\ After(e).good = e.good
  BY DEF Entry
<1>3. dir' = [f \in Files |-> IF f \in gone THEN {} ELSE {After(e) : e \in dir[f]}]
  BY DEF Without, NoEntry
<1> HIDE DEF After
<1>4. \A f \in Files : dir[f] \subseteq Entry
  BY <1>1
<1>5. \A f \in Files \ gone : dir'[f] = {After(e) : e \in dir[f]}
  BY <1>3
<1>6. \A f \in Files \cap gone : dir'[f] = {}
  BY <1>3
<1>7. dir' \in [Files -> SUBSET Entry]
  <2>1. \A f \in Files : (IF f \in gone THEN {} ELSE {After(e) : e \in dir[f]}) \in SUBSET Entry
    BY <1>2, <1>4
  <2> QED
    BY <1>3, <2>1
<1>8. Stored' = Stored \ gone
  BY <1>5, <1>6 DEF Stored, NoEntry
<1>9. FilesHaveAnOrder'
  <2> SUFFICES ASSUME NEW f \in Files, NEW e \in dir'[f], NEW d \in dir'[f]
               PROVE  /\ e = d /\ e.older \subseteq Stored' \ {f}
                      /\ \A g \in Stored' \ {f} : \A h \in dir'[g] : g \in e.older <=> ~(f \in h.older)
    BY DEF FilesHaveAnOrder
  <2>1. f \notin gone
    BY <1>6
  <2>2. PICK e0 \in dir[f], d0 \in dir[f] : e = After(e0) /\ d = After(d0)
    BY <1>5, <2>1
  <2>3. e0 = d0 /\ e0.older \subseteq Stored \ {f}
    BY DEF FilesHaveAnOrder
  <2>4. e0 \in Entry /\ e.older = e0.older \ gone
    BY <1>2, <1>4, <2>2
  <2>5. ASSUME NEW g \in Stored' \ {f}, NEW h \in dir'[g] PROVE g \in e.older <=> ~(f \in h.older)
    <3>1. g \in Stored \ {f} /\ g \notin gone /\ g \in Files
      BY <1>8 DEF Stored
    <3>2. PICK h0 \in dir[g] : h = After(h0)
      BY <1>5, <3>1
    <3>3. h.older = h0.older \ gone
      BY <1>2, <1>4, <3>1, <3>2
    <3>4. g \in e0.older <=> ~(f \in h0.older)
      BY <3>1 DEF FilesHaveAnOrder
    <3> QED
      BY <2>1, <2>4, <3>1, <3>3, <3>4
  <2> QED
    BY <1>8, <2>1, <2>2, <2>3, <2>4, <2>5
<1>10. \A f \in Files \ gone : \A e \in dir'[f] : \E d \in dir[f] : e.good = d.good
  BY <1>2, <1>4, <1>5
<1> QED
  BY <1>7, <1>8, <1>9, <1>10

\* An entry that changes in place, but for its age among the others.
LEMMA SameOrder ==
    ASSUME CacheType, FilesHaveAnOrder, NEW f \in Files, NEW e \in dir[f], NEW x \in Entry,
           x.older = e.older, dir' = [dir EXCEPT ![f] = {x}]
    PROVE  dir' \in [Files -> SUBSET Entry] /\ FilesHaveAnOrder' /\ Stored' = Stored
<1>1. dir \in [Files -> SUBSET Entry]
  BY DEF CacheType, Entry
<1>2. dir'[f] = {x} /\ \A g \in Files : g # f => dir'[g] = dir[g]
  BY <1>1
<1>3. dir' \in [Files -> SUBSET Entry]
  BY <1>1
<1>4. Stored' = Stored
  BY <1>2 DEF Stored, NoEntry
<1>5. \A g \in Files : \A d \in dir'[g] : \E c \in dir[g] : d.older = c.older
  BY <1>2
<1>6. FilesHaveAnOrder'
  <2> SUFFICES ASSUME NEW g \in Files, NEW d \in dir'[g], NEW c \in dir'[g]
               PROVE  /\ d = c /\ d.older \subseteq Stored' \ {g}
                      /\ \A h \in Stored' \ {g} : \A b \in dir'[h] : h \in d.older <=> ~(g \in b.older)
    BY DEF FilesHaveAnOrder
  <2>1. PICK d0 \in dir[g] : d.older = d0.older
    BY <1>5
  <2>2. d = c
    BY <1>2 DEF FilesHaveAnOrder
  <2>3. d0.older \subseteq Stored \ {g}
    BY DEF FilesHaveAnOrder
  <2>4. ASSUME NEW h \in Stored' \ {g}, NEW b \in dir'[h] PROVE h \in d.older <=> ~(g \in b.older)
    <3>1. h \in Stored \ {g} /\ h \in Files
      BY <1>4 DEF Stored
    <3>2. PICK b0 \in dir[h] : b.older = b0.older
      BY <1>5, <3>1
    <3> QED
      BY <2>1, <3>1, <3>2 DEF FilesHaveAnOrder
  <2> QED
    BY <1>4, <2>1, <2>2, <2>3, <2>4
<1> QED
  BY <1>3, <1>4, <1>6

\* A file that is renamed into place is the newest.
LEMMA RenamedKeepsOrder ==
    ASSUME CacheType, FilesHaveAnOrder, NEW f \in Files, NEW good \in BOOLEAN,
           dir' = [Without({f}) EXCEPT ![f] = {[good |-> good, fresh |-> TRUE, older |-> Stored \ {f}]}]
    PROVE  dir' \in [Files -> SUBSET Entry] /\ FilesHaveAnOrder' /\ Stored' = Stored \cup {f}
<1> DEFINE After(e) == [e EXCEPT !.older = @ \ {f}]
           new == [good |-> good, fresh |-> TRUE, older |-> Stored \ {f}]
<1>1. dir \in [Files -> SUBSET Entry]
  BY DEF CacheType, Entry
<1>2. ASSUME NEW e \in Entry PROVE After(e) \in Entry /\ After(e).older = e.older \ {f}
  BY DEF Entry
<1>3. new \in Entry /\ new.older = Stored \ {f}
  BY DEF Entry, Stored
<1>4. dir' = [g \in Files |-> IF g = f THEN {new} ELSE {After(e) : e \in dir[g]}]
  BY DEF Without, NoEntry
<1> HIDE DEF After, new
<1>5. \A g \in Files : dir[g] \subseteq Entry
  BY <1>1
<1>6. dir'[f] = {new} /\ \A g \in Files \ {f} : dir'[g] = {After(e) : e \in dir[g]}
  BY <1>4
<1>7. dir' \in [Files -> SUBSET Entry]
  <2>1. \A g \in Files : (IF g = f THEN {new} ELSE {After(e) : e \in dir[g]}) \in SUBSET Entry
    BY <1>2, <1>3, <1>5
  <2> QED
    BY <1>4, <2>1
<1>8. Stored' = Stored \cup {f}
  <2>1. dir'[f] # {}
    BY <1>6
  <2>2. \A g \in Files : g # f => (dir'[g] # {} <=> dir[g] # {})
    BY <1>6
  <2> QED
    BY <2>1, <2>2 DEF Stored, NoEntry
<1>9. \A g \in Files : g # f => \A e \in dir'[g] : \E d \in dir[g] : e.older = d.older \ {f}
  <2> SUFFICES ASSUME NEW g \in Files, g # f, NEW e \in dir'[g]
               PROVE  \E d \in dir[g] : e.older = d.older \ {f}
    OBVIOUS
  <2>1. PICK d \in dir[g] : e = After(d)
    BY <1>6
  <2>2. d \in Entry
    BY <1>5
  <2> QED
    BY <1>2, <2>1, <2>2
<1>10. FilesHaveAnOrder'
  <2> SUFFICES ASSUME NEW g \in Files, NEW e \in dir'[g], NEW d \in dir'[g]
               PROVE  /\ e = d /\ e.older \subseteq Stored' \ {g}
                      /\ \A h \in Stored' \ {g} : \A b \in dir'[h] : h \in e.older <=> ~(g \in b.older)
    BY DEF FilesHaveAnOrder
  <2>1. CASE g = f
    <3>1. e = new /\ d = new
      BY <1>6, <2>1
    <3>2. ASSUME NEW h \in Stored' \ {f}, NEW b \in dir'[h] PROVE h \in e.older <=> ~(f \in b.older)
      <4>1. h \in Files /\ h # f /\ h \in Stored
        BY <1>8, <3>2 DEF Stored
      <4>2. PICK b0 \in dir[h] : b.older = b0.older \ {f}
        <5>1. \A e1 \in dir'[h] : \E d1 \in dir[h] : e1.older = d1.older \ {f}
          BY <1>9, <4>1
        <5>2. b \in dir'[h]
          BY <3>2
        <5> QED
          BY <5>1, <5>2
      <4>3. f \notin b.older
        BY <4>2
      <4> QED
        BY <1>3, <3>1, <4>1, <4>3
    <3> QED
      BY <1>3, <1>8, <2>1, <3>1, <3>2
  <2>2. CASE g # f
    <3>1. PICK e0 \in dir[g] : e.older = e0.older \ {f}
      BY <1>9, <2>2
    <3>2. e0.older \subseteq Stored \ {g}
      BY DEF FilesHaveAnOrder
    <3>4. e = d
      <4>1. PICK e1 \in dir[g], d1 \in dir[g] : e = After(e1) /\ d = After(d1)
        BY <1>6, <2>2
      <4>2. e1 = d1
        BY DEF FilesHaveAnOrder
      <4> QED
        BY <4>1, <4>2
    <3>3. ASSUME NEW h \in Stored' \ {g}, NEW b \in dir'[h] PROVE h \in e.older <=> ~(g \in b.older)
      <4>1. CASE h = f
        <5>1. b = new /\ g \in Stored
          BY <1>6, <4>1 DEF Stored, NoEntry
        <5> QED
          BY <1>3, <2>2, <3>1, <4>1, <5>1
      <4>2. CASE h # f
        <5>1. h \in Stored \ {g} /\ h \in Files /\ h # f
          BY <1>8, <3>3, <4>2 DEF Stored
        <5>2. PICK b0 \in dir[h] : b.older = b0.older \ {f}
          <6>1. \A e1 \in dir'[h] : \E d1 \in dir[h] : e1.older = d1.older \ {f}
            BY <1>9, <5>1
          <6>2. b \in dir'[h]
            BY <3>3
          <6> QED
            BY <6>1, <6>2
        <5>3. h \in e0.older <=> ~(g \in b0.older)
          BY <5>1 DEF FilesHaveAnOrder
        <5> QED
          BY <2>2, <3>1, <4>2, <5>2, <5>3
      <4> QED
        BY <4>1, <4>2
    <3> QED
      BY <1>8, <2>2, <3>1, <3>2, <3>3, <3>4
  <2> QED
    BY <2>1, <2>2
<1> QED
  BY <1>7, <1>8, <1>10

\* A lookup that starts.
LEMMA StartingLook ==
    ASSUME NEW f \in Files
    PROVE  /\ Starting(f) \in BusyLook /\ Starting(f).file = f /\ Starting(f).at = "reading"
           /\ Starting(f).again = FALSE /\ Starting(f).via = "none"
BY DEF Starting, BusyLook, LookAts, Vias, Mets

\* What is kept of a lookup that ended.
LEMMA EndedLook ==
    ASSUME NEW l \in BusyLook, NEW x \in {"failed", "answered", "unavailable"}
    PROVE  /\ Ended(l, x) \in IdleLook /\ Ended(l, x).at = "idle"
           /\ Ended(l, x).answer = "failed" =>
                x = "failed" /\ Ended(l, x).via = l.via /\ Ended(l, x).met = l.met /\ Ended(l, x).had = l.had
           /\ Ended(l, x).via = "stale" => l.via = "stale" /\ Ended(l, x).met = l.met
<1> DEFINE f == l.file
           v == l.via
           m == l.met
           h == l.had
           r == [NoLookup EXCEPT !.answer = x, !.file = f, !.via = v, !.met = m, !.had = h]
<1>1. NoLookup \in IdleLook /\ NoLookup.answer = "none" /\ NoLookup.via = "none" /\ NoLookup.at = "idle"
  BY DEF NoLookup, IdleLook, Files, Vias, Mets
<1>2. f \in Files /\ v \in Vias /\ m \in Mets /\ h \in BOOLEAN
  BY DEF BusyLook
<1>3. Ended(l, x) = IF x = "failed" \/ v = "stale" THEN r ELSE NoLookup
  BY DEF Ended
<1> HIDE DEF f, v, m, h
<1>4. r \in IdleLook
  BY <1>1, <1>2 DEF IdleLook
<1>5. r.at = "idle" /\ r.answer = x /\ r.via = v /\ r.met = m /\ r.had = h
  BY <1>1, <1>4 DEF IdleLook
<1> HIDE DEF r
<1> QED
  BY <1>1, <1>3, <1>4, <1>5 DEF v, m, h

\* A lookup that goes on, whatever it did to the files.
LEMMA LookGoesOn ==
    ASSUME CacheInv, NEW t \in Lookers, NEW l, Becomes(t, l), LookupIsHonest(l, t),
           CacheType', FilesHaveAnOrder', CoverOrImage'
    PROVE  CacheInv'
<1>1. lookup = [u \in Lookers |-> lookup[u]] /\ lookup' = [lookup EXCEPT ![t] = l]
  BY DEF CacheInv, Becomes
<1>2. lookup' = [u \in Lookers |-> lookup'[u]] /\ lookup'[t] = l /\ \A u \in Lookers : u # t => lookup'[u] = lookup[u]
  BY <1>1
<1>3. \A u \in Lookers : LookupIsHonest(lookup'[u], u)
  BY <1>2 DEF CacheInv
<1> QED
  BY <1>2, <1>3 DEF CacheInv

\* A cover and its image do not meet while neither is written.
LEMMA NeitherIsWritten ==
    ASSUME CacheInv, NEW t \in Lookers, NEW l, Becomes(t, l),
           Stored' \subseteq Stored \cup (IF t = "metadata" THEN {"disc", "other"} ELSE {}),
           t = "artwork" => l.at \notin {"evicting", "writing", "renaming"}
    PROVE  CoverOrImage'
<1>1. lookup = [u \in Lookers |-> lookup[u]] /\ lookup' = [lookup EXCEPT ![t] = l] /\ CoverOrImage
  BY DEF CacheInv, Becomes
<1>2. lookup'["artwork"] = IF t = "artwork" THEN l ELSE lookup["artwork"]
  BY <1>1 DEF Lookers
<1>3. Stored' \cap {"cover", "image"} \subseteq Stored
  OBVIOUS
<1>4. CASE t = "artwork"
  BY <1>1, <1>2, <1>3, <1>4 DEF CoverOrImage
<1>5. CASE t = "metadata"
  BY <1>1, <1>2, <1>3, <1>5 DEF CoverOrImage
<1> QED
  BY <1>4, <1>5 DEF Lookers

LEMMA BeginKeepsCache == ASSUME CacheInv, NEW t \in Lookers, BeginLookup(t) PROVE CacheInv'
<1>1. PICK f \in FirstFiles[t] : Becomes(t, Starting(f))
  BY DEF BeginLookup
<1>2. f \in FilesOf(t) /\ f \in Files
  BY DEF FirstFiles, FilesOf, Lookers, Files
<1>3. LookupIsHonest(Starting(f), t)
  BY <1>2, StartingLook DEF LookupIsHonest
<1>4. UNCHANGED <<dir, tmps>> /\ Stored' = Stored /\ CacheType' /\ FilesHaveAnOrder'
  BY DEF BeginLookup, CacheInv, CacheType, FilesHaveAnOrder, Stored
<1>5. CoverOrImage'
  BY <1>1, <1>2, <1>4, StartingLook, NeitherIsWritten
<1> QED
  BY <1>1, <1>3, <1>4, <1>5, LookGoesOn

\* The entry that is found says whether it is good.
LEMMA ReadKeepsCache == ASSUME CacheInv, NEW t \in Lookers, ReadCache(t) PROVE CacheInv'
<1> DEFINE l == lookup[t]
           found == EntryOf(l.file)
           serving == {e \in found : Served(l.file, e)}
           c == found # {}
           h == \E e \in found : e.good
           held == [l EXCEPT !.cached = c, !.had = h]
           b == IF \E e \in serving : e.good THEN "good" ELSE "bad"
           parsing == [held EXCEPT !.at = "parsing", !.via = "cache", !.body = b]
           fetching == [held EXCEPT !.at = "fetching"]
<1>1. l.at = "reading" /\ LookupIsHonest(l, t) /\ CacheType /\ FilesHaveAnOrder
  BY DEF ReadCache, CacheInv
<1>2. l \in BusyLook /\ l.file \in FilesOf(t) /\ ~l.again /\ l.via = "none" /\ l.file \in Files
  BY <1>1 DEF LookupIsHonest, BusyLook
<1>3. Becomes(t, IF serving # {} THEN parsing ELSE fetching)
  BY DEF ReadCache
<1>4. c \in BOOLEAN /\ h \in BOOLEAN /\ (~c => ~h) /\ b \in {"none", "good", "bad"}
  OBVIOUS
<1>5. serving # {} /\ b = "bad" => ~h
  <2>1. \A e, d \in found : e = d
    BY <1>1, <1>2 DEF FilesHaveAnOrder, EntryOf
  <2> QED
    BY <2>1
<1> HIDE DEF found, serving, c, h, b
<1>6. /\ held \in BusyLook /\ held.cached = c /\ held.had = h
      /\ held.file = l.file /\ held.again = l.again /\ held.via = "none"
  <2> HIDE DEF l
  <2>1. held \in BusyLook
    BY <1>2, <1>4 DEF BusyLook
  <2> QED
    BY <1>2, <2>1 DEF BusyLook
<1> HIDE DEF held, l
<1>7. serving # {} => LookupIsHonest(parsing, t) /\ parsing.at = "parsing"
  <2> DEFINE a == "parsing"
             v == "cache"
             r == [held EXCEPT !.at = a, !.via = v, !.body = b]
  <2>0. a \in LookAts /\ v \in Vias /\ parsing = r /\ a = "parsing" /\ v = "cache"
    BY DEF LookAts, Vias
  <2> HIDE DEF a, v, parsing
  <2>2. r \in BusyLook
    BY <1>4, <1>6, <2>0 DEF BusyLook
  <2>3. /\ r.at = a /\ r.via = v /\ r.body = b /\ r.file = l.file /\ r.had = h
    BY <1>6, <2>2 DEF BusyLook
  <2> HIDE DEF r
  <2>1. /\ parsing \in BusyLook /\ parsing.at = "parsing" /\ parsing.via = "cache" /\ parsing.body = b
        /\ parsing.file = l.file /\ parsing.had = h
    BY <2>0, <2>2, <2>3
  <2> QED
    BY <1>2, <1>5, <2>1 DEF LookupIsHonest
<1>8. LookupIsHonest(fetching, t) /\ fetching.at = "fetching"
  <2>1. /\ fetching \in BusyLook /\ fetching.at = "fetching" /\ fetching.via = "none"
        /\ fetching.again = l.again /\ fetching.cached = c /\ fetching.had = h /\ fetching.file = l.file
    BY <1>6 DEF LookAts, BusyLook
  <2> HIDE DEF fetching
  <2> QED
    BY <1>2, <1>4, <2>1 DEF LookupIsHonest
<1>9. CacheType' /\ FilesHaveAnOrder' /\ Stored' \subseteq Stored
  <2>1. tmps' = tmps /\ (dir' = Without({l.file}) \/ dir' = dir)
    BY DEF ReadCache, l
  <2>2. CASE dir' = Without({l.file})
    <3>1. dir' \in [Files -> SUBSET Entry] /\ FilesHaveAnOrder' /\ Stored' = Stored \ {l.file}
      BY <1>1, <2>2, WithoutKeepsOrder
    <3> QED
      BY <1>1, <2>1, <3>1 DEF CacheType, Entry
  <2>3. CASE dir' = dir
    BY <1>1, <2>1, <2>3 DEF CacheType, FilesHaveAnOrder, Stored
  <2> QED
    BY <2>1, <2>2, <2>3
<1>10. PICK r : Becomes(t, r) /\ LookupIsHonest(r, t) /\ r.at \in {"parsing", "fetching"}
  <2> HIDE DEF parsing, fetching
  <2> QED
    BY <1>3, <1>7, <1>8
<1>11. CoverOrImage'
  BY <1>9, <1>10, NeitherIsWritten
<1> QED
  BY <1>9, <1>10, <1>11, LookGoesOn

\* A fetch that fails: there is a good entry to fall back on, or none was found.
LEMMA FetchFailsKeepsCache == ASSUME CacheInv, NEW t \in Lookers, FetchFails(t) PROVE CacheInv'
<1> DEFINE l == lookup[t]
           m == [l EXCEPT !.met = "failure"]
           b == IF m.had THEN "good" ELSE "bad"
           stale == [m EXCEPT !.at = "parsing", !.via = "stale", !.body = b]
           last == m.again \/ ~m.cached \/ (m.file = "image" /\ ~m.had)
<1>1. l.at = "fetching" /\ LookupIsHonest(l, t)
  BY DEF FetchFails, CacheInv
<1>2. l \in BusyLook /\ l.file \in FilesOf(t) /\ l.via = "none" /\ (l.again \/ ~l.cached => ~l.had)
  BY <1>1 DEF LookupIsHonest
<1>3. Becomes(t, IF last THEN Ended(m, "failed") ELSE stale)
  BY DEF FetchFails, FallsBack
<1> HIDE DEF l
<1>4. m \in BusyLook
  BY <1>2 DEF BusyLook, Mets
<1>5. /\ m.met = "failure" /\ m.via = "none" /\ m.file \in FilesOf(t) /\ m.had \in BOOLEAN
      /\ m.again \/ ~m.cached => ~m.had
  BY <1>2, <1>4 DEF BusyLook
<1> HIDE DEF m
<1>6. last => ~m.had
  BY <1>5
<1>7. b \in {"none", "good", "bad"} /\ (b = "bad" => ~m.had)
  BY <1>5
<1> HIDE DEF b, last
<1>8. last => LookupIsHonest(Ended(m, "failed"), t) /\ Ended(m, "failed").at = "idle"
  BY <1>4, <1>5, <1>6, EndedLook DEF LookupIsHonest
<1>9. LookupIsHonest(stale, t) /\ stale.at = "parsing"
  <2> DEFINE a == "parsing"
             v == "stale"
             r == [m EXCEPT !.at = a, !.via = v, !.body = b]
  <2>1. a \in LookAts /\ v \in Vias /\ stale = r /\ a = "parsing" /\ v = "stale"
    BY DEF LookAts, Vias
  <2> HIDE DEF a, v, stale
  <2>2. r \in BusyLook
    BY <1>4, <1>7, <2>1 DEF BusyLook
  <2>3. /\ r.at = a /\ r.via = v /\ r.body = b /\ r.file = m.file /\ r.had = m.had /\ r.met = m.met
    BY <1>4, <2>2 DEF BusyLook
  <2> HIDE DEF r
  <2> QED
    BY <1>5, <1>7, <2>1, <2>2, <2>3 DEF LookupIsHonest
<1>10. UNCHANGED <<dir, tmps>> /\ Stored' = Stored /\ CacheType' /\ FilesHaveAnOrder'
  BY DEF FetchFails, CacheInv, CacheType, FilesHaveAnOrder, Stored
<1>11. PICK r : Becomes(t, r) /\ LookupIsHonest(r, t) /\ r.at \in {"parsing", "idle"}
  <2> HIDE DEF stale
  <2> QED
    BY <1>3, <1>8, <1>9
<1>12. CoverOrImage'
  BY <1>10, <1>11, NeitherIsWritten
<1> QED
  BY <1>10, <1>11, <1>12, LookGoesOn

\* There is no cover.
LEMMA FetchFindsKeepsCache == ASSUME CacheInv, NEW t \in Lookers, FetchFindsNoCover(t) PROVE CacheInv'
<1> DEFINE l == lookup[t]
           m == [l EXCEPT !.met = "success"]
<1>1. l.at = "fetching" /\ LookupIsHonest(l, t)
  BY DEF FetchFindsNoCover, CacheInv
<1>2. l \in BusyLook /\ l.via = "none"
  BY <1>1 DEF LookupIsHonest
<1>3. Becomes(t, Ended(m, "unavailable"))
  BY DEF FetchFindsNoCover
<1> HIDE DEF l
<1>4. m \in BusyLook
  BY <1>2 DEF BusyLook, Mets
<1>5. m.via = "none"
  BY <1>2, <1>4 DEF BusyLook
<1> HIDE DEF m
<1>6. LookupIsHonest(Ended(m, "unavailable"), t) /\ Ended(m, "unavailable").at = "idle"
  BY <1>4, <1>5, EndedLook DEF LookupIsHonest
<1>7. UNCHANGED <<dir, tmps>> /\ Stored' = Stored /\ CacheType' /\ FilesHaveAnOrder'
  BY DEF FetchFindsNoCover, CacheInv, CacheType, FilesHaveAnOrder, Stored
<1>8. CoverOrImage'
  BY <1>3, <1>6, <1>7, NeitherIsWritten
<1> QED
  BY <1>3, <1>6, <1>7, <1>8, LookGoesOn

\* A body arrives: the entry that was found no longer matters.
LEMMA FetchSucceedsKeepsCache == ASSUME CacheInv, NEW t \in Lookers, FetchSucceeds(t) PROVE CacheInv'
<1> DEFINE l == lookup[t]
<1>1. l.at = "fetching" /\ LookupIsHonest(l, t)
  BY DEF FetchSucceeds, CacheInv
<1>2. l \in BusyLook /\ l.file \in FilesOf(t)
  BY <1>1 DEF LookupIsHonest
<1>3. PICK b \in {"good", "bad"} :
        Becomes(t, [l EXCEPT !.at = "scanning", !.body = b, !.via = "network",
                             !.met = "success", !.cached = FALSE, !.had = FALSE])
  BY DEF FetchSucceeds
<1> HIDE DEF l
<1> DEFINE a == "scanning"
           v == "network"
           m == "success"
           no == FALSE
           r == [l EXCEPT !.at = a, !.body = b, !.via = v, !.met = m, !.cached = no, !.had = no]
<1>4. /\ a \in LookAts /\ v \in Vias /\ m \in Mets /\ no \in BOOLEAN /\ a = "scanning" /\ v = "network"
      /\ b \in {"none", "good", "bad"} /\ Becomes(t, r)
  BY <1>3 DEF LookAts, Vias, Mets
<1> HIDE DEF a, v, m, no
<1>5. r \in BusyLook
  BY <1>2, <1>4 DEF BusyLook
<1>6. r.at = a /\ r.via = v /\ r.file = l.file
  BY <1>2, <1>5 DEF BusyLook
<1> HIDE DEF r
<1>7. LookupIsHonest(r, t)
  BY <1>2, <1>4, <1>5, <1>6 DEF LookupIsHonest
<1>8. UNCHANGED <<dir, tmps>> /\ Stored' = Stored /\ CacheType' /\ FilesHaveAnOrder'
  BY DEF FetchSucceeds, CacheInv, CacheType, FilesHaveAnOrder, Stored
<1>9. CoverOrImage'
  BY <1>4, <1>6, <1>8, NeitherIsWritten
<1> QED
  BY <1>4, <1>7, <1>8, <1>9, LookGoesOn

\* All the files but the one to be written are listed.
LEMMA ScanKeepsCache == ASSUME CacheInv, NEW t \in Lookers, Scan(t) PROVE CacheInv'
<1> DEFINE l == lookup[t]
           w == Oldest(l.file)
           a == "evicting"
           r == [l EXCEPT !.at = a, !.victims = w]
<1>1. /\ l.at = "scanning" /\ LookupIsHonest(l, t) /\ CacheType /\ FilesHaveAnOrder /\ CoverOrImage
      /\ dir \in [Files -> SUBSET Entry]
  BY DEF Scan, CacheInv, CacheType, Entry
<1>2. l \in BusyLook /\ l.file \in FilesOf(t) /\ l.via = "network" /\ l.file \in Files
  BY <1>1 DEF LookupIsHonest, BusyLook
<1>3. Becomes(t, r) /\ tmps' = {} /\ dir' = dir
  BY DEF Scan
<1>4. w \in SUBSET (SUBSET Files) /\ Stored \ {l.file} \subseteq UNION w
  <2>1. \A g \in Files : \A e \in dir[g] : e.older \subseteq Files
    BY <1>1 DEF Entry
  <2>2. w \in SUBSET (SUBSET Files)
    BY <2>1 DEF Oldest
  <2>3. ASSUME NEW g \in Stored \ {l.file} PROVE g \in UNION w
    <3>1. g \in Files \ {l.file} /\ dir[g] # {}
      BY DEF Stored, NoEntry
    <3>2. PICK e \in dir[g] : TRUE
      BY <3>1
    <3>3. (e.older \cup {g}) \ {l.file} \in w
      BY <3>1 DEF Oldest
    <3> QED
      BY <3>1, <3>3
  <2> QED
    BY <2>2, <2>3
<1>5. a \in LookAts /\ a = "evicting"
  BY DEF LookAts
<1> HIDE DEF l, w, a
<1>6. r \in BusyLook
  BY <1>2, <1>4, <1>5 DEF BusyLook
<1>7. r.at = a /\ r.victims = w /\ r.via = "network" /\ r.file = l.file
  BY <1>2, <1>6 DEF BusyLook
<1> HIDE DEF r
<1>8. LookupIsHonest(r, t)
  BY <1>2, <1>5, <1>6, <1>7 DEF LookupIsHonest
<1>9. Stored' = Stored /\ CacheType' /\ FilesHaveAnOrder'
  BY <1>1, <1>3 DEF CacheType, FilesHaveAnOrder, Stored
<1>10. CoverOrImage'
  <2>1. CASE t = "metadata"
    BY <1>3, <1>9, <2>1, NeitherIsWritten
  <2>2. CASE t = "artwork"
    <3>1. lookup'["artwork"] = r
      BY <1>3, <2>2 DEF CacheInv, Becomes, Lookers
    <3> QED
      BY <1>1, <1>4, <1>5, <1>7, <1>9, <3>1 DEF CoverOrImage
  <2> QED
    BY <2>1, <2>2 DEF Lookers
<1> QED
  BY <1>3, <1>8, <1>9, <1>10, LookGoesOn

\* Of a cover and its image the one that is listed is evicted, where there is
\* no room for both.
LEMMA OneIsEvicted ==
    ASSUME MaxTotal < 3, NEW f \in {"cover", "image"}, NEW g \in {"cover", "image"}, f # g,
           NEW w \in SUBSET (SUBSET Files), g \in UNION w
    PROVE  g \in Evicted(w, f)
<1> DEFINE X(gone) == (UNION w) \ (gone \cap Stored)
<1>1. Size["cover"] = 1 /\ Size["image"] = 2 /\ MaxTotal \in Nat
  BY CacheConstants DEF Size
<1>2. ASSUME NEW gone \in w, ~Over(TotalOf(X(gone)), f) PROVE g \in gone
  <2> SUFFICES ASSUME g \notin gone PROVE FALSE
    OBVIOUS
  <2>1. X(gone) \in SUBSET Files /\ g \in X(gone)
    OBVIOUS
  <2> DEFINE n == TotalOf(X(gone))
  <2>2. n \in Nat /\ (g = "image" => n >= 2) /\ n >= 1
    <3> HIDE DEF X
    <3> QED
      BY <2>1, Totals
  <2>3. ~(n + Size[f] > MaxTotal)
    BY <1>2 DEF Over
  <2> HIDE DEF n
  <2>4. CASE g = "image"
    BY <1>1, <2>2, <2>3, <2>4
  <2>5. CASE g = "cover"
    BY <1>1, <2>2, <2>3, <2>5
  <2> QED
    BY <2>4, <2>5
<1> QED
  BY <1>2 DEF Evicted

\* Files are evicted: the oldest, until what comes in fits.
LEMMA EvictKeepsCache == ASSUME CacheInv, NEW t \in Lookers, Evict(t) PROVE CacheInv'
<1> DEFINE l == lookup[t]
           gone == Evicted(l.victims, l.file)
           w == {}
           a == "writing"
           r == [l EXCEPT !.at = a, !.victims = w]
<1>1. /\ l.at = "evicting" /\ LookupIsHonest(l, t) /\ CacheType /\ FilesHaveAnOrder /\ CoverOrImage
  BY DEF Evict, CacheInv
<1>2. /\ l \in BusyLook /\ l.file \in FilesOf(t) /\ l.via = "network" /\ l.file \in Files
      /\ l.victims \in SUBSET (SUBSET Files)
  BY <1>1 DEF LookupIsHonest, BusyLook
<1>3. Becomes(t, r) /\ tmps' = tmps /\ dir' = Without(gone)
  BY DEF Evict
<1>4. a \in LookAts /\ a = "writing" /\ w \in SUBSET (SUBSET Files)
  BY DEF LookAts
<1>5. t = "artwork" /\ MaxTotal < 3 => (Stored \cap {"cover", "image"}) \ {l.file} \subseteq gone
  <2> SUFFICES ASSUME t = "artwork", MaxTotal < 3, NEW g \in (Stored \cap {"cover", "image"}) \ {l.file}
               PROVE  g \in gone
    OBVIOUS
  <2>1. g \in UNION l.victims
    BY <1>1 DEF CoverOrImage
  <2>2. l.file \in {"cover", "image"} /\ g \in {"cover", "image"} /\ g # l.file
    BY <1>2 DEF FilesOf
  <2> QED
    BY <1>2, <2>1, <2>2, OneIsEvicted
<1> HIDE DEF l, w, a, gone
<1>6. r \in BusyLook
  BY <1>2, <1>4 DEF BusyLook
<1>7. r.at = a /\ r.via = "network" /\ r.file = l.file
  BY <1>2, <1>6 DEF BusyLook
<1> HIDE DEF r
<1>8. LookupIsHonest(r, t)
  BY <1>2, <1>4, <1>6, <1>7 DEF LookupIsHonest
<1>9. dir' \in [Files -> SUBSET Entry] /\ Stored' = Stored \ gone /\ FilesHaveAnOrder'
  BY <1>1, <1>3, WithoutKeepsOrder
<1>10. CacheType'
  BY <1>1, <1>3, <1>9 DEF CacheType, Entry
<1>11. CoverOrImage'
  <2>1. CASE t = "metadata"
    BY <1>3, <1>9, <2>1, NeitherIsWritten
  <2>2. CASE t = "artwork"
    <3>1. lookup'["artwork"] = r
      BY <1>3, <2>2 DEF CacheInv, Becomes, Lookers
    <3> QED
      BY <1>1, <1>4, <1>5, <1>7, <1>9, <2>2, <3>1 DEF CoverOrImage
  <2> QED
    BY <2>1, <2>2 DEF Lookers
<1> QED
  BY <1>3, <1>8, <1>9, <1>10, <1>11, LookGoesOn

\* The temporary file is written, or what there is of it is left.
LEMMA WriteKeepsCache == ASSUME CacheInv, NEW t \in Lookers, WriteTemporary(t) PROVE CacheInv'
<1> DEFINE l == lookup[t]
<1>1. /\ l.at = "writing" /\ LookupIsHonest(l, t) /\ CacheType /\ FilesHaveAnOrder /\ CoverOrImage
  BY DEF WriteTemporary, CacheInv
<1>2. l \in BusyLook /\ l.file \in FilesOf(t) /\ l.via = "network" /\ l.file \in Files
  BY <1>1 DEF LookupIsHonest, BusyLook
<1>3. PICK a \in {"renaming", "parsing"} : Becomes(t, [l EXCEPT !.at = a])
  BY DEF WriteTemporary
<1>4. dir' = dir /\ tmps' \subseteq tmps \cup {l.file}
  BY DEF WriteTemporary
<1> HIDE DEF l
<1> DEFINE r == [l EXCEPT !.at = a]
<1>5. r \in BusyLook /\ Becomes(t, r)
  BY <1>2, <1>3 DEF BusyLook, LookAts
<1>6. r.at = a /\ r.via = "network" /\ r.file = l.file
  BY <1>2, <1>5 DEF BusyLook
<1> HIDE DEF r
<1>7. LookupIsHonest(r, t)
  BY <1>2, <1>3, <1>5, <1>6 DEF LookupIsHonest
<1>8. Stored' = Stored /\ CacheType' /\ FilesHaveAnOrder'
  BY <1>1, <1>2, <1>4 DEF CacheType, FilesHaveAnOrder, Stored
<1>9. CoverOrImage'
  <2>1. CASE t = "metadata"
    BY <1>5, <1>8, <2>1, NeitherIsWritten
  <2>2. CASE t = "artwork"
    <3>1. lookup'["artwork"] = r
      BY <1>5, <2>2 DEF CacheInv, Becomes, Lookers
    <3> QED
      BY <1>1, <1>3, <1>6, <1>8, <2>2, <3>1 DEF CoverOrImage, l
  <2> QED
    BY <2>1, <2>2 DEF Lookers
<1> QED
  BY <1>5, <1>7, <1>8, <1>9, LookGoesOn

\* The temporary file takes the place of the entry, unless it is gone.
LEMMA RenameKeepsCache == ASSUME CacheInv, NEW t \in Lookers, RenameTemporary(t) PROVE CacheInv'
<1> DEFINE l == lookup[t]
           f == l.file
           r == [l EXCEPT !.at = "parsing"]
<1>1. /\ l.at = "renaming" /\ LookupIsHonest(l, t) /\ CacheType /\ FilesHaveAnOrder /\ CoverOrImage
  BY DEF RenameTemporary, CacheInv
<1>2. l \in BusyLook /\ f \in FilesOf(t) /\ l.via = "network" /\ f \in Files
  BY <1>1 DEF LookupIsHonest, BusyLook
<1>3. Becomes(t, r) /\ tmps' = tmps \ {f}
  BY DEF RenameTemporary
<1>4. \/ dir' = dir
      \/ \E good \in BOOLEAN :
           dir' = [Without({f}) EXCEPT ![f] = {[good |-> good, fresh |-> TRUE, older |-> Stored \ {f}]}]
  BY DEF RenameTemporary
<1>5. dir' \in [Files -> SUBSET Entry] /\ FilesHaveAnOrder' /\ Stored' \subseteq Stored \cup {f}
  <2>1. CASE dir' = dir
    BY <1>1, <2>1 DEF CacheType, Entry, FilesHaveAnOrder, Stored
  <2>2. CASE dir' # dir
    <3>1. PICK good \in BOOLEAN :
            dir' = [Without({f}) EXCEPT ![f] = {[good |-> good, fresh |-> TRUE, older |-> Stored \ {f}]}]
      BY <1>4, <2>2
    <3> QED
      BY <1>1, <1>2, <3>1, RenamedKeepsOrder
  <2> QED
    BY <2>1, <2>2
<1>6. CacheType'
  BY <1>1, <1>3, <1>5 DEF CacheType, Entry
<1>7. t = "artwork" /\ MaxTotal < 3 => Stored \cap {"cover", "image"} \subseteq {f} /\ f \in {"cover", "image"}
  BY <1>1, <1>2 DEF CoverOrImage, FilesOf
<1> HIDE DEF l, f
<1>8. r \in BusyLook
  BY <1>2 DEF BusyLook, LookAts
<1>9. r.at = "parsing" /\ r.via = "network" /\ r.file = f
  BY <1>2, <1>8 DEF BusyLook, f
<1> HIDE DEF r
<1>10. LookupIsHonest(r, t)
  BY <1>2, <1>8, <1>9 DEF LookupIsHonest
<1>11. CoverOrImage'
  <2>1. CASE t = "metadata"
    BY <1>2, <1>3, <1>5, <2>1, NeitherIsWritten DEF FilesOf
  <2>2. CASE t = "artwork"
    <3>1. lookup'["artwork"] = r
      BY <1>3, <2>2 DEF CacheInv, Becomes, Lookers
    <3>2. MaxTotal < 3 => ~({"cover", "image"} \subseteq Stored')
      BY <1>5, <1>7, <2>2
    <3> QED
      BY <1>9, <3>1, <3>2 DEF CoverOrImage
  <2> QED
    BY <2>1, <2>2 DEF Lookers
<1> QED
  BY <1>3, <1>5, <1>6, <1>10, <1>11, LookGoesOn

\* A bad body ends the lookup, or is removed and fetched once more.
LEMMA ParseFailsKeepsCache == ASSUME CacheInv, NEW t \in Lookers, ParseFails(t) PROVE CacheInv'
<1> DEFINE l == lookup[t]
<1>1. /\ l.at = "parsing" /\ l.body = "bad" /\ LookupIsHonest(l, t) /\ CacheType /\ FilesHaveAnOrder
  BY DEF ParseFails, CacheInv
<1>2. l \in BusyLook /\ l.file \in FilesOf(t) /\ (l.via # "network" => ~l.had)
  BY <1>1 DEF LookupIsHonest
<1>3. CASE l.via = "network" /\ Becomes(t, Ended(l, "failed")) /\ UNCHANGED <<dir, tmps>>
  <2>1. LookupIsHonest(Ended(l, "failed"), t) /\ Ended(l, "failed").at = "idle"
    BY <1>2, <1>3, EndedLook DEF LookupIsHonest
  <2>2. Stored' = Stored /\ CacheType' /\ FilesHaveAnOrder'
    BY <1>1, <1>3 DEF CacheType, FilesHaveAnOrder, Stored
  <2>3. CoverOrImage'
    BY <1>3, <2>1, <2>2, NeitherIsWritten
  <2> QED
    BY <1>3, <2>1, <2>2, <2>3, LookGoesOn
<1>4. CASE /\ l.via # "network" /\ dir' = Without({l.file}) /\ UNCHANGED tmps
           /\ Becomes(t, [l EXCEPT !.at = "fetching", !.again = TRUE, !.via = "none", !.cached = FALSE])
  <2> DEFINE a == "fetching"
             yes == TRUE
             v == "none"
             no == FALSE
             r == [l EXCEPT !.at = a, !.again = yes, !.via = v, !.cached = no]
  <2>1. a \in LookAts /\ yes \in BOOLEAN /\ v \in Vias /\ no \in BOOLEAN /\ a = "fetching" /\ v = "none"
        /\ Becomes(t, r)
    BY <1>4 DEF LookAts, Vias
  <2>2. dir' \in [Files -> SUBSET Entry] /\ FilesHaveAnOrder' /\ Stored' = Stored \ {l.file}
    BY <1>1, <1>4, WithoutKeepsOrder
  <2>3. CacheType'
    BY <1>1, <1>4, <2>2 DEF CacheType, Entry
  <2> HIDE DEF l, a, yes, v, no
  <2>4. r \in BusyLook
    BY <1>2, <2>1 DEF BusyLook
  <2>5. r.at = a /\ r.via = v /\ r.file = l.file /\ r.had = l.had
    BY <1>2, <2>4 DEF BusyLook
  <2> HIDE DEF r
  <2>6. LookupIsHonest(r, t)
    BY <1>2, <1>4, <2>1, <2>4, <2>5 DEF LookupIsHonest
  <2>7. CoverOrImage'
    BY <2>1, <2>2, <2>5, NeitherIsWritten
  <2> QED
    BY <2>1, <2>2, <2>3, <2>6, <2>7, LookGoesOn
<1> QED
  BY <1>3, <1>4 DEF ParseFails

\* A good body is an answer, or names an image.
LEMMA ParseSucceedsKeepsCache == ASSUME CacheInv, NEW t \in Lookers, ParseSucceeds(t) PROVE CacheInv'
<1> DEFINE l == lookup[t]
<1>1. /\ l.at = "parsing" /\ LookupIsHonest(l, t) /\ CacheType /\ FilesHaveAnOrder
      /\ UNCHANGED <<dir, tmps>>
  BY DEF ParseSucceeds, CacheInv
<1>2. l \in BusyLook /\ l.file \in FilesOf(t) /\ (l.via = "stale" => l.met = "failure")
  BY <1>1 DEF LookupIsHonest
<1>3. \A x \in {"answered", "unavailable"} : LookupIsHonest(Ended(l, x), t) /\ Ended(l, x).at = "idle"
  <2> SUFFICES ASSUME NEW x \in {"answered", "unavailable"}
               PROVE  LookupIsHonest(Ended(l, x), t) /\ Ended(l, x).at = "idle"
    OBVIOUS
  <2> HIDE DEF l
  <2> QED
    BY <1>2, EndedLook DEF LookupIsHonest
<1>4. l.file = "cover" => LookupIsHonest(Starting("image"), t) /\ Starting("image").at = "reading"
  BY <1>2, StartingLook DEF LookupIsHonest, FilesOf, Files
<1>5. PICK r : Becomes(t, r) /\ LookupIsHonest(r, t) /\ r.at \in {"idle", "reading"}
  BY <1>3, <1>4 DEF ParseSucceeds
<1>6. Stored' = Stored /\ CacheType' /\ FilesHaveAnOrder'
  BY <1>1 DEF CacheType, FilesHaveAnOrder, Stored
<1>7. CoverOrImage'
  BY <1>5, <1>6, NeitherIsWritten
<1> QED
  BY <1>5, <1>6, <1>7, LookGoesOn

-----------------------------------------------------------------------------
\* An entry grows old.
LEMMA GrowsOldKeepsCache == ASSUME CacheInv, GrowsOld PROVE CacheInv'
<1>1. /\ CacheType /\ FilesHaveAnOrder /\ dir \in [Files -> SUBSET Entry]
      /\ UNCHANGED <<tmps, lookup>>
  BY DEF CacheInv, CacheType, Entry, GrowsOld
<1>2. PICK f \in Files : \E e \in dir[f] : dir' = [dir EXCEPT ![f] = {[e EXCEPT !.fresh = FALSE]}]
  BY DEF GrowsOld
<1>3. PICK e \in dir[f] : dir' = [dir EXCEPT ![f] = {[e EXCEPT !.fresh = FALSE]}]
  BY <1>2
<1> DEFINE x == [e EXCEPT !.fresh = FALSE]
<1>4. e \in Entry
  BY <1>1
<1>5. x \in Entry /\ x.older = e.older
  BY <1>4 DEF Entry
<1>6. dir' = [dir EXCEPT ![f] = {x}]
  BY <1>3
<1> HIDE DEF x
<1>7. dir' \in [Files -> SUBSET Entry] /\ FilesHaveAnOrder' /\ Stored' = Stored
  BY <1>1, <1>5, <1>6, SameOrder
<1> QED
  BY <1>1, <1>7 DEF CacheInv, CacheType, Entry, CoverOrImage

\* The session is killed, or the power fails: lookups end, and an entry may
\* be spoilt.
LEMMA CrashKeepsCache == ASSUME CacheInv, CrashLookups PROVE CacheInv'
<1>1. /\ CacheType /\ FilesHaveAnOrder /\ dir \in [Files -> SUBSET Entry] /\ CoverOrImage
      /\ UNCHANGED tmps /\ lookup' = [t \in Lookers |-> NoLookup]
  BY DEF CacheInv, CacheType, Entry, CrashLookups
<1>2. dir' \in [Files -> SUBSET Entry] /\ FilesHaveAnOrder' /\ Stored' = Stored
  <2>1. CASE UNCHANGED dir
    BY <1>1, <2>1 DEF FilesHaveAnOrder, Stored
  <2>2. ASSUME NEW f \in Files, NEW e \in dir[f], dir' = [dir EXCEPT ![f] = {[e EXCEPT !.good = FALSE]}]
        PROVE  dir' \in [Files -> SUBSET Entry] /\ FilesHaveAnOrder' /\ Stored' = Stored
    <3> DEFINE x == [e EXCEPT !.good = FALSE]
    <3>1. e \in Entry
      BY <1>1, <2>2
    <3>2. x \in Entry /\ x.older = e.older
      BY <3>1 DEF Entry
    <3>3. dir' = [dir EXCEPT ![f] = {x}]
      BY <2>2
    <3> HIDE DEF x
    <3> QED
      BY <1>1, <2>2, <3>2, <3>3, SameOrder
  <2> QED
    BY <2>1, <2>2 DEF CrashLookups
<1>3. \A t \in Lookers : LookupIsHonest(lookup'[t], t)
  <2>1. /\ NoLookup \in IdleLook /\ NoLookup.at = "idle" /\ NoLookup.answer = "none"
        /\ NoLookup.via = "none"
    BY DEF NoLookup, IdleLook, Files, Vias, Mets
  <2> QED
    BY <1>1, <2>1 DEF LookupIsHonest
<1>4. lookup' = [t \in Lookers |-> lookup'[t]] /\ lookup'["artwork"].at = "idle"
  BY <1>1 DEF Lookers, NoLookup
<1> QED
  BY <1>1, <1>2, <1>3, <1>4 DEF CacheInv, CacheType, Entry, CoverOrImage

LEMMA CacheInitHolds == CacheInit => CacheInv
<1> SUFFICES ASSUME CacheInit PROVE CacheInv
  OBVIOUS
<1>1. CacheType /\ FilesHaveAnOrder /\ Stored = {}
  BY DEF CacheInit, CacheType, FilesHaveAnOrder, Stored, NoEntry
<1>2. \A t \in Lookers : LookupIsHonest(lookup[t], t)
  <2>1. /\ NoLookup \in IdleLook /\ NoLookup.at = "idle" /\ NoLookup.answer = "none"
        /\ NoLookup.via = "none"
    BY DEF NoLookup, IdleLook, Files, Vias, Mets
  <2> QED
    BY <2>1 DEF CacheInit, LookupIsHonest
<1>3. lookup = [t \in Lookers |-> lookup[t]] /\ lookup["artwork"].at = "idle"
  BY DEF CacheInit, Lookers, NoLookup
<1> QED
  BY <1>1, <1>2, <1>3 DEF CacheInv, CoverOrImage

LEMMA NextKeepsCache == ASSUME CacheInv, [CacheNext]_cacheVars PROVE CacheInv'
<1>1. CASE Accident
  BY <1>1, GrowsOldKeepsCache, CrashKeepsCache DEF Accident
<1>2. ASSUME NEW t \in Lookers, BeginLookup(t) \/ Look(t) PROVE CacheInv'
  BY <1>2, BeginKeepsCache, ReadKeepsCache, FetchFailsKeepsCache, FetchFindsKeepsCache,
     FetchSucceedsKeepsCache, ScanKeepsCache, EvictKeepsCache, WriteKeepsCache, RenameKeepsCache,
     ParseFailsKeepsCache, ParseSucceedsKeepsCache DEF Look
<1>3. CASE UNCHANGED cacheVars
  BY <1>3 DEF CacheInv, cacheVars, CacheType, FilesHaveAnOrder, Stored, CoverOrImage
<1> QED
  BY <1>1, <1>2, <1>3 DEF CacheNext

\* The invariant says what the property does.
LEMMA CacheInvIsTransparent == CacheInv => CacheIsTransparent
<1> SUFFICES ASSUME CacheInv PROVE CacheIsTransparent
  OBVIOUS
<1>1. TotalIsBounded
  <2>1. Stored \in SUBSET Files /\ Size["image"] = 2 /\ MaxTotal \in Nat /\ 2 <= MaxTotal
    BY CacheConstants DEF Stored, Size, Files
  <2>2. MaxTotal < 3 => ~({"cover", "image"} \subseteq Stored)
    BY DEF CacheInv, CoverOrImage
  <2>3. TotalOf(Stored) \in Nat /\ TotalOf(Stored) <= 5 /\ (MaxTotal < 3 => TotalOf(Stored) <= 4)
    BY <2>1, <2>2, Totals
  <2> QED
    BY <2>1, <2>3 DEF TotalIsBounded
<1>2. FailuresAreDue /\ StaleOnlyOnFailure
  BY DEF CacheInv, LookupIsHonest, FailuresAreDue, StaleOnlyOnFailure
<1> QED
  BY <1>1, <1>2 DEF CacheInv, CacheIsTransparent

(***************************************************************************)
(* Whatever two lookups, the network, old age, kills and power losses do   *)
(* to the cache: a lookup fails only where its last fetch failed and it    *)
(* found no good entry, or where what the network sent is bad; an old body *)
(* is an answer only when a fetch failed; and the files exceed the total   *)
(* by no more than the largest of them.                                    *)
(***************************************************************************)
THEOREM CacheIsTransparentAlways == CacheSpec => []CacheIsTransparent
<1>1. CacheInit => CacheInv
  BY CacheInitHolds
<1>2. CacheInv /\ [CacheNext]_cacheVars => CacheInv'
  BY NextKeepsCache
<1>3. CacheInv => CacheIsTransparent
  BY CacheInvIsTransparent
<1> QED
  BY <1>1, <1>2, <1>3, PTL DEF CacheSpec

-----------------------------------------------------------------------------
(* ApiServer: what its maps hold of each connection, and what is reserved.  *)

ConnRecord == [at : {"none", "http", "listening", "closing"}, wants : BOOLEAN,
               buffered : {"nothing", "response", "image"}]
ImageRecord == [kind : ImageKinds, valid : BOOLEAN, left : Int, headers : BOOLEAN, closing : BOOLEAN]
PresentedRecord == [facts : Nat, state : Nat, sent : Nat, key : Nat, published : SUBSET ImageKinds]

MapsType ==
    /\ conn \in [Conns -> ConnRecord]
    /\ image \in [Conns -> SUBSET ImageRecord] /\ reading \in [Conns -> Int]
    /\ posting \subseteq Conns
    /\ listener \in [Conns -> SUBSET Nat] /\ keys \in [Conns -> SUBSET Seq(Nat)]
    /\ presented \in PresentedRecord

\* A connection is in the maps of what it was made for: of responses or of
\* listeners, never both, and of none before it is open; it has at most one
\* image, and only then is anything of an image buffered.
PlaceOf(c) ==
    /\ \A i, j \in image[c] : i = j
    /\ conn[c].buffered = "image" => image[c] # None
    /\ conn[c].at \in {"none", "http"} => listener[c] = None /\ keys[c] = None
    /\ conn[c].at = "listening" => listener[c] # None \/ keys[c] # None
    /\ conn[c].at = "none" \/ listener[c] # None \/ keys[c] # None =>
         image[c] = None /\ reading[c] = 0 /\ c \notin posting

\* The keys that wait for it are the last ones.
KeysOf(c) ==
    \A w \in keys[c] :
      /\ Len(w) <= MaxNavigation
      /\ \A i \in 1..Len(w) : w[i] = presented.key - (Len(w) - i)

SumsInv ==
    /\ reserved \in 0..MaxReserved
    /\ reserved = Reservation.background * Cardinality(ImagesOf("background"))
                    + Reservation.cover * Cardinality(ImagesOf("cover"))
    /\ Cardinality(Images) <= MaxImages

ApiInv == MapsType /\ (\A c \in Conns : PlaceOf(c) /\ KeysOf(c)) /\ SumsInv

\* The invariant says what the property does.
LEMMA ApiInvIsBounded == ApiInv => ResponsesAreBounded
<1> SUFFICES ASSUME ApiInv PROVE ResponsesAreBounded
  OBVIOUS
<1>1. ApiType
  BY DEF ApiInv, MapsType, ConnRecord, SumsInv, ApiType
<1>2. ImagesAreReserved
  BY DEF ApiInv, PlaceOf, SumsInv, ImagesAreReserved
<1>3. NothingIsLeft
  BY DEF ApiInv, PlaceOf, NothingIsLeft
<1>4. KeysAreRecent
  <2> SUFFICES ASSUME NEW c \in Conns, NEW w \in keys[c]
               PROVE  /\ Len(w) <= MaxNavigation
                      /\ \A i \in DOMAIN w : w[i] = presented.key - (Len(w) - i)
    BY DEF KeysAreRecent
  <2>1. w \in Seq(Nat)
    BY DEF ApiInv, MapsType
  <2>2. DOMAIN w = 1..Len(w)
    BY <2>1, LenProperties
  <2> QED
    BY <2>2 DEF ApiInv, KeysOf
<1> QED
  BY <1>1, <1>2, <1>3, <1>4 DEF ResponsesAreBounded

\* What an image reserves.
LEMMA Reservations ==
    /\ ImageKinds = {"background", "cover"}
    /\ Reservation.background = 2 /\ Reservation.cover = 1
    /\ Reservation["background"] = 2 /\ Reservation["cover"] = 1
BY DEF ImageKinds, Reservation

\* Sets of connections are finite.
LEMMA ConnsAreFinite ==
    ASSUME NEW S \in SUBSET Conns
    PROVE  IsFiniteSet(S) /\ Cardinality(S) \in Nat
BY ApiConstants, FS_Subset, FS_CardinalityType

\* Only one connection changes.
OnlyAt(c) ==
    \A d \in Conns : d # c =>
      /\ conn'[d] = conn[d] /\ image'[d] = image[d] /\ reading'[d] = reading[d]
      /\ listener'[d] = listener[d] /\ keys'[d] = keys[d]
      /\ d \in posting' <=> d \in posting

\* When one connection changes and keeps its place, every one has its place.
LEMMA OthersKeepPlaces ==
    ASSUME NEW c \in Conns, OnlyAt(c), presented'.key = presented.key,
           \A d \in Conns : PlaceOf(d) /\ KeysOf(d), PlaceOf(c)', KeysOf(c)'
    PROVE  \A d \in Conns : PlaceOf(d)' /\ KeysOf(d)'
<1> SUFFICES ASSUME NEW d \in Conns PROVE PlaceOf(d)' /\ KeysOf(d)'
  OBVIOUS
<1>1. CASE d = c
  BY <1>1
<1>2. CASE d # c
  BY <1>2 DEF OnlyAt, PlaceOf, KeysOf
<1> QED
  BY <1>1, <1>2

\* While the kinds of the images stay, so does what they reserve.
LEMMA SameKinds ==
    ASSUME MapsType, SumsInv, reserved' = reserved,
           \A c \in Conns : \A k \in ImageKinds :
             (\E i \in image'[c] : i.kind = k) <=> (\E i \in image[c] : i.kind = k),
           \A c \in Conns : image'[c] = None <=> image[c] = None
    PROVE  SumsInv'
<1>1. Images' = Images
  BY DEF Images
<1>2. ImagesOf("background")' = ImagesOf("background") /\ ImagesOf("cover")' = ImagesOf("cover")
  BY Reservations DEF ImagesOf
<1> QED
  BY <1>1, <1>2 DEF SumsInv

\* The images of a kind with one more connection that has one of it, or less.
LEMMA KindsWithOne ==
    ASSUME NEW c \in Conns, NEW k \in ImageKinds, NEW k2 \in ImageKinds,
           image[c] = None, \A i \in image'[c] : i.kind = k, image'[c] # None,
           \A d \in Conns : d # c => image'[d] = image[d]
    PROVE  /\ ImagesOf(k2)' = IF k2 = k THEN ImagesOf(k2) \cup {c} ELSE ImagesOf(k2)
           /\ c \notin ImagesOf(k2) /\ c \notin Images
           /\ Images' = Images \cup {c}
BY DEF ImagesOf, Images, None

\* An image that is admitted: its reservation is within the bound.
LEMMA AdmittedKeepsSums ==
    ASSUME MapsType, SumsInv, NEW c \in Conns, NEW k \in ImageKinds, Admitted(k),
           image[c] = None, \A i \in image'[c] : i.kind = k, image'[c] # None,
           \A d \in Conns : d # c => image'[d] = image[d],
           reserved' = reserved + Reservation[k]
    PROVE  SumsInv'
<1> DEFINE B == ImagesOf("background")
           C == ImagesOf("cover")
<1>1. k \in {"background", "cover"} /\ "background" \in ImageKinds /\ "cover" \in ImageKinds
  BY Reservations
<1>2. /\ B' = (IF "background" = k THEN B \cup {c} ELSE B) /\ c \notin B
      /\ C' = (IF "cover" = k THEN C \cup {c} ELSE C) /\ c \notin C
      /\ Images' = Images \cup {c} /\ c \notin Images
  BY <1>1, KindsWithOne
<1>3. B \in SUBSET Conns /\ C \in SUBSET Conns /\ Images \in SUBSET Conns
  BY DEF ImagesOf, Images
<1>4. /\ IsFiniteSet(B) /\ Cardinality(B) \in Nat /\ IsFiniteSet(C) /\ Cardinality(C) \in Nat
      /\ IsFiniteSet(Images) /\ Cardinality(Images) \in Nat
  BY <1>3, ConnsAreFinite
<1>5. /\ Cardinality(B') = Cardinality(B) + (IF k = "background" THEN 1 ELSE 0)
      /\ Cardinality(C') = Cardinality(C) + (IF k = "cover" THEN 1 ELSE 0)
      /\ Cardinality(Images') = Cardinality(Images) + 1
  <2> HIDE DEF B, C
  <2>1. Cardinality(Images') = Cardinality(Images) + 1
    BY <1>2, <1>4, FS_AddElement
  <2>2. CASE k = "background"
    <3>1. B' = B \cup {c} /\ C' = C
      BY <1>2, <2>2
    <3>2. Cardinality(B \cup {c}) = Cardinality(B) + 1
      BY <1>2, <1>4, FS_AddElement
    <3> QED
      BY <1>4, <2>1, <2>2, <3>1, <3>2
  <2>3. CASE k = "cover"
    <3>1. B' = B /\ C' = C \cup {c}
      BY <1>2, <2>3
    <3>2. Cardinality(C \cup {c}) = Cardinality(C) + 1
      BY <1>2, <1>4, FS_AddElement
    <3> QED
      BY <1>4, <2>1, <2>3, <3>1, <3>2
  <2> QED
    BY <1>1, <2>2, <2>3
<1>6. Cardinality(Images) < MaxImages /\ reserved + Reservation[k] <= MaxReserved
  BY DEF Admitted
<1>7. reserved \in Nat /\ reserved = 2 * Cardinality(B) + Cardinality(C)
  BY <1>4, Reservations, ApiConstants DEF SumsInv
<1>8. MaxImages \in Nat /\ MaxReserved \in Nat
  BY ApiConstants
<1> HIDE DEF B, C
<1>9. /\ reserved' \in 0..MaxReserved /\ reserved' = 2 * Cardinality(B') + Cardinality(C')
      /\ Cardinality(Images') <= MaxImages
  <2>1. CASE k = "background"
    BY <1>4, <1>5, <1>6, <1>7, <1>8, <2>1, Reservations
  <2>2. CASE k = "cover"
    BY <1>4, <1>5, <1>6, <1>7, <1>8, <2>2, Reservations
  <2> QED
    BY <1>1, <2>1, <2>2
<1> QED
  BY <1>4, <1>5, <1>9, Reservations DEF SumsInv, B, C

\* An image that is released: what it reserved is given back.
LEMMA ReleasedKeepsSums ==
    ASSUME MapsType, SumsInv, NEW c \in Conns, \A i, j \in image[c] : i = j, Released(c)
    PROVE  SumsInv'
<1>0. /\ image' = [image EXCEPT ![c] = None] /\ image \in [Conns -> SUBSET ImageRecord]
  BY DEF Released, MapsType
<1>1. CASE image[c] = None
  <2>1. reserved' = reserved /\ \A d \in Conns : image'[d] = image[d]
    BY <1>0, <1>1 DEF Released
  <2> QED
    BY <2>1, SameKinds
<1>2. CASE image[c] # None
  <2> DEFINE B == ImagesOf("background")
             C == ImagesOf("cover")
             k == The(image[c]).kind
  <2>1. The(image[c]) \in image[c]
    BY <1>2 DEF The, None
  <2>2. k \in ImageKinds
    BY <1>0, <2>1 DEF ImageRecord
  <2>3. \A i \in image[c] : i.kind = k
    BY <2>1
  <2>4. reserved' = reserved - Reservation[k]
    BY <1>2 DEF Released
  <2>5. image'[c] = None /\ \A d \in Conns : d # c => image'[d] = image[d]
    BY <1>0
  <2> HIDE DEF k
  <2>6. /\ B' = B \ {c} /\ C' = C \ {c} /\ Images' = Images \ {c} /\ c \in Images
        /\ c \in B <=> k = "background"
        /\ c \in C <=> k = "cover"
    <3>1. \A x : c \in ImagesOf(x) <=> k = x
      BY <2>1, <2>3 DEF ImagesOf
    <3>2. \A x : ImagesOf(x)' = ImagesOf(x) \ {c}
      BY <2>5 DEF ImagesOf, None
    <3>3. Images' = Images \ {c} /\ c \in Images
      BY <1>2, <2>5 DEF Images
    <3> QED
      BY <3>1, <3>2, <3>3
  <2>7. B \in SUBSET Conns /\ C \in SUBSET Conns /\ Images \in SUBSET Conns
    BY DEF ImagesOf, Images
  <2>8. /\ IsFiniteSet(B) /\ Cardinality(B) \in Nat /\ IsFiniteSet(C) /\ Cardinality(C) \in Nat
        /\ IsFiniteSet(Images) /\ Cardinality(Images) \in Nat
    BY <2>7, ConnsAreFinite
  <2>9. reserved \in 0..MaxReserved /\ reserved = 2 * Cardinality(B) + Cardinality(C)
    BY <2>8, Reservations DEF SumsInv
  <2>10. MaxImages \in Nat /\ MaxReserved \in Nat /\ Cardinality(Images) <= MaxImages
    BY ApiConstants DEF SumsInv
  <2>11. k \in {"background", "cover"}
    BY <2>2, Reservations
  <2> HIDE DEF B, C
  <2>12. Cardinality(Images') = Cardinality(Images) - 1
    BY <2>6, <2>8, FS_RemoveElement
  <2>13. Cardinality(B') = IF k = "background" THEN Cardinality(B) - 1 ELSE Cardinality(B)
    <3>1. Cardinality(B \ {c}) = IF c \in B THEN Cardinality(B) - 1 ELSE Cardinality(B)
      BY <2>8, FS_RemoveElement
    <3> QED
      BY <2>6, <3>1
  <2>14. Cardinality(C') = IF k = "cover" THEN Cardinality(C) - 1 ELSE Cardinality(C)
    <3>1. Cardinality(C \ {c}) = IF c \in C THEN Cardinality(C) - 1 ELSE Cardinality(C)
      BY <2>8, FS_RemoveElement
    <3> QED
      BY <2>6, <3>1
  <2>15. B' \in SUBSET Conns /\ C' \in SUBSET Conns
    BY <2>6, <2>7
  <2>16. Cardinality(B') \in Nat /\ Cardinality(C') \in Nat
    BY <2>15, ConnsAreFinite
  <2>17. /\ reserved' \in 0..MaxReserved /\ reserved' = 2 * Cardinality(B') + Cardinality(C')
         /\ Cardinality(Images') <= MaxImages
    <3>1. CASE k = "background"
      BY <2>4, <2>8, <2>9, <2>10, <2>12, <2>13, <2>14, <2>16, <3>1, Reservations
    <3>2. CASE k = "cover"
      BY <2>4, <2>8, <2>9, <2>10, <2>12, <2>13, <2>14, <2>16, <3>2, Reservations
    <3> QED
      BY <2>11, <3>1, <3>2
  <2> QED
    BY <2>8, <2>16, <2>17, Reservations DEF SumsInv, B, C
<1> QED
  BY <1>1, <1>2

\* What the operators on a connection's record make of it.
Recorded(c, at, buffered) ==
    /\ conn' \in [Conns -> ConnRecord]
    /\ \A d \in Conns : d # c => conn'[d] = conn[d]
    /\ conn'[c].at = at /\ conn'[c].buffered = buffered

LEMMA AsksBecomes ==
    ASSUME conn \in [Conns -> ConnRecord], NEW c \in Conns, conn' = Asks(c)
    PROVE  Recorded(c, conn[c].at, conn[c].buffered)
<1> DEFINE r == [conn[c] EXCEPT !.wants = TRUE]
<1>1. conn[c] \in ConnRecord
  OBVIOUS
<1>2. r \in ConnRecord /\ r.at = conn[c].at /\ r.buffered = conn[c].buffered
  BY <1>1 DEF ConnRecord
<1>3. conn' = [conn EXCEPT ![c] = r]
  BY DEF Asks
<1> HIDE DEF r
<1> QED
  BY <1>2, <1>3 DEF Recorded

LEMMA CallsBackBecomes ==
    ASSUME conn \in [Conns -> ConnRecord], NEW c \in Conns, NEW w \in BOOLEAN,
           NEW b \in {"nothing", "response", "image"}, conn' = CallsBack(c, w, b)
    PROVE  Recorded(c, conn[c].at, b)
<1> DEFINE r == [conn[c] EXCEPT !.wants = w, !.buffered = b]
<1>1. conn[c] \in ConnRecord
  OBVIOUS
<1>2. r \in ConnRecord /\ r.at = conn[c].at /\ r.buffered = b
  BY <1>1 DEF ConnRecord
<1>3. conn' = [conn EXCEPT ![c] = r]
  BY DEF CallsBack
<1> HIDE DEF r
<1> QED
  BY <1>2, <1>3 DEF Recorded

LEMMA ClosingBecomes ==
    ASSUME conn \in [Conns -> ConnRecord], NEW c \in Conns, conn' = Closing(c)
    PROVE  Recorded(c, "closing", conn[c].buffered)
<1> DEFINE r == [conn[c] EXCEPT !.at = "closing", !.wants = FALSE]
<1>1. conn[c] \in ConnRecord
  OBVIOUS
<1>2. r \in ConnRecord /\ r.at = "closing" /\ r.buffered = conn[c].buffered
  BY <1>1 DEF ConnRecord
<1>3. conn' = [conn EXCEPT ![c] = r]
  BY DEF Closing
<1> HIDE DEF r
<1> QED
  BY <1>2, <1>3 DEF Recorded

\* When one connection changes, and what the images reserve is in order, the
\* invariant is about that connection's place.
LEMMA ChangeKeepsApi ==
    ASSUME ApiInv, NEW c \in Conns, OnlyAt(c), MapsType', SumsInv', presented'.key = presented.key,
           PlaceOf(c)', KeysOf(c)'
    PROVE  ApiInv'
<1>1. \A d \in Conns : PlaceOf(d)' /\ KeysOf(d)'
  BY OthersKeepPlaces DEF ApiInv
<1> QED
  BY <1>1 DEF ApiInv

\* Only the record of a connection changes: it opens, it is called back, its
\* buffer drains, or it is going to be closed.
LEMMA RecordKeepsApi ==
    ASSUME ApiInv, NEW c \in Conns, NEW at, NEW b, Recorded(c, at, b),
           UNCHANGED <<image, reserved, reading, posting, listener, keys, presented>>,
           \/ at = conn[c].at
           \/ at = "http" /\ conn[c].at = "none"
           \/ at = "closing" /\ conn[c].at # "none",
           b = "image" => image[c] # None
    PROVE  ApiInv'
<1>1. MapsType /\ PlaceOf(c) /\ KeysOf(c) /\ SumsInv
  BY DEF ApiInv
<1>2. MapsType'
  BY <1>1 DEF MapsType, Recorded
<1>3. OnlyAt(c)
  BY DEF OnlyAt, Recorded
<1>4. PlaceOf(c)'
  BY <1>1 DEF PlaceOf, Recorded
<1>5. KeysOf(c)'
  BY <1>1 DEF KeysOf
<1>6. SumsInv'
  BY <1>1, SameKinds
<1> QED
  BY <1>2, <1>3, <1>4, <1>5, <1>6, ChangeKeepsApi

LEMMA ConnectKeepsApi == ASSUME ApiInv, NEW c \in Conns, Connect(c) PROVE ApiInv'
<1>1. conn \in [Conns -> ConnRecord] /\ conn[c] = NoConn
  BY DEF ApiInv, MapsType, Connect
<1>2. Recorded(c, "http", "nothing")
  <2> DEFINE r == [conn[c] EXCEPT !.at = "http"]
  <2>0. conn[c] \in ConnRecord
    BY <1>1
  <2>1. r \in ConnRecord /\ r.at = "http" /\ r.buffered = conn[c].buffered
    BY <2>0 DEF ConnRecord
  <2>2. conn' = [conn EXCEPT ![c] = r] /\ conn[c].buffered = "nothing"
    BY <1>1 DEF Connect, NoConn
  <2> HIDE DEF r
  <2> QED
    BY <1>1, <2>1, <2>2 DEF Recorded
<1> QED
  BY <1>1, <1>2, RecordKeepsApi DEF Connect, NoConn

LEMMA RespondKeepsApi == ASSUME ApiInv, NEW c \in Conns, Respond(c) PROVE ApiInv'
<1>1. conn \in [Conns -> ConnRecord] /\ conn[c] \in ConnRecord /\ PlaceOf(c)
  BY DEF ApiInv, MapsType
<1>2. conn[c].at = "http" /\ conn[c].wants \in BOOLEAN
  BY <1>1 DEF Respond, IsIdle, ConnRecord
<1>3. CASE conn' = Closing(c)
  BY <1>1, <1>2, <1>3, ClosingBecomes, RecordKeepsApi DEF Respond, PlaceOf
<1>4. ASSUME NEW b \in MayBuffer("response"), conn' = CallsBack(c, conn[c].wants, b) PROVE ApiInv'
  <2>1. b \in {"nothing", "response"}
    BY DEF MayBuffer
  <2>2. Recorded(c, conn[c].at, b)
    BY <1>1, <1>2, <1>4, <2>1, CallsBackBecomes
  <2> QED
    BY <2>1, <2>2, RecordKeepsApi DEF Respond
<1> QED
  BY <1>3, <1>4 DEF Respond

LEMMA DrainKeepsApi == ASSUME ApiInv, NEW c \in Conns, Drain(c) PROVE ApiInv'
<1>1. conn \in [Conns -> ConnRecord] /\ conn[c] \in ConnRecord
  BY DEF ApiInv, MapsType
<1>2. Recorded(c, conn[c].at, "nothing")
  <2> DEFINE r == [conn[c] EXCEPT !.buffered = "nothing"]
  <2>1. r \in ConnRecord /\ r.at = conn[c].at /\ r.buffered = "nothing"
    BY <1>1 DEF ConnRecord
  <2>2. conn' = [conn EXCEPT ![c] = r]
    BY DEF Drain
  <2> HIDE DEF r
  <2> QED
    BY <1>1, <2>1, <2>2 DEF Recorded
<1> QED
  BY <1>2, RecordKeepsApi DEF Drain

LEMMA HangupKeepsApi == ASSUME ApiInv, NEW c \in Conns, Hangup(c) PROVE ApiInv'
<1>1. conn \in [Conns -> ConnRecord] /\ PlaceOf(c)
  BY DEF ApiInv, MapsType
<1> QED
  BY <1>1, ClosingBecomes, RecordKeepsApi DEF Hangup, PlaceOf

\* An image takes its place with its reservation.
LEMMA GetImageKeepsApi ==
    ASSUME ApiInv, NEW c \in Conns, NEW kind \in ImageKinds, GetImage(c, kind)
    PROVE  ApiInv'
<1> DEFINE i == [kind |-> kind, valid |-> TRUE, left |-> Chunks, headers |-> FALSE, closing |-> FALSE]
<1>1. MapsType /\ PlaceOf(c) /\ KeysOf(c) /\ SumsInv /\ conn \in [Conns -> ConnRecord]
      /\ image \in [Conns -> SUBSET ImageRecord]
  BY DEF ApiInv, MapsType
<1>2. /\ conn[c].at = "http" /\ image[c] = None /\ reading[c] = 0 /\ c \notin posting
      /\ image' = [image EXCEPT ![c] = {i}] /\ conn' = Asks(c) /\ Admitted(kind)
      /\ reserved' = reserved + Reservation[kind]
      /\ UNCHANGED <<reading, posting, listener, keys, presented>>
  BY DEF GetImage, IsIdle
<1>3. i \in ImageRecord /\ i.kind = kind
  BY ApiConstants DEF ImageRecord
<1> HIDE DEF i
<1>4. image' \in [Conns -> SUBSET ImageRecord] /\ image'[c] = {i} /\ \A d \in Conns : d # c => image'[d] = image[d]
  BY <1>1, <1>2, <1>3
<1>5. Recorded(c, "http", conn[c].buffered)
  BY <1>1, <1>2, AsksBecomes
<1>6. MapsType'
  BY <1>1, <1>2, <1>4, <1>5 DEF MapsType, Recorded
<1>7. OnlyAt(c)
  BY <1>2, <1>4, <1>5 DEF OnlyAt, Recorded
<1>8. SumsInv'
  BY <1>1, <1>2, <1>3, <1>4, AdmittedKeepsSums DEF None
<1>9. PlaceOf(c)'
  BY <1>1, <1>2, <1>4, <1>5 DEF PlaceOf, Recorded, None
<1>10. KeysOf(c)'
  BY <1>1, <1>2 DEF KeysOf
<1> QED
  BY <1>2, <1>6, <1>7, <1>8, <1>9, <1>10, ChangeKeepsApi

\* Diagnostics and commands are asked for by idle connections.
LEMMA GetDiagnosticsKeepsApi == ASSUME ApiInv, NEW c \in Conns, GetDiagnostics(c) PROVE ApiInv'
<1>1. MapsType /\ PlaceOf(c) /\ KeysOf(c) /\ SumsInv /\ conn \in [Conns -> ConnRecord]
      /\ reading \in [Conns -> Int]
  BY DEF ApiInv, MapsType
<1>2. /\ conn[c].at = "http" /\ conn' = Asks(c) /\ reading' = [reading EXCEPT ![c] = Chunks]
      /\ UNCHANGED <<image, reserved, posting, listener, keys, presented>>
  BY DEF GetDiagnostics, IsIdle
<1>3. Recorded(c, "http", conn[c].buffered)
  BY <1>1, <1>2, AsksBecomes
<1>4. MapsType'
  <2>1. reading' \in [Conns -> Int]
    BY <1>1, <1>2, ApiConstants
  <2> QED
    BY <1>1, <1>2, <1>3, <2>1 DEF MapsType, Recorded
<1>5. OnlyAt(c)
  BY <1>1, <1>2, <1>3 DEF OnlyAt, Recorded
<1>6. SumsInv'
  BY <1>1, <1>2, SameKinds
<1>7. PlaceOf(c)'
  BY <1>1, <1>2, <1>3 DEF PlaceOf, Recorded
<1>8. KeysOf(c)'
  BY <1>1, <1>2 DEF KeysOf
<1> QED
  BY <1>2, <1>4, <1>5, <1>6, <1>7, <1>8, ChangeKeepsApi

LEMMA PostCommandKeepsApi == ASSUME ApiInv, NEW c \in Conns, PostCommand(c) PROVE ApiInv'
<1>1. MapsType /\ PlaceOf(c) /\ KeysOf(c) /\ SumsInv
  BY DEF ApiInv
<1>2. /\ conn[c].at = "http" /\ posting' = posting \cup {c}
      /\ UNCHANGED <<conn, image, reserved, reading, listener, keys, presented>>
  BY DEF PostCommand, IsIdle
<1>3. MapsType'
  BY <1>1, <1>2 DEF MapsType
<1>4. OnlyAt(c)
  BY <1>2 DEF OnlyAt
<1>5. SumsInv'
  BY <1>1, <1>2, SameKinds
<1>6. PlaceOf(c)'
  BY <1>1, <1>2 DEF PlaceOf
<1>7. KeysOf(c)'
  BY <1>1, <1>2 DEF KeysOf
<1> QED
  BY <1>2, <1>3, <1>4, <1>5, <1>6, <1>7, ChangeKeepsApi

\* The body of a command is complete: it is answered.
LEMMA CompleteBodyKeepsApi == ASSUME ApiInv, NEW c \in Conns, CompleteBody(c) PROVE ApiInv'
<1>1. MapsType /\ PlaceOf(c) /\ KeysOf(c) /\ SumsInv /\ conn \in [Conns -> ConnRecord] /\ conn[c] \in ConnRecord
  BY DEF ApiInv, MapsType
<1>2. /\ conn[c].at = "http" /\ posting' = posting \ {c} /\ conn[c].wants \in BOOLEAN
      /\ UNCHANGED <<image, reserved, reading, listener, keys, presented>>
  BY <1>1 DEF CompleteBody, ConnRecord
<1>3. \E at \in {"http", "closing"}, b \in {"nothing", "response", conn[c].buffered} : Recorded(c, at, b)
  <2>1. CASE conn' = Closing(c)
    BY <1>1, <2>1, ClosingBecomes
  <2>2. ASSUME NEW b \in MayBuffer("response"), conn' = CallsBack(c, conn[c].wants, b)
        PROVE  Recorded(c, "http", b) /\ b \in {"nothing", "response"}
    BY <1>1, <1>2, <2>2, CallsBackBecomes DEF MayBuffer
  <2> QED
    BY <2>1, <2>2 DEF CompleteBody
<1>4. PICK at \in {"http", "closing"}, b \in {"nothing", "response", conn[c].buffered} : Recorded(c, at, b)
  BY <1>3
<1>5. MapsType'
  BY <1>1, <1>2, <1>4 DEF MapsType, Recorded
<1>6. OnlyAt(c)
  BY <1>2, <1>4 DEF OnlyAt, Recorded
<1>7. SumsInv'
  BY <1>1, <1>2, SameKinds
<1>8. PlaceOf(c)'
  BY <1>1, <1>2, <1>4 DEF PlaceOf, Recorded
<1>9. KeysOf(c)'
  BY <1>1, <1>2 DEF KeysOf
<1> QED
  BY <1>2, <1>5, <1>6, <1>7, <1>8, <1>9, ChangeKeepsApi

\* A listener, for the state or for keys, comes in place of a response.
LEMMA UpgradeKeepsApi == ASSUME ApiInv, NEW c \in Conns, UpgradeConnection(c) PROVE ApiInv'
<1>1. MapsType /\ PlaceOf(c) /\ KeysOf(c) /\ SumsInv /\ conn \in [Conns -> ConnRecord]
      /\ listener \in [Conns -> SUBSET Nat] /\ keys \in [Conns -> SUBSET Seq(Nat)]
  BY DEF ApiInv, MapsType
<1>2. /\ conn[c].at = "http" /\ conn[c].buffered = "nothing"
      /\ image[c] = None /\ reading[c] = 0 /\ c \notin posting
      /\ UNCHANGED <<image, reserved, reading, posting, presented>>
  BY DEF UpgradeConnection, IsIdle
<1>3. SumsInv'
  BY <1>1, <1>2, SameKinds
<1>4. listener[c] = None /\ keys[c] = None
  BY <1>1, <1>2 DEF PlaceOf
<1>5. CASE /\ conn' = [Asks(c) EXCEPT ![c].at = "listening"]
           /\ listener' = [listener EXCEPT ![c] = {Never}] /\ UNCHANGED keys
  <2>1. Recorded(c, "listening", "nothing")
    <3> DEFINE r == [conn[c] EXCEPT !.wants = TRUE]
               s == [r EXCEPT !.at = "listening"]
    <3>1. r \in ConnRecord /\ r.buffered = "nothing"
      BY <1>1, <1>2 DEF ConnRecord
    <3>2. s \in ConnRecord /\ s.at = "listening" /\ s.buffered = "nothing"
      <4> HIDE DEF r
      <4> QED
        BY <3>1 DEF ConnRecord
    <3>3. Asks(c) = [conn EXCEPT ![c] = r]
      BY DEF Asks
    <3> HIDE DEF r
    <3>4. conn' = [conn EXCEPT ![c] = s]
      BY <1>1, <1>5, <3>3
    <3> HIDE DEF s
    <3> QED
      BY <1>1, <3>2, <3>4 DEF Recorded
  <2>2. Never \in Nat
    BY ApiConstants DEF Never
  <2>3. listener' \in [Conns -> SUBSET Nat] /\ listener'[c] = {Never} /\ \A d \in Conns : d # c => listener'[d] = listener[d]
    BY <1>1, <1>5, <2>2
  <2>4. MapsType'
    BY <1>1, <1>2, <1>5, <2>1, <2>3 DEF MapsType, Recorded
  <2>5. OnlyAt(c)
    BY <1>2, <1>5, <2>1, <2>3 DEF OnlyAt, Recorded
  <2>6. PlaceOf(c)'
    BY <1>1, <1>2, <2>1, <2>3 DEF PlaceOf, Recorded, None
  <2>7. KeysOf(c)'
    BY <1>1, <1>2, <1>5 DEF KeysOf
  <2> QED
    BY <1>2, <1>3, <2>4, <2>5, <2>6, <2>7, ChangeKeepsApi
<1>6. CASE /\ conn' = [conn EXCEPT ![c].at = "listening"]
           /\ keys' = [keys EXCEPT ![c] = {<<>>}] /\ UNCHANGED listener
  <2>1. Recorded(c, "listening", "nothing")
    <3> DEFINE r == [conn[c] EXCEPT !.at = "listening"]
    <3>1. r \in ConnRecord /\ r.at = "listening" /\ r.buffered = "nothing"
      BY <1>1, <1>2 DEF ConnRecord
    <3>2. conn' = [conn EXCEPT ![c] = r]
      BY <1>6
    <3> HIDE DEF r
    <3> QED
      BY <1>1, <3>1, <3>2 DEF Recorded
  <2>2. keys' \in [Conns -> SUBSET Seq(Nat)] /\ keys'[c] = {<<>>} /\ \A d \in Conns : d # c => keys'[d] = keys[d]
    BY <1>1, <1>6
  <2>3. MapsType'
    BY <1>1, <1>2, <1>6, <2>1, <2>2 DEF MapsType, Recorded
  <2>4. OnlyAt(c)
    BY <1>2, <1>6, <2>1, <2>2 DEF OnlyAt, Recorded
  <2>5. PlaceOf(c)'
    BY <1>1, <1>2, <2>1, <2>2 DEF PlaceOf, Recorded, None
  <2>6. KeysOf(c)'
    BY <2>2, ApiConstants DEF KeysOf
  <2> QED
    BY <1>2, <1>3, <2>3, <2>4, <2>5, <2>6, ChangeKeepsApi
<1> QED
  BY <1>5, <1>6 DEF UpgradeConnection

\* An image that is aborted keeps its place and its reservation.
LEMMA AbortKeepsApi ==
    ASSUME ApiInv, NEW c \in Conns, Abort(c), image[c] # None,
           UNCHANGED <<reading, posting, listener, keys, presented>>
    PROVE  ApiInv'
<1> DEFINE Aborted(i) == [i EXCEPT !.left = 0, !.closing = TRUE]
<1>1. MapsType /\ PlaceOf(c) /\ KeysOf(c) /\ SumsInv /\ conn \in [Conns -> ConnRecord]
      /\ image \in [Conns -> SUBSET ImageRecord]
  BY DEF ApiInv, MapsType
<1>2. /\ image' = [image EXCEPT ![c] = {Aborted(i) : i \in image[c]}]
      /\ conn' = Closing(c) /\ reserved' = reserved
  BY DEF Abort
<1>3. ASSUME NEW i \in ImageRecord PROVE Aborted(i) \in ImageRecord /\ Aborted(i).kind = i.kind
  <2> DEFINE r == [i EXCEPT !.left = 0]
  <2>1. r \in ImageRecord
    BY DEF ImageRecord
  <2>2. [r EXCEPT !.closing = TRUE] \in ImageRecord
    <3> HIDE DEF r
    <3> QED
      BY <2>1 DEF ImageRecord
  <2>3. Aborted(i) = [r EXCEPT !.closing = TRUE] /\ Aborted(i).kind = i.kind
    BY DEF ImageRecord
  <2> QED
    BY <2>2, <2>3
<1> HIDE DEF Aborted
<1>4. image'[c] = {Aborted(i) : i \in image[c]} /\ \A d \in Conns : d # c => image'[d] = image[d]
  BY <1>1, <1>2
<1>5. image' \in [Conns -> SUBSET ImageRecord]
  BY <1>1, <1>2, <1>3
<1>6. Recorded(c, "closing", conn[c].buffered)
  BY <1>1, <1>2, ClosingBecomes
<1>7. MapsType'
  BY <1>1, <1>5, <1>6 DEF MapsType, Recorded
<1>8. OnlyAt(c)
  BY <1>4, <1>6 DEF OnlyAt, Recorded
<1>9. SumsInv'
  <2>1. \A d \in Conns : image'[d] = None <=> image[d] = None
    BY <1>4 DEF None
  <2>2. \A d \in Conns : \A k \in ImageKinds :
           (\E i \in image'[d] : i.kind = k) <=> (\E i \in image[d] : i.kind = k)
    <3> SUFFICES ASSUME NEW d \in Conns, NEW k \in ImageKinds
                 PROVE (\E i \in image'[d] : i.kind = k) <=> (\E i \in image[d] : i.kind = k)
      OBVIOUS
    <3>1. CASE d # c
      BY <1>4, <3>1
    <3>2. CASE d = c
      <4>1. image[c] \subseteq ImageRecord
        BY <1>1
      <4> QED
        BY <1>3, <1>4, <3>2, <4>1
    <3> QED
      BY <3>1, <3>2
  <2> QED
    BY <1>1, <1>2, <2>1, <2>2, SameKinds
<1>10. PlaceOf(c)'
  <2>1. \A i, j \in image'[c] : i = j
    BY <1>1, <1>4 DEF PlaceOf
  <2>2. image'[c] # None
    BY <1>4 DEF None
  <2> QED
    BY <1>1, <1>6, <2>1, <2>2 DEF PlaceOf, Recorded
<1>11. KeysOf(c)'
  BY <1>1 DEF KeysOf
<1> QED
  BY <1>7, <1>8, <1>9, <1>10, <1>11, ChangeKeepsApi

\* The deadline of an image passes.
LEMMA TimerKeepsApi == ASSUME ApiInv, NEW c \in Conns, Timer(c) PROVE ApiInv'
BY AbortKeepsApi DEF Timer

\* What is written of an image: it is aborted, done and released, waited for,
\* or a part of it goes out.
LEMMA WriteImageKeepsApi ==
    ASSUME ApiInv, NEW c \in Conns, image[c] # None, WriteImage(c),
           UNCHANGED <<reading, posting, listener, keys, presented>>
    PROVE  ApiInv'
<1> DEFINE i == The(image[c])
           next == IF i.headers THEN [i EXCEPT !.left = @ - 1] ELSE [i EXCEPT !.headers = TRUE]
<1>1. MapsType /\ PlaceOf(c) /\ KeysOf(c) /\ SumsInv /\ conn \in [Conns -> ConnRecord]
      /\ image \in [Conns -> SUBSET ImageRecord]
  BY DEF ApiInv, MapsType
<1>2. i \in image[c] /\ i \in ImageRecord
  BY <1>1 DEF The, None
<1>3. image[c] = {i}
  BY <1>1, <1>2 DEF PlaceOf
<1>4. conn[c].at \notin {"none"} /\ conn[c].buffered \in {"nothing", "response", "image"}
      /\ listener[c] = None /\ keys[c] = None
  BY <1>1 DEF PlaceOf, ConnRecord
<1>5. next \in ImageRecord /\ next.kind = i.kind
  <2> HIDE DEF i
  <2>1. [i EXCEPT !.left = @ - 1] \in ImageRecord /\ [i EXCEPT !.left = @ - 1].kind = i.kind
    BY <1>2 DEF ImageRecord
  <2>2. [i EXCEPT !.headers = TRUE] \in ImageRecord /\ [i EXCEPT !.headers = TRUE].kind = i.kind
    BY <1>2 DEF ImageRecord
  <2> QED
    BY <2>1, <2>2
<1> HIDE DEF next, i
<1>6. CASE Abort(c)
  BY <1>6, AbortKeepsApi
<1>7. CASE /\ Drained(c) /\ Released(c)
           /\ conn' \in {CallsBack(c, FALSE, conn[c].buffered), Closing(c)}
  <2>1. conn[c].buffered = "nothing"
    BY <1>7 DEF Drained
  <2>2. \E at \in {conn[c].at, "closing"} : Recorded(c, at, "nothing")
    BY <1>1, <1>4, <1>7, <2>1, CallsBackBecomes, ClosingBecomes
  <2>3. PICK at \in {conn[c].at, "closing"} : Recorded(c, at, "nothing")
    BY <2>2
  <2>4. image' \in [Conns -> SUBSET ImageRecord] /\ image'[c] = None /\ \A d \in Conns : d # c => image'[d] = image[d]
    BY <1>1, <1>7 DEF Released, None
  <2>5. MapsType'
    BY <1>1, <2>3, <2>4 DEF MapsType, Recorded
  <2>6. OnlyAt(c)
    BY <2>3, <2>4 DEF OnlyAt, Recorded
  <2>7. SumsInv'
    BY <1>1, <1>7, ReleasedKeepsSums DEF PlaceOf
  <2>8. PlaceOf(c)'
    BY <1>1, <1>4, <2>3, <2>4 DEF PlaceOf, Recorded, None
  <2>9. KeysOf(c)'
    BY <1>1 DEF KeysOf
  <2> QED
    BY <2>5, <2>6, <2>7, <2>8, <2>9, ChangeKeepsApi
<1>8. CASE conn' = Asks(c) /\ UNCHANGED <<image, reserved>>
  <2>1. Recorded(c, conn[c].at, conn[c].buffered)
    BY <1>1, <1>8, AsksBecomes
  <2> QED
    BY <1>8, <2>1, RecordKeepsApi
<1>9. CASE /\ image' = [image EXCEPT ![c] = {next}] /\ reserved' = reserved
           /\ conn' \in {CallsBack(c, TRUE, b) : b \in MayBuffer("image")}
  <2>1. PICK b \in {"nothing", "image"} : conn' = CallsBack(c, TRUE, b)
    BY <1>9 DEF MayBuffer
  <2>2. Recorded(c, conn[c].at, b)
    BY <1>1, <2>1, CallsBackBecomes
  <2>3. image' \in [Conns -> SUBSET ImageRecord] /\ image'[c] = {next} /\ \A d \in Conns : d # c => image'[d] = image[d]
    BY <1>1, <1>5, <1>9
  <2>4. MapsType'
    BY <1>1, <2>2, <2>3 DEF MapsType, Recorded
  <2>5. OnlyAt(c)
    BY <2>2, <2>3 DEF OnlyAt, Recorded
  <2>6. SumsInv'
    <3>1. \A d \in Conns : image'[d] = None <=> image[d] = None
      BY <2>3 DEF None
    <3>2. \A d \in Conns : \A k \in ImageKinds :
             (\E j \in image'[d] : j.kind = k) <=> (\E j \in image[d] : j.kind = k)
      BY <1>3, <1>5, <2>3
    <3> QED
      BY <1>1, <1>9, <3>1, <3>2, SameKinds
  <2>7. PlaceOf(c)'
    BY <1>1, <1>4, <2>2, <2>3 DEF PlaceOf, Recorded, None
  <2>8. KeysOf(c)'
    BY <1>1 DEF KeysOf
  <2> QED
    BY <2>4, <2>5, <2>6, <2>7, <2>8, ChangeKeepsApi
<1> QED
  <2>1. \/ Abort(c)
        \/ /\ Drained(c) /\ Released(c)
           /\ conn' \in {CallsBack(c, FALSE, conn[c].buffered), Closing(c)}
        \/ conn' = Asks(c) /\ UNCHANGED <<image, reserved>>
        \/ /\ image' = [image EXCEPT ![c] = {next}] /\ reserved' = reserved
           /\ conn' \in {CallsBack(c, TRUE, b) : b \in MayBuffer("image")}
    BY DEF WriteImage, next, i
  <2> QED
    BY <1>6, <1>7, <1>8, <1>9, <2>1

\* The keys that are last in w, of those up to k.
Recent(w, k) == Len(w) <= MaxNavigation /\ \A i \in 1..Len(w) : w[i] = k - (Len(w) - i)

LEMMA RecentKeys == ASSUME NEW c PROVE KeysOf(c) <=> \A w \in keys[c] : Recent(w, presented.key)
BY DEF KeysOf, Recent

\* What waits after a key was written.
LEMMA TailIsRecent ==
    ASSUME NEW w \in Seq(Nat), w # <<>>, NEW k \in Nat, Recent(w, k)
    PROVE  Tail(w) \in Seq(Nat) /\ Recent(Tail(w), k)
<1> DEFINE t == Tail(w)
<1>1. t \in Seq(Nat) /\ Len(t) = Len(w) - 1 /\ \A i \in 1..Len(t) : t[i] = w[i + 1]
  BY HeadTailProperties
<1>2. Len(w) \in Nat /\ Len(t) \in Nat
  BY <1>1, LenProperties
<1> HIDE DEF t
<1>3. \A i \in 1..Len(w) : w[i] = k - (Len(w) - i)
  BY DEF Recent
<1>4. \A i \in 1..Len(t) : t[i] = k - (Len(t) - i)
  <2> SUFFICES ASSUME NEW i \in 1..Len(t) PROVE t[i] = k - (Len(t) - i)
    OBVIOUS
  <2>1. i + 1 \in 1..Len(w) /\ t[i] = w[i + 1]
    BY <1>1, <1>2
  <2>2. w[i + 1] = k - (Len(w) - (i + 1))
    BY <1>3, <2>1
  <2> QED
    BY <1>1, <1>2, <2>1, <2>2
<1>5. Len(t) <= MaxNavigation
  BY <1>1, <1>2, ApiConstants DEF Recent
<1>6. t \in Seq(Nat) /\ Recent(t, k)
  BY <1>1, <1>4, <1>5 DEF Recent
<1> QED
  BY <1>6 DEF t

\* What waits after another key was published: the oldest goes when there is
\* no room.
LEMMA QueuedIsRecent ==
    ASSUME NEW w \in Seq(Nat), NEW k \in Nat, Recent(w, k)
    PROVE  Queued(w, k + 1) \in Seq(Nat) /\ Recent(Queued(w, k + 1), k + 1)
<1> DEFINE v == IF Len(w) = MaxNavigation THEN Tail(w) ELSE w
           q == Append(v, k + 1)
<1>1. Len(w) \in Nat /\ MaxNavigation \in Nat \ {0}
  BY LenProperties, ApiConstants
<1>2. v \in Seq(Nat) /\ Recent(v, k) /\ Len(v) < MaxNavigation
  <2>1. CASE Len(w) = MaxNavigation
    <3>1. w # <<>>
      BY <1>1, <2>1, EmptySeq
    <3>2. Tail(w) \in Seq(Nat) /\ Recent(Tail(w), k)
      BY <3>1, TailIsRecent
    <3>3. Len(Tail(w)) = Len(w) - 1
      BY <3>1, HeadTailProperties
    <3> QED
      BY <1>1, <2>1, <3>2, <3>3
  <2>2. CASE Len(w) # MaxNavigation
    <3>1. Len(w) <= MaxNavigation
      BY DEF Recent
    <3>2. Len(w) < MaxNavigation
      BY <1>1, <2>2, <3>1
    <3> QED
      BY <2>2, <3>2
  <2> QED
    BY <2>1, <2>2
<1> HIDE DEF v
<1>3. k + 1 \in Nat /\ Len(v) \in Nat
  BY <1>2, LenProperties
<1>4. q \in Seq(Nat)
  BY <1>2, <1>3, AppendProperties
<1>5. Len(q) = Len(v) + 1
  BY <1>2, <1>3, AppendProperties
<1>6. \A i \in 1..Len(v) : q[i] = v[i]
  BY <1>2, <1>3, AppendProperties
<1>7. q[Len(v) + 1] = k + 1
  BY <1>2, <1>3, AppendProperties
<1> HIDE DEF q
<1>8. \A i \in 1..Len(q) : q[i] = k + 1 - (Len(q) - i)
  <2> SUFFICES ASSUME NEW i \in 1..Len(q) PROVE q[i] = k + 1 - (Len(q) - i)
    OBVIOUS
  <2>1. CASE i = Len(v) + 1
    BY <1>3, <1>5, <1>7, <2>1
  <2>2. CASE i # Len(v) + 1
    <3>1. i \in 1..Len(v)
      BY <1>3, <1>5, <2>2
    <3>2. v[i] = k - (Len(v) - i)
      BY <1>2, <3>1 DEF Recent
    <3> QED
      BY <1>3, <1>5, <1>6, <3>1, <3>2
  <2> QED
    BY <2>1, <2>2
<1>9. Len(q) <= MaxNavigation
  BY <1>1, <1>2, <1>3, <1>5
<1>10. q \in Seq(Nat) /\ Recent(q, k + 1)
  BY <1>4, <1>8, <1>9 DEF Recent
<1> QED
  BY <1>10 DEF q, v, Queued

\* A chunk of diagnostics is written.
LEMMA WriteDiagnosticKeepsApi ==
    ASSUME ApiInv, NEW c \in Conns, conn[c].at = "http", reading[c] > 0, WriteDiagnostic(c),
           UNCHANGED <<image, reserved, posting, listener, keys, presented>>
    PROVE  ApiInv'
<1>1. MapsType /\ PlaceOf(c) /\ KeysOf(c) /\ SumsInv /\ conn \in [Conns -> ConnRecord]
      /\ reading \in [Conns -> Int]
  BY DEF ApiInv, MapsType
<1>2. reading' = [reading EXCEPT ![c] = @ - 1]
  BY DEF WriteDiagnostic
<1>3. PICK b \in {"nothing", "response"} : conn' = CallsBack(c, reading[c] > 1, b)
  BY DEF WriteDiagnostic, MayBuffer
<1>4. Recorded(c, "http", b)
  <2> DEFINE more == reading[c] > 1
  <2>1. more \in BOOLEAN /\ conn' = CallsBack(c, more, b)
    BY <1>3
  <2> HIDE DEF more
  <2> QED
    BY <1>1, <2>1, CallsBackBecomes
<1>5. MapsType'
  <2>1. reading' \in [Conns -> Int]
    BY <1>1, <1>2
  <2> QED
    BY <1>1, <1>4, <2>1 DEF MapsType, Recorded
<1>6. OnlyAt(c)
  BY <1>1, <1>2, <1>4 DEF OnlyAt, Recorded
<1>7. SumsInv'
  BY <1>1, SameKinds
<1>8. PlaceOf(c)'
  BY <1>1, <1>4 DEF PlaceOf, Recorded
<1>9. KeysOf(c)'
  BY <1>1 DEF KeysOf
<1> QED
  BY <1>5, <1>6, <1>7, <1>8, <1>9, ChangeKeepsApi

\* A connection that has nothing to write is called back.
LEMMA NothingToWriteKeepsApi ==
    ASSUME ApiInv, NEW c \in Conns, conn' = CallsBack(c, FALSE, conn[c].buffered),
           UNCHANGED <<image, reserved, reading, posting, listener, keys, presented>>
    PROVE  ApiInv'
<1>1. conn \in [Conns -> ConnRecord] /\ PlaceOf(c) /\ conn[c] \in ConnRecord
  BY DEF ApiInv, MapsType
<1>2. conn[c].buffered \in {"nothing", "response", "image"}
  BY <1>1 DEF ConnRecord
<1>3. Recorded(c, conn[c].at, conn[c].buffered)
  BY <1>1, <1>2, CallsBackBecomes
<1> QED
  BY <1>1, <1>3, RecordKeepsApi DEF PlaceOf

\* A listener gets the state.
LEMMA WriteStateKeepsApi ==
    ASSUME ApiInv, NEW c \in Conns, conn[c].at = "listening", conn[c].buffered = "nothing",
           listener[c] # None, WriteState(c),
           UNCHANGED <<image, reserved, reading, posting, keys, presented>>
    PROVE  ApiInv'
<1>1. MapsType /\ PlaceOf(c) /\ KeysOf(c) /\ SumsInv /\ conn \in [Conns -> ConnRecord]
      /\ listener \in [Conns -> SUBSET Nat] /\ presented \in PresentedRecord
  BY DEF ApiInv, MapsType
<1>2. PICK b \in {"nothing", "response"} : conn' = CallsBack(c, FALSE, b)
  BY DEF WriteState, MayBuffer
<1>3. Recorded(c, "listening", b)
  BY <1>1, <1>2, CallsBackBecomes
<1>4. presented.sent \in Nat
  BY <1>1 DEF PresentedRecord
<1>5. /\ listener' \in [Conns -> SUBSET Nat] /\ listener'[c] = {presented.sent}
      /\ \A d \in Conns : d # c => listener'[d] = listener[d]
  BY <1>1, <1>4 DEF WriteState
<1>6. MapsType'
  BY <1>1, <1>3, <1>5 DEF MapsType, Recorded
<1>7. OnlyAt(c)
  BY <1>3, <1>5 DEF OnlyAt, Recorded
<1>8. SumsInv'
  BY <1>1, SameKinds
<1>9. PlaceOf(c)'
  BY <1>1, <1>3, <1>5 DEF PlaceOf, Recorded, None
<1>10. KeysOf(c)'
  BY <1>1 DEF KeysOf
<1> QED
  BY <1>6, <1>7, <1>8, <1>9, <1>10, ChangeKeepsApi

\* A listener gets the key that waits longest.
LEMMA WriteKeyKeepsApi ==
    ASSUME ApiInv, NEW c \in Conns, conn[c].at = "listening", conn[c].buffered = "nothing",
           listener[c] = None, WriteKey(c),
           UNCHANGED <<image, reserved, reading, posting, listener, presented>>
    PROVE  ApiInv'
<1> DEFINE w == The(keys[c])
<1>1. MapsType /\ PlaceOf(c) /\ KeysOf(c) /\ SumsInv /\ conn \in [Conns -> ConnRecord]
      /\ keys \in [Conns -> SUBSET Seq(Nat)] /\ presented \in PresentedRecord
  BY DEF ApiInv, MapsType
<1>2. keys[c] # None
  BY <1>1 DEF PlaceOf
<1>3. w \in keys[c]
  BY <1>2 DEF The, None
<1>4. w \in Seq(Nat)
  BY <1>1, <1>3
<1>5. CASE w = <<>>
  BY <1>5, NothingToWriteKeepsApi DEF WriteKey
<1>6. CASE w # <<>>
  <2>1. keys' = [keys EXCEPT ![c] = {Tail(w)}]
    BY <1>6 DEF WriteKey
  <2>2. PICK b \in {"nothing", "response"} : conn' = CallsBack(c, Len(w) > 1, b)
    BY <1>6 DEF WriteKey, MayBuffer
  <2>3. Recorded(c, "listening", b)
    <3> DEFINE more == Len(w) > 1
    <3>1. more \in BOOLEAN /\ conn' = CallsBack(c, more, b)
      BY <2>2
    <3> HIDE DEF more
    <3> QED
      BY <1>1, <3>1, CallsBackBecomes
  <2> HIDE DEF w
  <2>4. presented.key \in Nat
    BY <1>1 DEF PresentedRecord
  <2>5. Recent(w, presented.key)
    BY <1>1, <1>3, RecentKeys
  <2>6. Tail(w) \in Seq(Nat) /\ Recent(Tail(w), presented.key)
    BY <1>4, <1>6, <2>4, <2>5, TailIsRecent
  <2>7. /\ keys' \in [Conns -> SUBSET Seq(Nat)] /\ keys'[c] = {Tail(w)}
        /\ \A d \in Conns : d # c => keys'[d] = keys[d]
    BY <1>1, <2>1, <2>6
  <2>8. MapsType'
    BY <1>1, <2>3, <2>7 DEF MapsType, Recorded
  <2>9. OnlyAt(c)
    BY <2>3, <2>7 DEF OnlyAt, Recorded
  <2>10. SumsInv'
    BY <1>1, SameKinds
  <2>11. PlaceOf(c)'
    BY <1>1, <1>2, <2>3, <2>7 DEF PlaceOf, Recorded, None
  <2>12. KeysOf(c)'
    BY <2>6, <2>7 DEF KeysOf, Recent
  <2> QED
    BY <2>8, <2>9, <2>10, <2>11, <2>12, ChangeKeepsApi
<1> QED
  BY <1>5, <1>6

\* A connection is called back to write.
LEMMA WritableKeepsApi == ASSUME ApiInv, NEW c \in Conns, Writable(c) PROVE ApiInv'
<1>1. CASE /\ image[c] # None /\ WriteImage(c)
           /\ UNCHANGED <<reading, listener, keys, posting, presented>>
  BY <1>1, WriteImageKeepsApi
<1>2. CASE /\ conn[c].at = "http" /\ reading[c] > 0 /\ WriteDiagnostic(c)
           /\ UNCHANGED <<image, reserved, listener, keys, posting, presented>>
  BY <1>2, WriteDiagnosticKeepsApi
<1>3. CASE /\ conn' = CallsBack(c, FALSE, conn[c].buffered)
           /\ UNCHANGED <<image, reserved, listener, keys, reading, posting, presented>>
  BY <1>3, NothingToWriteKeepsApi
<1>4. CASE /\ conn[c].at = "listening" /\ conn[c].buffered = "nothing" /\ listener[c] # None
           /\ WriteState(c) /\ UNCHANGED <<image, reserved, reading, keys, posting, presented>>
  BY <1>4, WriteStateKeepsApi
<1>5. CASE /\ conn[c].at = "listening" /\ conn[c].buffered = "nothing" /\ listener[c] = None
           /\ WriteKey(c) /\ UNCHANGED <<image, reserved, reading, listener, posting, presented>>
  BY <1>5, WriteKeyKeepsApi
<1> QED
  BY <1>1, <1>2, <1>3, <1>4, <1>5 DEF Writable

\* Nothing is left of a connection that was closed.
LEMMA ClosedKeepsApi == ASSUME ApiInv, NEW c \in Conns, Closed(c) PROVE ApiInv'
<1>1. MapsType /\ PlaceOf(c) /\ KeysOf(c) /\ SumsInv /\ conn \in [Conns -> ConnRecord]
      /\ image \in [Conns -> SUBSET ImageRecord] /\ reading \in [Conns -> Int]
      /\ listener \in [Conns -> SUBSET Nat] /\ keys \in [Conns -> SUBSET Seq(Nat)]
  BY DEF ApiInv, MapsType
<1>2. conn' = [conn EXCEPT ![c] = NoConn] /\ UNCHANGED presented
  BY DEF Closed
<1>3. NoConn \in ConnRecord /\ NoConn.at = "none" /\ NoConn.buffered = "nothing"
  BY DEF NoConn, ConnRecord
<1>4. Recorded(c, "none", "nothing")
  BY <1>1, <1>2, <1>3 DEF Recorded
<1>5. CASE /\ listener[c] = None /\ keys[c] = None /\ Released(c)
           /\ posting' = posting \ {c} /\ reading' = [reading EXCEPT ![c] = 0]
           /\ UNCHANGED <<listener, keys>>
  <2>1. /\ image' \in [Conns -> SUBSET ImageRecord] /\ image'[c] = None
        /\ \A d \in Conns : d # c => image'[d] = image[d]
    BY <1>1, <1>5 DEF Released, None
  <2>2. /\ reading' \in [Conns -> Int] /\ reading'[c] = 0
        /\ \A d \in Conns : d # c => reading'[d] = reading[d]
    BY <1>1, <1>5
  <2>3. MapsType'
    BY <1>1, <1>2, <1>4, <1>5, <2>1, <2>2 DEF MapsType, Recorded
  <2>4. OnlyAt(c)
    BY <1>4, <1>5, <2>1, <2>2 DEF OnlyAt, Recorded
  <2>5. SumsInv'
    BY <1>1, <1>5, ReleasedKeepsSums DEF PlaceOf
  <2>6. PlaceOf(c)'
    BY <1>1, <1>4, <1>5, <2>1, <2>2 DEF PlaceOf, Recorded, None
  <2>7. KeysOf(c)'
    BY <1>1, <1>2, <1>5 DEF KeysOf
  <2> QED
    BY <1>2, <2>3, <2>4, <2>5, <2>6, <2>7, ChangeKeepsApi
<1>6. CASE /\ listener[c] # None \/ keys[c] # None
           /\ listener' = [listener EXCEPT ![c] = None] /\ keys' = [keys EXCEPT ![c] = None]
           /\ UNCHANGED <<image, reserved, posting, reading>>
  <2>1. /\ listener' \in [Conns -> SUBSET Nat] /\ listener'[c] = None
        /\ \A d \in Conns : d # c => listener'[d] = listener[d]
    BY <1>1, <1>6 DEF None
  <2>2. /\ keys' \in [Conns -> SUBSET Seq(Nat)] /\ keys'[c] = None
        /\ \A d \in Conns : d # c => keys'[d] = keys[d]
    BY <1>1, <1>6 DEF None
  <2>3. MapsType'
    BY <1>1, <1>2, <1>4, <1>6, <2>1, <2>2 DEF MapsType, Recorded
  <2>4. OnlyAt(c)
    BY <1>4, <1>6, <2>1, <2>2 DEF OnlyAt, Recorded
  <2>5. SumsInv'
    BY <1>1, <1>6, SameKinds
  <2>6. PlaceOf(c)'
    BY <1>1, <1>4, <1>6, <2>1, <2>2 DEF PlaceOf, Recorded, None
  <2>7. KeysOf(c)'
    BY <2>2 DEF KeysOf, None
  <2> QED
    BY <1>2, <2>3, <2>4, <2>5, <2>6, <2>7, ChangeKeepsApi
<1> QED
  BY <1>5, <1>6 DEF Closed

-----------------------------------------------------------------------------
\* What there is to present changes.
LEMMA FactsChangeKeepsApi == ASSUME ApiInv, FactsChange PROVE ApiInv'
<1>1. MapsType /\ SumsInv /\ presented \in PresentedRecord /\ \A c \in Conns : PlaceOf(c) /\ KeysOf(c)
  BY DEF ApiInv, MapsType
<1>2. presented' = [presented EXCEPT !.facts = @ + 1]
      /\ UNCHANGED <<conn, image, reserved, reading, posting, listener, keys>>
  BY DEF FactsChange
<1>3. presented' \in PresentedRecord /\ presented'.key = presented.key
  BY <1>1, <1>2 DEF PresentedRecord
<1>4. MapsType'
  BY <1>1, <1>2, <1>3 DEF MapsType
<1>5. SumsInv'
  BY <1>1, <1>2, SameKinds
<1>6. \A c \in Conns : PlaceOf(c)' /\ KeysOf(c)'
  BY <1>1, <1>2, <1>3 DEF PlaceOf, KeysOf
<1> QED
  BY <1>4, <1>5, <1>6 DEF ApiInv

\* An image that is no longer published is revoked where it is under way: it
\* keeps its place and what it reserved.
LEMMA ImagesChangeKeepsApi == ASSUME ApiInv, NEW kind \in ImageKinds, ImagesChange(kind) PROVE ApiInv'
<1> DEFINE v == kind = "cover" /\ kind \in presented'.published
           Revoked(i) == [i EXCEPT !.valid = v]
           After(i) == IF i.kind # kind THEN i ELSE Revoked(i)
           published == IF kind \in presented.published THEN presented.published \ {kind}
                        ELSE presented.published \cup {kind}
<1>1. /\ MapsType /\ SumsInv /\ presented \in PresentedRecord /\ image \in [Conns -> SUBSET ImageRecord]
      /\ \A c \in Conns : PlaceOf(c) /\ KeysOf(c)
  BY DEF ApiInv, MapsType
<1>2. /\ presented' = [presented EXCEPT !.published = published]
      /\ image' = [c \in Conns |-> {After(i) : i \in image[c]}]
      /\ UNCHANGED <<conn, reserved, reading, posting, listener, keys>>
  BY DEF ImagesChange
<1>3. published \in SUBSET ImageKinds
  BY <1>1 DEF PresentedRecord
<1>4. presented' \in PresentedRecord /\ presented'.key = presented.key
  <2> HIDE DEF published
  <2> QED
    BY <1>1, <1>2, <1>3 DEF PresentedRecord
<1>5. v \in BOOLEAN
  OBVIOUS
<1> HIDE DEF v
<1>6. ASSUME NEW i \in ImageRecord PROVE After(i) \in ImageRecord /\ After(i).kind = i.kind
  <2>1. Revoked(i) \in ImageRecord /\ Revoked(i).kind = i.kind
    BY <1>5 DEF ImageRecord
  <2> QED
    BY <2>1
<1> HIDE DEF After
<1>7. \A c \in Conns : image[c] \subseteq ImageRecord /\ image'[c] = {After(i) : i \in image[c]}
  BY <1>1, <1>2
<1>8. image' \in [Conns -> SUBSET ImageRecord]
  <2>1. \A c \in Conns : {After(i) : i \in image[c]} \in SUBSET ImageRecord
    BY <1>6, <1>7
  <2> QED
    BY <1>2, <2>1
<1>9. \A c \in Conns : image'[c] = None <=> image[c] = None
  BY <1>7 DEF None
<1>10. MapsType'
  BY <1>1, <1>2, <1>4, <1>8 DEF MapsType
<1>11. SumsInv'
  <2>1. \A c \in Conns : \A k \in ImageKinds :
           (\E i \in image'[c] : i.kind = k) <=> (\E i \in image[c] : i.kind = k)
    <3> SUFFICES ASSUME NEW c \in Conns, NEW k \in ImageKinds
                 PROVE  (\E i \in image'[c] : i.kind = k) <=> (\E i \in image[c] : i.kind = k)
      OBVIOUS
    <3> QED
      BY <1>6, <1>7
  <2> QED
    BY <1>1, <1>2, <1>9, <2>1, SameKinds
<1>12. ASSUME NEW c \in Conns PROVE PlaceOf(c)' /\ KeysOf(c)'
  <2>1. \A i, j \in image'[c] : i = j
    BY <1>1, <1>7 DEF PlaceOf
  <2>2. PlaceOf(c)'
    BY <1>1, <1>2, <1>9, <2>1 DEF PlaceOf
  <2>3. KeysOf(c)'
    BY <1>1, <1>2, <1>4 DEF KeysOf
  <2> QED
    BY <2>2, <2>3
<1> QED
  BY <1>10, <1>11, <1>12 DEF ApiInv

\* Whom the session asks to be called back does not move.
LEMMA AskedKeepPlaces ==
    ASSUME conn \in [Conns -> ConnRecord], NEW asked \in [Conns -> BOOLEAN],
           conn' = [c \in Conns |-> [conn[c] EXCEPT !.wants = asked[c]]]
    PROVE  /\ conn' \in [Conns -> ConnRecord]
           /\ \A c \in Conns : conn'[c].at = conn[c].at /\ conn'[c].buffered = conn[c].buffered
<1>1. ASSUME NEW c \in Conns
      PROVE  /\ [conn[c] EXCEPT !.wants = asked[c]] \in ConnRecord
             /\ [conn[c] EXCEPT !.wants = asked[c]].at = conn[c].at
             /\ [conn[c] EXCEPT !.wants = asked[c]].buffered = conn[c].buffered
  <2>1. conn[c] \in ConnRecord
    OBVIOUS
  <2> QED
    BY <2>1 DEF ConnRecord
<1> QED
  BY <1>1

\* A snapshot is published to all connections.
LEMMA PublishSnapshotKeepsApi == ASSUME ApiInv, PublishSnapshot PROVE ApiInv'
<1>1. /\ MapsType /\ SumsInv /\ presented \in PresentedRecord /\ conn \in [Conns -> ConnRecord]
      /\ \A c \in Conns : PlaceOf(c) /\ KeysOf(c)
  BY DEF ApiInv, MapsType
<1>2. /\ presented' = [presented EXCEPT !.state = presented.facts, !.sent = presented.facts]
      /\ UNCHANGED <<image, reserved, reading, posting, listener, keys>>
  BY DEF PublishSnapshot
<1>3. presented' \in PresentedRecord /\ presented'.key = presented.key
  <2> DEFINE f == presented.facts
             r == [presented EXCEPT !.state = f]
  <2>1. f \in Nat /\ r \in PresentedRecord /\ r.key = presented.key
    BY <1>1 DEF PresentedRecord
  <2>2. presented' = [r EXCEPT !.sent = f]
    BY <1>1, <1>2 DEF PresentedRecord
  <2> HIDE DEF r, f
  <2> QED
    BY <2>1, <2>2 DEF PresentedRecord
<1>4. /\ conn' \in [Conns -> ConnRecord]
      /\ \A c \in Conns : conn'[c].at = conn[c].at /\ conn'[c].buffered = conn[c].buffered
  <2> DEFINE asked == [c \in Conns |-> conn[c].at \in {"http", "listening"}]
  <2>1. conn' = [c \in Conns |-> [conn[c] EXCEPT !.wants = asked[c]]]
    BY DEF PublishSnapshot
  <2>2. asked \in [Conns -> BOOLEAN]
    OBVIOUS
  <2> HIDE DEF asked
  <2> QED
    BY <1>1, <2>1, <2>2, AskedKeepPlaces
<1>5. MapsType'
  BY <1>1, <1>2, <1>3, <1>4 DEF MapsType
<1>6. SumsInv'
  BY <1>1, <1>2, SameKinds
<1>7. \A c \in Conns : PlaceOf(c)' /\ KeysOf(c)'
  BY <1>1, <1>2, <1>3, <1>4 DEF PlaceOf, KeysOf
<1> QED
  BY <1>5, <1>6, <1>7 DEF ApiInv

\* A key is published to all listeners that wait for keys.
LEMMA PublishNavigationKeepsApi == ASSUME ApiInv, PublishNavigation PROVE ApiInv'
<1> DEFINE k == presented.key
<1>1. /\ MapsType /\ SumsInv /\ presented \in PresentedRecord /\ conn \in [Conns -> ConnRecord]
      /\ keys \in [Conns -> SUBSET Seq(Nat)] /\ \A c \in Conns : PlaceOf(c) /\ KeysOf(c)
  BY DEF ApiInv, MapsType
<1>2. k \in Nat
  BY <1>1 DEF PresentedRecord
<1>3. presented' \in PresentedRecord /\ presented'.key = k + 1
  <2>1. presented' = [presented EXCEPT !.key = k + 1]
    BY DEF PublishNavigation
  <2> HIDE DEF k
  <2> QED
    BY <1>1, <1>2, <2>1 DEF PresentedRecord
<1>4. UNCHANGED <<image, reserved, reading, posting, listener>>
  BY DEF PublishNavigation
<1>5. keys' = [c \in Conns |-> {Queued(w, k + 1) : w \in keys[c]}]
  BY <1>3 DEF PublishNavigation
<1>6. /\ conn' \in [Conns -> ConnRecord]
      /\ \A c \in Conns : conn'[c].at = conn[c].at /\ conn'[c].buffered = conn[c].buffered
  <2> DEFINE asked == [c \in Conns |-> conn[c].wants \/ (keys[c] # None /\ conn[c].at = "listening")]
  <2>1. conn' = [c \in Conns |-> [conn[c] EXCEPT !.wants = asked[c]]]
    BY DEF PublishNavigation
  <2>2. asked \in [Conns -> BOOLEAN]
    OBVIOUS
  <2> HIDE DEF asked
  <2> QED
    BY <1>1, <2>1, <2>2, AskedKeepPlaces
<1>7. ASSUME NEW c \in Conns, NEW w \in keys[c]
      PROVE  Queued(w, k + 1) \in Seq(Nat) /\ Recent(Queued(w, k + 1), k + 1)
  <2>1. w \in Seq(Nat) /\ Recent(w, k)
    BY <1>1, RecentKeys
  <2> HIDE DEF k
  <2> QED
    BY <1>2, <2>1, QueuedIsRecent
<1> HIDE DEF k
<1>8. \A c \in Conns : {Queued(w, k + 1) : w \in keys[c]} \in SUBSET Seq(Nat)
  BY <1>7
<1>9. keys' \in [Conns -> SUBSET Seq(Nat)]
  BY <1>5, <1>8
<1>10. MapsType'
  BY <1>1, <1>3, <1>4, <1>6, <1>9 DEF MapsType
<1>11. SumsInv'
  BY <1>1, <1>4, SameKinds
<1>12. ASSUME NEW c \in Conns PROVE PlaceOf(c)' /\ KeysOf(c)'
  <2>1. keys'[c] = {Queued(w, k + 1) : w \in keys[c]}
    BY <1>5
  <2>2. keys'[c] = None <=> keys[c] = None
    BY <2>1 DEF None
  <2>3. PlaceOf(c)'
    BY <1>1, <1>4, <1>6, <2>2 DEF PlaceOf
  <2>4. \A w \in keys'[c] : Recent(w, k + 1)
    BY <1>7, <2>1
  <2>5. KeysOf(c)'
    BY <1>3, <2>4 DEF KeysOf, Recent
  <2> QED
    BY <2>3, <2>5
<1> QED
  BY <1>10, <1>11, <1>12 DEF ApiInv

-----------------------------------------------------------------------------
LEMMA InitIsBounded == ApiInit => ApiInv
<1> SUFFICES ASSUME ApiInit PROVE ApiInv
  OBVIOUS
<1>1. MapsType
  <2>1. conn = [c \in Conns |-> NoConn] /\ NoConn \in ConnRecord
    BY DEF ApiInit, NoConn, ConnRecord
  <2>2. conn \in [Conns -> ConnRecord]
    BY <2>1
  <2>3. presented \in PresentedRecord
    BY DEF ApiInit, PresentedRecord
  <2> QED
    BY <2>2, <2>3 DEF ApiInit, MapsType, None
<1>2. \A c \in Conns : PlaceOf(c) /\ KeysOf(c)
  BY DEF ApiInit, NoConn, None, PlaceOf, KeysOf
<1>3. SumsInv
  <2>1. Images = {} /\ ImagesOf("background") = {} /\ ImagesOf("cover") = {}
    BY DEF ApiInit, None, Images, ImagesOf
  <2>2. Cardinality({}) = 0
    BY FS_EmptySet
  <2> QED
    <3>1. 0 = 2 * 0 + 1 * 0 /\ 0 \in 0..MaxReserved /\ 0 <= MaxImages
      BY ApiConstants
    <3> QED
      BY <2>1, <2>2, <3>1, Reservations DEF ApiInit, SumsInv
<1> QED
  BY <1>1, <1>2, <1>3 DEF ApiInv

LEMMA StutterKeepsApi == ASSUME ApiInv, UNCHANGED apiVars PROVE ApiInv'
BY DEF ApiInv, apiVars, MapsType, PlaceOf, KeysOf, SumsInv, Images, ImagesOf

LEMMA NextKeepsApi == ASSUME ApiInv, [ApiNext]_apiVars PROVE ApiInv'
<1>1. CASE FactsChange
  BY <1>1, FactsChangeKeepsApi
<1>2. CASE PublishSnapshot
  BY <1>2, PublishSnapshotKeepsApi
<1>3. CASE PublishNavigation
  BY <1>3, PublishNavigationKeepsApi
<1>4. ASSUME NEW kind \in ImageKinds, ImagesChange(kind) PROVE ApiInv'
  BY <1>4, ImagesChangeKeepsApi
<1>5. ASSUME NEW c \in Conns, ApiRequest(c) PROVE ApiInv'
  BY <1>5, ConnectKeepsApi, RespondKeepsApi, GetDiagnosticsKeepsApi, PostCommandKeepsApi,
     UpgradeKeepsApi, GetImageKeepsApi DEF ApiRequest
<1>6. ASSUME NEW c \in Conns,
             Writable(c) \/ Timer(c) \/ CompleteBody(c) \/ Drain(c) \/ Hangup(c) \/ Closed(c)
      PROVE  ApiInv'
  BY <1>6, WritableKeepsApi, TimerKeepsApi, CompleteBodyKeepsApi, DrainKeepsApi, HangupKeepsApi,
     ClosedKeepsApi
<1>7. CASE UNCHANGED apiVars
  BY <1>7, StutterKeepsApi
<1> QED
  BY <1>1, <1>2, <1>3, <1>4, <1>5, <1>6, <1>7 DEF ApiNext

(***************************************************************************)
(* Whatever number of connections there are, and however each ends, what   *)
(* the images reserve is what those under way reserve, within its bound;   *)
(* no response and no key is left of a connection that was closed; and     *)
(* what waits for a listener are the last keys, in their order.            *)
(***************************************************************************)
THEOREM ResponsesAreBoundedAlways == ApiSpec => []ResponsesAreBounded
<1>1. ApiInit => ApiInv
  BY InitIsBounded
<1>2. ApiInv /\ [ApiNext]_apiVars => ApiInv'
  BY NextKeepsApi
<1>3. ApiInv => ResponsesAreBounded
  BY ApiInvIsBounded
<1> QED
  BY <1>1, <1>2, <1>3, PTL DEF ApiSpec
=============================================================================
