--------------------------- MODULE DeviceObserver ---------------------------
(***************************************************************************)
(* DeviceLifecycleObserver: a thread probes the device node over and over  *)
(* and numbers what it sees with an observation generation; the session    *)
(* thread reads the snapshot, asks whether a generation is still permitted *)
(* and reports that a reader failed.  A probe runs without the lock, so    *)
(* the node and the tracker may change while it is under way.              *)
(***************************************************************************)
EXTENDS Naturals

CONSTANTS
    Signatures,     \* what identifies a device node: numbers, inode, USB path
    MaxObservations \* bound: generations a behaviour may reach

ASSUME ObserverConstants ==
    /\ Signatures # {} /\ MaxObservations \in Nat \ {0}
    /\ {"absent", "unknown"} \cap Signatures = {}

VARIABLES
    node,       \* the device node itself
    snapshot,   \* the tracker: sampled, generation, and what it saw last
    mutation,   \* mutation_: reader failures reported so far
    probe,      \* the probe under way: the mutation it began at, what it saw
    crossed     \* history: a reader was reported failed since it began

observerVars == <<node, snapshot, mutation, probe, crossed>>

\* A device is absent, present under a signature, or cannot be told.
Sightings == {"absent", "unknown"} \cup Signatures

NoProbe == [at |-> "none"]
Probes == [at : {"none"}]
          \cup [at : {"begun"}, mutation : Nat]
          \cup [at : {"seen"}, mutation : Nat, saw : Sightings]

ObserverInit ==
    /\ node \in Sightings \ {"unknown"}
    /\ snapshot = [sampled |-> FALSE, generation |-> 0, saw |-> "unknown"]
    /\ mutation = 0
    /\ probe = NoProbe /\ crossed = FALSE

Generation == snapshot.generation

\* permits(generation)
Permits(g) == g = Generation /\ snapshot.saw # "absent"

-----------------------------------------------------------------------------
(* The node: plugged, unplugged, enumerated anew; the metadata beside it   *)
(* may be unreadable for a while.                                          *)

NodeChanges ==
    /\ node' \in Sightings \ {node}
    /\ UNCHANGED <<snapshot, mutation, probe, crossed>>

(* The observer thread.                                                    *)

BeginProbe ==
    /\ probe = NoProbe
    /\ probe' = [at |-> "begun", mutation |-> mutation] /\ crossed' = FALSE
    /\ UNCHANGED <<node, snapshot, mutation>>

\* The probe reads the node; reading it may fail.
ReadNode ==
    /\ probe.at = "begun"
    /\ \E saw \in {node, "unknown"} :
         probe' = [at |-> "seen", mutation |-> probe.mutation, saw |-> saw]
    /\ UNCHANGED <<node, snapshot, mutation, crossed>>

\* Mutant: a device that comes back under another signature keeps its number.
TellsPresenceOnly(saw) ==
    \/ ~ snapshot.sampled
    \/ (saw \in Signatures) # (snapshot.saw \in Signatures)
    \/ (saw = "absent") # (snapshot.saw = "absent")

\* Does what a probe saw call for a new generation?  A change of presence
\* does, and a change of signature while the device is there.
Tells(saw) == ~ snapshot.sampled \/ saw # snapshot.saw

Track(saw) ==
    /\ Tells(saw) => Generation < MaxObservations
    /\ snapshot' = [sampled |-> TRUE, saw |-> saw,
                    generation |-> IF Tells(saw) THEN Generation + 1 ELSE Generation]

\* Mutant: a probe's result is applied whenever it comes.
AnyProbeStands == TRUE

\* A probe that began before a reader failed is not applied.
ProbeStands == probe.mutation = mutation

EndProbe ==
    /\ probe.at = "seen"
    /\ IF ProbeStands THEN Track(probe.saw) ELSE UNCHANGED snapshot
    /\ probe' = NoProbe
    /\ UNCHANGED <<node, mutation, crossed>>

(* The session thread.                                                     *)

\* reader_failed(): whatever is there has to be validated again.
NoteReaderFailure ==
    /\ Generation < MaxObservations
    /\ mutation' = mutation + 1
    /\ snapshot' = [snapshot EXCEPT !.generation = @ + 1]
    /\ crossed' = TRUE
    /\ UNCHANGED <<node, probe>>

ObserverThread == BeginProbe \/ ReadNode \/ EndProbe
ObserverNext == NodeChanges \/ ObserverThread \/ NoteReaderFailure

ObserverSpec == ObserverInit /\ [][ObserverNext]_observerVars

-----------------------------------------------------------------------------
\* Every variable holds a value of its type.
ObserverType ==
    /\ node \in Sightings
    /\ snapshot \in [sampled : BOOLEAN, generation : 0..MaxObservations, saw : Sightings]
    /\ mutation \in 0..MaxObservations
    /\ probe \in Probes /\ crossed \in BOOLEAN

\* A generation names one device: as long as the number stays the same, the
\* node the tracker last saw has not been seen to change.  MediaWorker, the
\* epoch readers and the session compare the number alone.
GenerationNamesDevice ==
    [][snapshot'.generation = Generation => snapshot'.saw = snapshot.saw]_observerVars

\* The generation that a failed reader starts asks for the device to be looked
\* at anew: a look from before the failure, which may have seen the device that
\* has just gone, is not taken for an answer.  It neither changes what the
\* tracker last saw nor starts a further generation.
OldLooksAreDropped ==
    [][crossed /\ probe.at = "seen" /\ probe' = NoProbe => UNCHANGED snapshot]_observerVars

Epochs == INSTANCE DeviceEpochs WITH
    generation <- Generation, permitted <- Permits(Generation)

\* The observer implements the epochs that its users rely on: no probe, no
\* failed reader and no unreadable node changes a permission but by starting
\* a new generation.  So a permission that is lost is never regained: the
\* epoch reader and the media worker, which ask before and after a drive
\* operation, may take two positive answers to mean that it held throughout.
ImplementsEpochs == Epochs!EpochSpec

\* What a user may conclude from a generation that it remembers and finds
\* permitted: it is on the same device, and never was not permitted, and what
\* was seen of it since a reader failed was looked for after that.
EpochsAreKept == GenerationNamesDevice /\ ImplementsEpochs /\ OldLooksAreDropped
=============================================================================
