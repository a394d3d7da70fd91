------------------------------- MODULE Settings -------------------------------
(***************************************************************************)
(* The user's settings: the read policy and whether photographs of the     *)
(* artist are wanted.  They are kept as one pair in a file that replaces   *)
(* the one before by a rename, and the session may be killed, or the power *)
(* may fail, at any of the steps of a save.  A read policy becomes         *)
(* effective when playback stops.  A session started without --settings-   *)
(* file neither loads nor saves: its settings last as long as it does.     *)
(***************************************************************************)
EXTENDS Naturals

CONSTANTS
    Policies,     \* read policies that validate_read_policy accepts
    StartupPolicy \* the policy of the command line

ASSUME SettingsConstants == StartupPolicy \in Policies

VARIABLES
    disk,     \* the settings file: what is there, and what a power loss may leave
    save,     \* save_settings() under way: its step, its pair, its file
    session,  \* the session's settings; up: whether it runs
    promised  \* history: what the replies so far let the user find at a restart

settingsVars == <<disk, save, session, promised>>

Missing == [is |-> "missing"]
Broken == [is |-> "broken"]
Pair(policy, background) == [is |-> "pair", policy |-> policy, background |-> background]
Pairs == {Pair(p, b) : p \in Policies, b \in BOOLEAN}
Contents == Pairs \cup {Missing, Broken}

NoSave == [at |-> "none"]
Settled == save = NoSave /\ session.up

Down == [up |-> FALSE, configured |-> FALSE, requested |-> StartupPolicy, effective |-> StartupPolicy,
         pending |-> FALSE, playing |-> FALSE, background |-> FALSE,
         available |-> FALSE, saved |-> FALSE]

SettingsInit ==
    /\ \E c \in Contents : /\ disk = [found |-> c, left |-> {c}]
                           /\ promised = {c}
    /\ save = NoSave
    /\ session = Down

-----------------------------------------------------------------------------
(* load_settings() at the start: what is not a whole pair is left alone,   *)
(* and without a settings file nothing is loaded.                          *)

Loaded(configured) == configured /\ disk.found \in Pairs
Restored(configured) ==
    IF Loaded(configured) THEN disk.found ELSE Pair(StartupPolicy, FALSE)

StartSession ==
    /\ ~session.up
    /\ \E available, configured \in BOOLEAN :
         LET restored == Restored(configured)
         IN  session' = [Down EXCEPT !.up = TRUE, !.configured = configured,
                                     !.requested = restored.policy, !.effective = restored.policy,
                                     !.background = restored.background, !.available = available,
                                     !.saved = Loaded(configured)]
    /\ UNCHANGED <<disk, save, promised>>

\* The session is killed, or the power fails and the file is what had reached
\* the disk.  A temporary file that is left behind is never read.
Crash ==
    /\ session.up
    /\ session' = Down /\ save' = NoSave
    /\ \/ UNCHANGED disk
       \/ \E c \in disk.left : disk' = [found |-> c, left |-> {c}]
    /\ promised' = promised \cup IF save = NoSave THEN {} ELSE {save.pair}

-----------------------------------------------------------------------------
(* Playback and the policy in effect.                                      *)

\* apply_read_policy()
Applied(s) == [s EXCEPT !.effective = s.requested, !.pending = FALSE]

\* A policy that is accepted while a disc plays, or is paused, has to wait.
Accepted(s, policy) ==
    LET t == [s EXCEPT !.requested = policy]
    IN  IF s.playing THEN [t EXCEPT !.pending = TRUE] ELSE Applied(t)

Play == Settled /\ session' = [session EXCEPT !.playing = TRUE]
Stop == Settled /\ session' = [session EXCEPT !.playing = FALSE]

\* A pass of the loop that finds playback stopped; a device that changes
\* stops it first.
ApplyPending == Settled /\ session.pending /\ ~session.playing /\ session' = Applied(session)
DeviceStops == Settled /\ session' = Applied([session EXCEPT !.playing = FALSE])

-----------------------------------------------------------------------------
(* save_settings(), step by step; any step may fail.                       *)

BeginSave(command, pair) ==
    save' = [at |-> "write", command |-> command, pair |-> pair, synced |-> FALSE]

\* Mutant: a new policy is saved beside the photographs in effect.
PairWithEffective(policy) == Pair(policy, session.background /\ session.available)

\* Each setting is saved with the other as it is requested.
PairWithPolicy(policy) == Pair(policy, session.background)

SetReadPolicy(policy) ==
    /\ Settled
    /\ \/ /\ session.configured
          /\ BeginSave("policy", PairWithPolicy(policy)) /\ UNCHANGED session
       \/ /\ ~session.configured
          /\ session' = Accepted(session, policy) /\ UNCHANGED save

\* OFF takes effect before it is saved, ON after; without a settings file
\* each takes effect for this session.
SetBackground(on) ==
    /\ Settled /\ (on => session.available)
    /\ \/ /\ session.configured
          /\ session' = [session EXCEPT !.background = @ /\ on]
          /\ BeginSave("background", Pair(session.requested, on))
       \/ /\ ~session.configured
          /\ session' = [session EXCEPT !.background = on] /\ UNCHANGED save

Write ==
    /\ save.at = "write"
    /\ save' = [save EXCEPT !.at = "sync"]
    /\ UNCHANGED <<disk, session, promised>>

SyncFile ==
    /\ save.at = "sync"
    /\ save' = [save EXCEPT !.at = "rename", !.synced = TRUE]
    /\ UNCHANGED <<disk, session, promised>>

\* Until the directory is synced a power loss may leave either file, the new
\* one without its contents if they were not synced.
Rename ==
    /\ save.at = "rename"
    /\ disk' = [found |-> save.pair,
                left |-> disk.left \cup {IF save.synced THEN save.pair ELSE Broken}]
    /\ save' = [save EXCEPT !.at = "dirsync"]
    /\ UNCHANGED <<session, promised>>

-----------------------------------------------------------------------------
(* What the handlers do with the outcome.                                  *)

Saved(s) ==
    LET t == [s EXCEPT !.saved = TRUE]
    IN  IF save.command = "background" THEN [t EXCEPT !.background = save.pair.background]
        ELSE Accepted(t, save.pair.policy)

\* A policy or ON that could not be saved is refused; OFF stays, unsaved.
NotSaved(s) ==
    IF save.command = "background" /\ ~save.pair.background THEN [s EXCEPT !.saved = FALSE] ELSE s

SaveFails ==
    /\ save.at \in {"write", "sync", "rename"}
    /\ save' = NoSave
    /\ session' = NotSaved(session)
    /\ UNCHANGED <<disk, promised>>

\* Mutant: a directory that could not be synced fails the save.
RefuseUnsynced ==
    /\ save.at = "dirsync"
    /\ save' = NoSave
    /\ \/ /\ disk' = [disk EXCEPT !.left = {save.pair}] /\ promised' = {save.pair}
          /\ session' = Saved(session)
       \/ /\ UNCHANGED <<disk, promised>>
          /\ session' = NotSaved(session)

\* The directory is synced, or that fails: the save is accepted all the same,
\* with a warning that it may not outlast a power loss.
SyncDirectory ==
    /\ save.at = "dirsync"
    /\ save' = NoSave
    /\ session' = Saved(session)
    /\ \/ disk' = [disk EXCEPT !.left = {save.pair}] /\ promised' = {save.pair}
       \/ UNCHANGED disk /\ promised' = promised \cup {save.pair}

Commands ==
    /\ \/ \E p \in Policies : SetReadPolicy(p)
       \/ \E on \in BOOLEAN : SetBackground(on)
    /\ UNCHANGED <<disk, promised>>

Playback == (Play \/ Stop \/ ApplyPending \/ DeviceStops) /\ UNCHANGED <<disk, save, promised>>

SettingsNext ==
    \/ StartSession \/ Crash \/ Playback \/ Commands
    \/ Write \/ SyncFile \/ Rename \/ SyncDirectory \/ SaveFails

SettingsSpec == SettingsInit /\ [][SettingsNext]_settingsVars

-----------------------------------------------------------------------------
\* Every variable holds a value of its type.
SettingsType ==
    /\ disk.found \in Contents /\ disk.left \subseteq Contents /\ promised \subseteq Contents
    /\ session.requested \in Policies /\ session.effective \in Policies
    /\ save # NoSave => save.pair \in Pairs /\ session.up
                        /\ save.synced = (save.at \in {"rename", "dirsync"})

\* A restart, after a crash or a power loss at whatever step, finds a pair the
\* user was promised: the last one accepted, the one under way, or, when the
\* directory could not be synced, one of those before it.  Never a part of a
\* file, and never a pair that was refused.
RestartFindsAPromise ==
    LET pending == IF save = NoSave THEN {} ELSE {save.pair}
    IN  {disk.found} \cup disk.left \subseteq promised \cup pending

\* Settings reported as saved are what a restart finds, both of them: neither
\* setting's save drops the other, also while a policy waits for playback to
\* stop and while photographs are requested but not available.  A session
\* without a settings file never reports them as saved, and saves nothing.
SavedIsHonest ==
    /\ Settled /\ session.saved => disk.found = Pair(session.requested, session.background)
    /\ ~session.configured => ~session.saved /\ save = NoSave

\* Where there is a settings file, photographs are fetched only with a consent
\* that is stored.  Without one the consent is of this session only.
ConsentIsStored ==
    session.configured /\ session.background => disk.found \in Pairs /\ disk.found.background

\* The policy in effect is the one requested, unless it is reported as pending;
\* with a settings file or without.
PendingIsHonest == Settled /\ ~session.pending => session.effective = session.requested

\* What the settings page shows is so: what is saved, what is in effect and
\* what the user consented to; and a restart finds what it showed, also when
\* sessions without a settings file ran in between.
SettingsAreHonest ==
    /\ SettingsType /\ SavedIsHonest /\ ConsentIsStored /\ PendingIsHonest
    /\ RestartFindsAPromise
=============================================================================
