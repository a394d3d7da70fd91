------------------------- MODULE PlayerSessionProofs -------------------------
(***************************************************************************)
(* Proofs about PlayerSession: for every number of device generations and  *)
(* changes of disc, the drive has one user at a time, the session waits    *)
(* for nothing that does not come, and it starts to play by itself only    *)
(* for a disc that went into a drive found empty.                          *)
(*                                                                         *)
(* SessionInv is the inductive invariant.  The properties speak of what    *)
(* may not meet at the drive; a proof needs what keeps them apart: that    *)
(* there is at most one request between the session and the media worker   *)
(* and back (OneRequest), that a request the session waits for is that one *)
(* and was made for the device of now (RequestInv), and that from the      *)
(* moment an eject is asked for until it is over nothing can start to play *)
(* or to capture, either because the media are ejecting or, once the       *)
(* device is another, because it is being retired (AloneInv).              *)
(***************************************************************************)
EXTENDS PlayerSession, SequenceTheorems, TLAPS

PcmStates == [driven : BOOLEAN, active : BOOLEAN, done : BOOLEAN, error : BOOLEAN, own : BOOLEAN,
              discard : BOOLEAN, open : BOOLEAN, call : {"none", "close", "fail", "wait", "held"},
              gen : 0..MaxObservations, quiet : BOOLEAN]

Places == {"observe", "gate", "request", "results", "handle", "tick", "serve", "poll", "input", "ended"}

PlaceTypes ==
    /\ at \in Places
    /\ capture \in {"idle", "busy", "releasing"}
    /\ drive \in {"free", "pcm", "media", "capture"} /\ tray \in Trays

EpochTypes ==
    /\ generation \in 0..MaxObservations /\ device \in 0..generation /\ observed = device
    /\ permitted \in BOOLEAN

FlagTypes ==
    /\ contextReady \in BOOLEAN /\ retiring \in BOOLEAN /\ mayAccess \in BOOLEAN
    /\ observedEmpty \in BOOLEAN /\ loaded \in BOOLEAN /\ needsRefresh \in BOOLEAN
    /\ tocPending \in BOOLEAN /\ ejectPending \in BOOLEAN /\ ejectInflight \in BOOLEAN
    /\ probeAttempted \in BOOLEAN /\ probeFinished \in BOOLEAN
    /\ media \in MediaStates

PlayTypes == playback \in {"no_disc", "stopped", "playing", "paused"} /\ pcm \in PcmStates

AllOutcomes ==
    {"ok", "error", "unknown", "no_disc", "not_ready", "audio_disc", "unsupported_disc", "toc"}
Results == [work : PlainWorks, job : {0}, gen : 0..MaxObservations, outcome : AllOutcomes, spoilt : BOOLEAN]
Requests == [work : PlainWorks, job : {0}]
Tasks == [work : PlainWorks, job : {0}, gen : 0..MaxObservations]

\* What the media worker holds, and for which device it was asked for.
WorkerTypes ==
    /\ pending \in Requests \cup {M!Nothing}
    /\ stage \in {"idle", "check", "wait", "admit", "operate", "judge", "finish"}
    /\ stage # "idle" => task \in Tasks
    /\ stage = "idle" => task = M!NoTask
    /\ task.gen \in 0..device
    /\ executed \in BOOLEAN /\ outcome \in AllOutcomes /\ spoilt \in BOOLEAN /\ closing = FALSE
    /\ results \in Seq(Results) /\ popped \in Seq(Results)
    /\ results # <<>> => Len(results) = 1 /\ results[1].gen = device
    /\ popped # <<>> => Len(popped) = 1 /\ popped[1].gen = device

\* A request is pending, worked on, a result that waits, or a result in hand,
\* which a daemon that ended there leaves unanswered.
OneRequest ==
    /\ pending # M!Nothing => stage = "idle" /\ results = <<>>
    /\ stage # "idle" => results = <<>>
    /\ popped # <<>> => at \in {"handle", "ended"} /\ pending = M!Nothing /\ stage = "idle" /\ results = <<>>

\* What the gate decided holds until a request is made; a result in hand
\* means that no capture is under way.
GateInv ==
    /\ at = "request" /\ mayAccess => capture = "idle" /\ ~retiring
    /\ popped # <<>> => capture = "idle"

\* An operation for the device of now was executed.
Delivered ==
    stage \in {"operate", "judge", "finish"} /\ task.gen = device /\ DeviceCurrent => executed

\* A request for the device of now.
Coming(work) ==
    \/ work = pending.work
    \/ work = task.work /\ task.gen = device
    \/ results # <<>> /\ results[1].work = work
    \/ popped # <<>> /\ popped[1].work = work

RequestInv ==
    /\ Delivered
    /\ DeviceCurrent /\ tocPending => Coming("read_toc")
    /\ DeviceCurrent /\ ejectInflight => Coming("eject")
    /\ DeviceCurrent /\ probeAttempted /\ ~probeFinished => Coming("probe_drive")
    /\ Coming("eject") => ejectInflight
    /\ ~(ejectPending /\ ejectInflight)
    /\ media = "ejecting" <=> (ejectPending \/ ejectInflight)

NoReader == ~pcm.active /\ ~pcm.open /\ pcm.call \in {"none", "close"}
Silent == playback \notin {"playing", "paused"}

AloneInv ==
    /\ pending.work = "eject" \/ task.work = "eject" => NoReader /\ Silent /\ capture = "idle"
    /\ capture # "idle" => NoReader /\ Silent /\ M!Idle
    /\ media = "ejecting" => Silent

DiscInv ==
    /\ DiscIsLoaded
    /\ media = "loading" => needsRefresh
    /\ observedEmpty => emptyIn = device

TypeInv == PlaceTypes /\ EpochTypes /\ FlagTypes /\ PlayTypes /\ WorkerTypes

SessionInv ==
    /\ TypeInv /\ OneRequest /\ GateInv /\ RequestInv /\ AloneInv
    /\ StreamFollowsIntent /\ OldDeviceIsGone /\ DiscInv

-----------------------------------------------------------------------------
(* Definitions of the media worker, as the session sees them.              *)

\* What it means that the worker is idle, or works for another device.
LEMMA WorkerIdle ==
    ASSUME WorkerTypes
    PROVE  /\ M!Idle <=> stage = "idle" /\ pending = M!Nothing /\ results = <<>>
           /\ M!Retiring <=> stage # "idle" /\ task.gen # observed
BY DEF WorkerTypes, M!Idle, M!Retiring, M!Busy

\* A request has a work; nothing has none.
LEMMA WorksAreNone ==
    /\ M!Nothing.work = "none" /\ M!NoTask.work = "none" /\ M!NoTask.gen = 0
    /\ "none" \notin PlainWorks /\ "assess_c2" \notin PlainWorks
    /\ "eject" \in PlainWorks /\ "read_toc" \in PlainWorks /\ "probe_drive" \in PlainWorks
    /\ "observe" \in PlainWorks /\ "stop_drive" \in PlainWorks
BY DEF M!Nothing, M!NoTask, PlainWorks

\* The current_ callback accepts the task that is made for the device of now.
LEMMA AcceptedMeans ==
    ASSUME TypeInv
    PROVE  /\ Accepted = device <=> DeviceCurrent
           /\ M!Current(task.gen) <=> task.gen = device /\ DeviceCurrent
<1>1. device \in 0..MaxObservations /\ MaxObservations \in Nat /\ NoGeneration = MaxObservations + 1
      /\ observed = device /\ closing = FALSE
  BY EpochBound DEF TypeInv, EpochTypes, WorkerTypes, NoGeneration
<1>2. device # NoGeneration
  BY <1>1
<1>3. Accepted = IF permitted /\ device = generation THEN device ELSE NoGeneration
  BY DEF Accepted
<1> QED
  BY <1>1, <1>2, <1>3 DEF DeviceCurrent, M!Current

-----------------------------------------------------------------------------
(* Playback, as the session moves it.                                      *)

\* The session never touches the reader: only the reader's thread opens,
\* calls and closes it.
SameReader(p, q) == q.open = p.open /\ q.call = p.call /\ q.gen = p.gen

\* What cancel(), discard_reader() and a reset that threw leave: no stream.
LEMMA StreamGivenUp ==
    ASSUME NEW p \in PcmStates
    PROVE  /\ Halted(p) \in PcmStates /\ SameReader(p, Halted(p))
           /\ Halted(p).active = FALSE /\ Halted(p).driven = FALSE
           /\ Discarded(p) \in PcmStates /\ SameReader(p, Discarded(p)) /\ Discarded(p).active = FALSE
           /\ Discarded(p).driven = p.driven
<1> DEFINE c == Cancelled(p)
<1>1. c \in PcmStates /\ SameReader(p, c) /\ c.active = FALSE /\ c.driven = p.driven
  BY DEF Cancelled, PcmStates, SameReader
<1>2. Discarded(p) = [c EXCEPT !.discard = TRUE] /\ Halted(p) = [c EXCEPT !.driven = FALSE, !.quiet = FALSE]
  BY DEF Discarded, Halted
<1> HIDE DEF c
<1>3. [c EXCEPT !.discard = TRUE] \in PcmStates /\ SameReader(p, [c EXCEPT !.discard = TRUE])
      /\ [c EXCEPT !.discard = TRUE].active = FALSE /\ [c EXCEPT !.discard = TRUE].driven = p.driven
  BY <1>1 DEF PcmStates, SameReader
<1> DEFINE h == [c EXCEPT !.driven = FALSE, !.quiet = FALSE]
<1>4. h \in PcmStates /\ SameReader(p, h) /\ h.active = FALSE /\ h.driven = FALSE
  BY <1>1 DEF PcmStates, SameReader
<1> QED
  BY <1>2, <1>3, <1>4

\* synchronize() makes a stream for an intent to play, and for no other.
LEMMA StreamSynchronized ==
    ASSUME NEW p \in PcmStates, NEW intent
    PROVE  /\ Synchronized(p, intent) \in PcmStates /\ SameReader(p, Synchronized(p, intent))
           /\ Synchronized(p, intent).active = (intent = "playing")
           /\ Synchronized(p, intent).driven = (intent = "playing")
<1> DEFINE h == Halted(p)
<1>1. h \in PcmStates /\ SameReader(p, h) /\ h.active = FALSE /\ h.driven = FALSE
  BY StreamGivenUp
<1>2. Synchronized(p, intent) = CASE intent = "playing" -> [h EXCEPT !.active = TRUE, !.driven = TRUE]
                                  [] intent = "stopped" -> [h EXCEPT !.discard = TRUE, !.quiet = TRUE]
                                  [] OTHER -> h
  BY DEF Synchronized
<1> HIDE DEF h
<1>3. CASE intent = "playing"
  <2> DEFINE q == [h EXCEPT !.active = TRUE, !.driven = TRUE]
  <2>1. q \in PcmStates /\ SameReader(p, q) /\ q.active = TRUE /\ q.driven = TRUE
    BY <1>1 DEF PcmStates, SameReader
  <2> QED
    BY <1>2, <1>3, <2>1
<1>4. CASE intent = "stopped"
  <2> DEFINE q == [h EXCEPT !.discard = TRUE, !.quiet = TRUE]
  <2>1. q \in PcmStates /\ SameReader(p, q) /\ q.active = FALSE /\ q.driven = FALSE
    BY <1>1 DEF PcmStates, SameReader
  <2> QED
    BY <1>2, <1>4, <2>1
<1>5. CASE intent # "playing" /\ intent # "stopped"
  BY <1>1, <1>2, <1>5
<1> QED
  BY <1>3, <1>4, <1>5

-----------------------------------------------------------------------------
(* Parts of the invariant that a step leaves alone.                        *)

\* The eleven lemmas from here say on which variables each part depends.
LEMMA PlaceKept == PlaceTypes /\ UNCHANGED <<at, capture, drive, tray>> => PlaceTypes'
BY DEF PlaceTypes

\* The device's generations.
LEMMA EpochKept == EpochTypes /\ UNCHANGED <<generation, device, observed, permitted>> => EpochTypes'
BY DEF EpochTypes

\* The session's flags.
LEMMA FlagKept ==
    FlagTypes /\ UNCHANGED <<contextReady, retiring, mayAccess, observedEmpty, loaded, needsRefresh, tocPending,
                             ejectPending, ejectInflight, probeAttempted, probeFinished, media>> => FlagTypes'
BY DEF FlagTypes

\* The state of playback and of its reader.
LEMMA PlayKept == PlayTypes /\ UNCHANGED playVars => PlayTypes'
BY DEF PlayTypes, playVars

\* The media worker.
LEMMA WorkerKept ==
    WorkerTypes /\ UNCHANGED <<pending, stage, task, executed, outcome, spoilt, closing, results, popped, device>>
        => WorkerTypes'
BY DEF WorkerTypes

\* One request at a time.
LEMMA OneKept == OneRequest /\ UNCHANGED <<pending, stage, results, popped, at>> => OneRequest'
BY DEF OneRequest

\* The gate to the drive.
LEMMA GateKept == GateInv /\ UNCHANGED <<at, mayAccess, capture, retiring, popped>> => GateInv'
BY DEF GateInv

\* What was asked for is under way.
LEMMA RequestKept ==
    RequestInv /\ UNCHANGED <<pending, stage, task, executed, results, popped, device, generation, permitted,
                              tocPending, ejectPending, ejectInflight, probeAttempted, probeFinished, media>>
        => RequestInv'
BY DEF RequestInv, Delivered, Coming, DeviceCurrent

\* The requests the session waits for are still on their way.
LEMMA RequestFollows ==
    ASSUME RequestInv, Delivered',
           UNCHANGED <<tocPending, ejectPending, ejectInflight, probeAttempted, probeFinished, media>>,
           DeviceCurrent' => DeviceCurrent,
           DeviceCurrent /\ Coming("read_toc") => Coming("read_toc")',
           DeviceCurrent /\ Coming("eject") => Coming("eject")',
           DeviceCurrent /\ Coming("probe_drive") => Coming("probe_drive")',
           Coming("eject")' => Coming("eject")
    PROVE  RequestInv'
<1>1. UNCHANGED tocPending /\ UNCHANGED ejectPending /\ UNCHANGED ejectInflight /\ UNCHANGED probeAttempted
      /\ UNCHANGED probeFinished /\ UNCHANGED media
  OBVIOUS
<1>2. (DeviceCurrent /\ tocPending => Coming("read_toc"))'
  BY <1>1 DEF RequestInv
<1>3. (DeviceCurrent /\ ejectInflight => Coming("eject"))'
  BY <1>1 DEF RequestInv
<1>4. (DeviceCurrent /\ probeAttempted /\ ~probeFinished => Coming("probe_drive"))'
  BY <1>1 DEF RequestInv
<1>5. (Coming("eject") => ejectInflight)'
  BY <1>1 DEF RequestInv
<1>6. (~(ejectPending /\ ejectInflight))' /\ (media = "ejecting" <=> (ejectPending \/ ejectInflight))'
  BY <1>1 DEF RequestInv
<1> QED
  BY <1>2, <1>3, <1>4, <1>5, <1>6 DEF RequestInv

\* Who is alone with the drive.
LEMMA AloneKept ==
    AloneInv /\ UNCHANGED <<pending, stage, task, results, playVars, capture, media>> => AloneInv'
BY DEF AloneInv, NoReader, Silent, playVars, M!Idle, M!Busy

\* The stream that playback means.
LEMMA StreamKept == StreamFollowsIntent /\ UNCHANGED playVars => StreamFollowsIntent'
BY DEF StreamFollowsIntent, playVars

\* The device that has gone.
LEMMA OldKept ==
    OldDeviceIsGone /\ UNCHANGED <<retiring, pcm, device, stage, task, observed>> => OldDeviceIsGone'
BY DEF OldDeviceIsGone, M!Retiring, M!Busy

\* The disc.
LEMMA DiscKept ==
    DiscInv /\ (at = "ended" => at' = "ended") /\ UNCHANGED <<playback, loaded, needsRefresh, contextReady, media, observedEmpty, emptyIn, device>>
        => DiscInv'
BY DEF DiscInv, DiscIsLoaded

-----------------------------------------------------------------------------
(* The media worker's thread.                                              *)

\* Whatever the thread does, it leaves the session and the reader alone.
LEMMA MediaThreadFrame ==
    ASSUME SessionInv, MediaThread
    PROVE  /\ UNCHANGED <<at, capture, generation, device, observed, permitted, playVars, mayAccess, retiring, popped,
                          contextReady, observedEmpty, loaded, needsRefresh, tocPending, ejectPending,
                          ejectInflight, probeAttempted, probeFinished, media, emptyIn>>
           /\ closing = FALSE /\ closing' = FALSE
           /\ drive' \in {"free", "media", drive} /\ tray' \in {"empty", tray}
<1>1. closing = FALSE
  BY DEF SessionInv, TypeInv, WorkerTypes
<1>2. UNCHANGED <<otherFrame, epochVars>> /\ tray' \in {"empty", tray}
  BY DEF MediaThread, MediaCall
<1>3. UNCHANGED <<observed, closing>> /\ drive' \in {"free", "media", drive}
  <2>1. CASE MediaCall
    BY <2>1 DEF MediaCall, M!Operate, M!requestVars
  <2>2. CASE M!MediaStep
    BY <2>2, <1>1 DEF M!MediaStep, M!Take, M!Exit, M!CheckBeforeDrive, M!Acquire, M!AdmitOperation,
                      M!RefuseOperation, M!Judge, M!Finish, M!requestVars
  <2> QED
    BY <2>1, <2>2 DEF MediaThread
<1> QED
  BY <1>1, <1>2, <1>3 DEF otherFrame, sessionVars, contextVars, discVars, playVars, epochVars

\* The parts that the thread does not touch.
LEMMA MediaThreadRest ==
    ASSUME SessionInv, MediaThread
    PROVE  /\ PlaceTypes' /\ EpochTypes' /\ FlagTypes' /\ PlayTypes' /\ GateInv'
           /\ StreamFollowsIntent' /\ DiscInv'
<1>1. PlaceTypes'
  BY MediaThreadFrame DEF SessionInv, TypeInv, PlaceTypes, Trays
<1> QED
  BY <1>1, MediaThreadFrame, EpochKept, FlagKept, PlayKept, GateKept, StreamKept, DiscKept
     DEF SessionInv, TypeInv, playVars

\* A request is taken up: the task is for the device of now.
LEMMA TakeKeeps == ASSUME SessionInv, MediaThread, M!Take PROVE SessionInv'
<1>1. /\ stage = "idle" /\ pending # M!Nothing /\ stage' = "check"
      /\ task' = [work |-> pending.work, job |-> pending.job, gen |-> observed]
      /\ executed' = FALSE /\ outcome' = "ok" /\ spoilt' = FALSE /\ pending' = M!Nothing /\ UNCHANGED results
  BY DEF M!Take
<1>2. /\ pending \in Requests /\ results = <<>> /\ popped = <<>> /\ task = M!NoTask
      /\ observed = device /\ device \in 0..MaxObservations
  BY <1>1, EpochBound DEF SessionInv, TypeInv, WorkerTypes, OneRequest, EpochTypes
<1>3. /\ task' \in Tasks /\ task'.work = pending.work /\ task'.gen = device /\ task'.gen = observed
      /\ pending.work \in PlainWorks
  BY <1>1, <1>2 DEF Requests, Tasks
<1>4. UNCHANGED <<observed, device, popped, at, capture, playVars, media, retiring>> /\ closing' = FALSE
  BY MediaThreadFrame
<1>5. WorkerTypes'
  <2>1. pending' \in Requests \cup {M!Nothing} /\ stage' = "check" /\ task' \in Tasks /\ task'.gen \in 0..device'
    BY <1>1, <1>2, <1>3, <1>4
  <2>2. executed' \in BOOLEAN /\ outcome' \in AllOutcomes /\ spoilt' \in BOOLEAN
    BY <1>1 DEF AllOutcomes
  <2>3. results' = <<>> /\ popped' = <<>> /\ <<>> \in Seq(Results)
    BY <1>1, <1>2, <1>4, EmptySeq
  <2> QED
    BY <1>4, <2>1, <2>2, <2>3 DEF WorkerTypes
<1>6. OneRequest'
  BY <1>1, <1>2, <1>4 DEF OneRequest
<1>7. \A w \in PlainWorks : Coming(w)' <=> Coming(w)
  BY <1>1, <1>2, <1>3, <1>4, WorksAreNone DEF Coming
<1>8. RequestInv'
  <2>1. Delivered'
    BY <1>1 DEF Delivered
  <2>2. (Coming("read_toc")' <=> Coming("read_toc")) /\ (Coming("eject")' <=> Coming("eject"))
        /\ (Coming("probe_drive")' <=> Coming("probe_drive"))
    BY <1>7, WorksAreNone
  <2>3. DeviceCurrent' <=> DeviceCurrent
    BY MediaThreadFrame DEF DeviceCurrent
  <2> QED
    BY <2>1, <2>2, <2>3, MediaThreadFrame, RequestFollows DEF SessionInv
<1>9. AloneInv'
  <2>1. capture = "idle"
    BY <1>1, WorkerIdle DEF SessionInv, TypeInv, AloneInv
  <2> QED
    BY <1>1, <1>3, <1>4, <2>1, WorksAreNone DEF SessionInv, AloneInv, NoReader, Silent, playVars
<1>10. OldDeviceIsGone'
  <2>1. ~M!Retiring'
    BY <1>3, <1>4 DEF M!Retiring
  <2> QED
    BY <1>4, <2>1 DEF SessionInv, OldDeviceIsGone, playVars
<1> QED
  BY <1>5, <1>6, <1>8, <1>9, <1>10, MediaThreadRest DEF SessionInv, TypeInv

\* The steps of a task between its start and its end.
LEMMA TaskKeeps ==
    ASSUME SessionInv, MediaThread,
           M!CheckBeforeDrive \/ M!Acquire \/ M!AdmitOperation \/ M!RefuseOperation \/ M!Judge \/ MediaCall
    PROVE  SessionInv'
<1>1. /\ stage # "idle" /\ stage' \in {"check", "wait", "admit", "operate", "judge", "finish"}
      /\ UNCHANGED <<pending, task, results>>
      /\ executed' \in BOOLEAN /\ outcome' \in AllOutcomes /\ spoilt' \in BOOLEAN
  <2>0. executed \in BOOLEAN /\ outcome \in AllOutcomes /\ spoilt \in BOOLEAN
    BY DEF SessionInv, TypeInv, WorkerTypes
  <2>1. CASE MediaCall
    <3>1. PICK o \in Answers(task.work) : M!Operate(o)
      BY <2>1 DEF MediaCall
    <3>2. o \in AllOutcomes
      <4>1. tray \in Trays
        BY DEF SessionInv, TypeInv, PlaceTypes
      <4>2. CASE task.work = "observe"
        BY <3>1, <4>1, <4>2 DEF Answers, AllOutcomes, Trays
      <4>3. CASE task.work = "read_toc"
        BY <3>1, <4>3 DEF Answers, AllOutcomes
      <4>4. CASE task.work # "observe" /\ task.work # "read_toc"
        BY <3>1, <4>4 DEF Answers, AllOutcomes
      <4> QED
        BY <4>2, <4>3, <4>4
    <3>3. spoilt' = ~M!Current(task.gen)
      BY <3>1 DEF M!Operate
    <3>4. spoilt' \in BOOLEAN
      BY <3>3
    <3> QED
      BY <2>0, <3>1, <3>2, <3>4 DEF M!Operate, M!requestVars
  <2>2. CASE M!Judge
    BY <2>0, <2>2 DEF M!Judge, M!Deliverable, M!requestVars
  <2>3. CASE M!CheckBeforeDrive \/ M!Acquire \/ M!AdmitOperation \/ M!RefuseOperation
    BY <2>0, <2>3 DEF M!CheckBeforeDrive, M!Acquire, M!AdmitOperation, M!RefuseOperation, M!Goto, M!requestVars
  <2> QED
    BY <2>1, <2>2, <2>3
<1>2. UNCHANGED <<observed, device, popped, at, capture, playVars, media, retiring, generation, permitted>>
      /\ closing' = FALSE
  BY MediaThreadFrame
<1>3. WorkerTypes'
  BY <1>1, <1>2 DEF SessionInv, TypeInv, WorkerTypes
<1>4. OneRequest'
  BY <1>1, <1>2 DEF SessionInv, OneRequest
<1>5. \A w : Coming(w)' <=> Coming(w)
  BY <1>1, <1>2 DEF Coming
<1>6. Delivered'
  <2> SUFFICES ASSUME stage' \in {"operate", "judge", "finish"}, task.gen = device, DeviceCurrent
               PROVE  executed'
    BY <1>1, <1>2 DEF Delivered, DeviceCurrent
  <2>1. M!Current(task.gen)
    BY AcceptedMeans DEF SessionInv
  <2>2. task.work # "assess_c2"
    BY <1>1, WorksAreNone DEF SessionInv, TypeInv, WorkerTypes, Tasks
  <2>3. M!Admissible
    BY <2>1, <2>2 DEF M!Admissible
  <2>4. stage \in {"operate", "judge", "finish"} => executed
    BY DEF SessionInv, RequestInv, Delivered
  <2>5. CASE MediaCall
    BY <2>4, <2>5 DEF MediaCall, M!Operate
  <2>6. CASE M!Judge
    BY <2>1, <2>4, <2>6 DEF M!Judge, M!Deliverable
  <2>7. CASE M!CheckBeforeDrive
    BY <2>1, <2>7 DEF M!CheckBeforeDrive, M!Goto
  <2>8. CASE M!Acquire \/ M!AdmitOperation \/ M!RefuseOperation
    BY <2>3, <2>8 DEF M!Acquire, M!AdmitOperation, M!RefuseOperation, M!Goto
  <2> QED
    BY <2>5, <2>6, <2>7, <2>8
<1>7. RequestInv'
  <2>1. (Coming("read_toc")' <=> Coming("read_toc")) /\ (Coming("eject")' <=> Coming("eject"))
        /\ (Coming("probe_drive")' <=> Coming("probe_drive"))
    BY <1>5
  <2>2. DeviceCurrent' <=> DeviceCurrent
    BY MediaThreadFrame DEF DeviceCurrent
  <2> QED
    BY <1>6, <2>1, <2>2, MediaThreadFrame, RequestFollows DEF SessionInv
<1>8. AloneInv'
  <2>1. capture = "idle"
    BY <1>1, WorkerIdle DEF SessionInv, TypeInv, AloneInv
  <2> QED
    BY <1>1, <1>2, <2>1 DEF SessionInv, AloneInv, NoReader, Silent, playVars
<1>9. OldDeviceIsGone'
  <2>1. M!Retiring' => M!Retiring
    BY <1>1, <1>2 DEF M!Retiring, M!Busy, SessionInv, TypeInv, WorkerTypes
  <2> QED
    BY <1>2, <2>1 DEF SessionInv, OldDeviceIsGone, playVars
<1> QED
  BY <1>3, <1>4, <1>7, <1>8, <1>9, MediaThreadRest DEF SessionInv, TypeInv

\* A task ends: its result goes to the session if it is still wanted, and it
\* is when the device is the same.
LEMMA FinishTaskKeeps == ASSUME SessionInv, MediaThread, M!Finish PROVE SessionInv'
<1>1. /\ stage = "finish" /\ stage' = "idle" /\ task' = M!NoTask
      /\ executed' = FALSE /\ outcome' = "ok" /\ spoilt' = FALSE /\ UNCHANGED pending
      /\ results' = IF M!Wanted THEN Append(results, M!Result) ELSE results
  BY DEF M!Finish, M!requestVars
<1>2. UNCHANGED <<observed, device, popped, at, capture, playVars, media, retiring, generation, permitted>>
      /\ closing = FALSE /\ closing' = FALSE
  BY MediaThreadFrame
<1>3. /\ task \in Tasks /\ results = <<>> /\ pending = M!Nothing /\ popped = <<>> /\ observed = device
      /\ outcome \in AllOutcomes /\ spoilt \in BOOLEAN
  BY <1>1 DEF SessionInv, TypeInv, WorkerTypes, OneRequest, EpochTypes
<1>4. M!Wanted <=> task.gen = device /\ executed
  BY <1>2, <1>3, WorksAreNone DEF M!Wanted, Tasks
<1> DEFINE r == M!Result
<1>5. r \in Results /\ r.work = task.work /\ r.gen = task.gen
  BY <1>3 DEF M!Result, Results, Tasks
<1> HIDE DEF r
<1>6. IF M!Wanted THEN results' = <<r>> ELSE results' = <<>>
  BY <1>1, <1>3 DEF r
<1>7. WorkerTypes'
  <2>1. M!Wanted => <<r>> \in Seq(Results) /\ Len(<<r>>) = 1 /\ <<r>>[1] = r /\ r.gen = device
    BY <1>4, <1>5
  <2>2. <<>> \in Seq(Results)
    BY EmptySeq
  <2>3. results' \in Seq(Results) /\ (results' # <<>> => Len(results') = 1 /\ results'[1].gen = device)
    BY <1>6, <2>1, <2>2
  <2>4. device \in Nat /\ M!NoTask.gen = 0
    BY EpochBound, WorksAreNone DEF SessionInv, TypeInv, EpochTypes
  <2>5. pending' = M!Nothing /\ stage' = "idle" /\ task' = M!NoTask /\ task'.gen \in 0..device'
    BY <1>1, <1>2, <1>3, <2>4
  <2>6. executed' \in BOOLEAN /\ outcome' \in AllOutcomes /\ spoilt' \in BOOLEAN /\ popped' = <<>>
    BY <1>1, <1>2, <1>3 DEF AllOutcomes
  <2>7. results' # <<>> => results'[1].gen = device'
    BY <1>2, <2>3
  <2> QED
    BY <1>2, <2>2, <2>3, <2>5, <2>6, <2>7 DEF WorkerTypes
<1>8. OneRequest'
  BY <1>1, <1>2, <1>3 DEF OneRequest
<1>9. ASSUME NEW w \in PlainWorks
      PROVE  /\ Coming(w)' => Coming(w)
             /\ Coming(w) /\ DeviceCurrent => Coming(w)'
  <2>1. Coming(w) <=> w = task.work /\ task.gen = device
    BY <1>3, WorksAreNone DEF Coming
  <2>2. Coming(w)' <=> M!Wanted /\ w = task.work
    <3>1. M!Wanted => <<r>>[1] = r /\ <<r>> # <<>>
      OBVIOUS
    <3> QED
      BY <1>1, <1>2, <1>3, <1>5, <1>6, <3>1, WorksAreNone DEF Coming
  <2>3. DeviceCurrent /\ task.gen = device => executed
    BY <1>1 DEF SessionInv, RequestInv, Delivered
  <2> QED
    BY <1>4, <2>1, <2>2, <2>3
<1>10. RequestInv'
  <2>1. Delivered'
    BY <1>1 DEF Delivered
  <2> QED
    <3>1. /\ DeviceCurrent /\ Coming("read_toc") => Coming("read_toc")'
          /\ DeviceCurrent /\ Coming("eject") => Coming("eject")'
          /\ DeviceCurrent /\ Coming("probe_drive") => Coming("probe_drive")'
          /\ Coming("eject")' => Coming("eject")
      BY <1>9, WorksAreNone
    <3>2. DeviceCurrent' <=> DeviceCurrent
      BY MediaThreadFrame DEF DeviceCurrent
    <3> QED
      BY <2>1, <3>1, <3>2, MediaThreadFrame, RequestFollows DEF SessionInv
<1>11. AloneInv'
  <2>1. capture = "idle"
    BY <1>1, WorkerIdle DEF SessionInv, TypeInv, AloneInv
  <2> QED
    BY <1>1, <1>2, <1>3, <2>1, WorksAreNone DEF SessionInv, AloneInv, NoReader, Silent, playVars
<1>12. OldDeviceIsGone'
  <2>1. ~M!Retiring'
    BY <1>1 DEF M!Retiring, M!Busy
  <2> QED
    BY <1>2, <2>1 DEF SessionInv, OldDeviceIsGone, playVars
<1> QED
  BY <1>7, <1>8, <1>10, <1>11, <1>12, MediaThreadRest DEF SessionInv, TypeInv

\* Every step of the media worker's thread.
LEMMA MediaThreadKeeps == ASSUME SessionInv, MediaThread PROVE SessionInv'
<1>1. ~M!Exit
  BY DEF M!Exit, SessionInv, TypeInv, WorkerTypes
<1> QED
  BY <1>1, TakeKeeps, TaskKeeps, FinishTaskKeeps DEF MediaThread, M!MediaStep

-----------------------------------------------------------------------------
(* The reader's thread, the observer, the capture and the listener.        *)

\* What the reader's thread leaves alone.
LEMMA PcmFrame ==
    ASSUME Pcm, SessionInv
    PROVE  /\ UNCHANGED <<generation, permitted, device, contextReady, retiring, probeAttempted, probeFinished>>
           /\ UNCHANGED <<media, observedEmpty, loaded, needsRefresh, tocPending, ejectPending, ejectInflight, emptyIn>>
           /\ UNCHANGED <<playback, capture, mayAccess, at, popped, tray>>
           /\ UNCHANGED <<pending, observed, task, stage, executed, outcome, spoilt, results, closing>>
           /\ drive' \in {"free", "pcm", drive}
<1>1. UNCHANGED pcmFrame /\ drive' \in {"free", "pcm", drive}
  BY DEF Pcm, PcmDiscard, PcmClose, PcmCall, PcmEnter, PcmReturn
<1> QED
  BY <1>1 DEF pcmFrame, epochVars, contextVars, discVars, workerVars, requestVars

\* What a step of the reader's thread keeps of the stream.
ReaderKeeps ==
    /\ pcm' \in PcmStates
    /\ NoReader => NoReader'
    /\ pcm'.driven = pcm.driven
    /\ pcm'.active => pcm.active
    /\ pcm.active \/ pcm.done \/ pcm.error => pcm'.active \/ pcm'.done \/ pcm'.error
    /\ (pcm.open \/ pcm.call = "held" => pcm.gen = device)
         => (pcm'.open \/ pcm'.call = "held" => pcm'.gen = device)

\* The reader drops what it had.
LEMMA ReaderDiscards == ASSUME SessionInv, PcmDiscard PROVE ReaderKeeps
<1>1. pcm \in PcmStates /\ pcm' = [pcm EXCEPT !.discard = FALSE, !.call = "close"]
  BY DEF SessionInv, TypeInv, PlayTypes, PcmDiscard
<1>2. /\ pcm' \in PcmStates /\ pcm'.active = pcm.active /\ pcm'.open = pcm.open /\ pcm'.done = pcm.done
      /\ pcm'.driven = pcm.driven
      /\ pcm'.error = pcm.error /\ pcm'.gen = pcm.gen /\ pcm'.call = "close"
  BY <1>1 DEF PcmStates
<1> QED
  BY <1>2 DEF ReaderKeeps, NoReader

\* The reader closes its device.
LEMMA ReaderCloses == ASSUME SessionInv, PcmClose PROVE ReaderKeeps
<1> DEFINE failed == pcm.call = "fail" /\ pcm.own
           error == pcm.error \/ failed
           live == pcm.active /\ ~failed
<1>1. pcm \in PcmStates
      /\ pcm' = [pcm EXCEPT !.open = FALSE, !.call = "none", !.own = FALSE, !.error = error, !.active = live]
  BY DEF SessionInv, TypeInv, PlayTypes, PcmClose
<1>2. error \in BOOLEAN /\ live \in BOOLEAN
  BY <1>1 DEF PcmStates
<1>3. (live => pcm.active) /\ (pcm.active => live \/ error) /\ (pcm.error => error)
  OBVIOUS
<1> HIDE DEF error, live
<1>4. /\ pcm' \in PcmStates /\ pcm'.active = live /\ pcm'.open = FALSE /\ pcm'.done = pcm.done
      /\ pcm'.driven = pcm.driven
      /\ pcm'.error = error /\ pcm'.gen = pcm.gen /\ pcm'.call = "none"
  BY <1>1, <1>2 DEF PcmStates
<1>5. NoReader => NoReader'
  BY <1>3, <1>4 DEF NoReader
<1>6. pcm.active \/ pcm.done \/ pcm.error => pcm'.active \/ pcm'.done \/ pcm'.error
  BY <1>3, <1>4
<1> QED
  BY <1>3, <1>4, <1>5, <1>6 DEF ReaderKeeps

\* The reader asks for the drive.
LEMMA ReaderCalls == ASSUME SessionInv, PcmCall PROVE ReaderKeeps
<1>1. pcm \in PcmStates /\ pcm' = [pcm EXCEPT !.call = "wait", !.own = TRUE] /\ pcm.active
  BY DEF SessionInv, TypeInv, PlayTypes, PcmCall
<1>2. /\ pcm' \in PcmStates /\ pcm'.active = pcm.active /\ pcm'.open = pcm.open /\ pcm'.done = pcm.done
      /\ pcm'.driven = pcm.driven
      /\ pcm'.error = pcm.error /\ pcm'.gen = pcm.gen /\ pcm'.call = "wait"
  BY <1>1 DEF PcmStates
<1> QED
  BY <1>1, <1>2 DEF ReaderKeeps, NoReader

\* The reader gets the drive.
LEMMA ReaderEnters == ASSUME SessionInv, PcmEnter PROVE ReaderKeeps
<1> DEFINE gen == IF pcm.open THEN pcm.gen ELSE device
<1>1. pcm \in PcmStates /\ pcm.call = "wait" /\ device \in 0..MaxObservations
  BY EpochBound DEF SessionInv, TypeInv, PlayTypes, PcmEnter, EpochTypes
<1>2. gen \in 0..MaxObservations /\ (pcm.open => gen = pcm.gen) /\ (~pcm.open => gen = device)
  BY <1>1 DEF PcmStates
<1>3. \/ pcm' = [pcm EXCEPT !.call = "none", !.own = FALSE]
      \/ pcm' = [pcm EXCEPT !.call = "held", !.gen = gen]
      \/ pcm' = [pcm EXCEPT !.call = "fail", !.gen = gen]
  BY DEF PcmEnter
<1> HIDE DEF gen
<1>4. /\ pcm' \in PcmStates /\ pcm'.active = pcm.active /\ pcm'.open = pcm.open /\ pcm'.done = pcm.done
      /\ pcm'.driven = pcm.driven
      /\ pcm'.error = pcm.error
  BY <1>1, <1>2, <1>3 DEF PcmStates
<1>5. \/ pcm'.gen = pcm.gen /\ pcm'.call = "none"
      \/ pcm'.gen = gen
  BY <1>1, <1>3 DEF PcmStates
<1> QED
  BY <1>1, <1>2, <1>4, <1>5 DEF ReaderKeeps, NoReader

\* The reader gives the drive back.
LEMMA ReaderReturns == ASSUME SessionInv, PcmReturn PROVE ReaderKeeps
<1>1. pcm \in PcmStates /\ pcm.call = "held"
  BY DEF SessionInv, TypeInv, PlayTypes, PcmReturn
<1>2. \/ pcm' = [pcm EXCEPT !.open = TRUE, !.call = "none", !.own = FALSE]
      \/ pcm' = [pcm EXCEPT !.active = FALSE, !.done = TRUE, !.call = "none", !.own = FALSE]
      \/ pcm' = [pcm EXCEPT !.call = "fail"]
  BY DEF PcmReturn
<1>3. CASE pcm' = [pcm EXCEPT !.active = FALSE, !.done = TRUE, !.call = "none", !.own = FALSE]
  <2>1. /\ pcm' \in PcmStates /\ pcm'.gen = pcm.gen /\ pcm'.active = FALSE /\ pcm'.done = TRUE
        /\ pcm'.open = pcm.open /\ pcm'.driven = pcm.driven
    BY <1>1, <1>3 DEF PcmStates
  <2> QED
    BY <1>1, <2>1 DEF ReaderKeeps, NoReader
<1>4. CASE \/ pcm' = [pcm EXCEPT !.open = TRUE, !.call = "none", !.own = FALSE]
           \/ pcm' = [pcm EXCEPT !.call = "fail"]
  <2>1. /\ pcm' \in PcmStates /\ pcm'.gen = pcm.gen /\ pcm'.active = pcm.active /\ pcm'.done = pcm.done
        /\ pcm'.error = pcm.error /\ pcm'.driven = pcm.driven
    BY <1>1, <1>4 DEF PcmStates
  <2> QED
    BY <1>1, <2>1 DEF ReaderKeeps, NoReader
<1> QED
  BY <1>2, <1>3, <1>4

\* Every step of the reader's thread.
LEMMA PcmKeeps == ASSUME SessionInv, Pcm PROVE SessionInv'
<1>1. ReaderKeeps
  BY ReaderDiscards, ReaderCloses, ReaderCalls, ReaderEnters, ReaderReturns DEF Pcm
<1>2. PlaceTypes'
  BY PcmFrame DEF SessionInv, TypeInv, PlaceTypes
<1>3. PlayTypes'
  BY <1>1, PcmFrame DEF SessionInv, TypeInv, PlayTypes, ReaderKeeps
<1>4. AloneInv'
  BY <1>1, PcmFrame DEF SessionInv, AloneInv, ReaderKeeps, Silent, M!Idle, M!Busy
<1>5. StreamFollowsIntent'
  BY <1>1, PcmFrame DEF SessionInv, StreamFollowsIntent, ReaderKeeps
<1>6. OldDeviceIsGone'
  <2>1. M!Retiring' <=> M!Retiring
    BY PcmFrame DEF M!Retiring, M!Busy
  <2> QED
    BY <1>1, <2>1, PcmFrame DEF SessionInv, OldDeviceIsGone, ReaderKeeps
<1>7. EpochTypes' /\ FlagTypes' /\ WorkerTypes' /\ OneRequest' /\ GateInv' /\ RequestInv' /\ DiscInv'
  BY PcmFrame, EpochKept, FlagKept, WorkerKept, OneKept, GateKept, RequestKept, DiscKept DEF SessionInv, TypeInv
<1> QED
  BY <1>2, <1>3, <1>4, <1>5, <1>6, <1>7 DEF SessionInv, TypeInv

\* A device comes or goes: the session has not seen it yet, and its device is
\* not the current one any more.
LEMMA ObserverKeeps == ASSUME SessionInv, ObserverThread PROVE SessionInv'
<1>1. /\ generation < MaxObservations /\ generation' = generation + 1 /\ permitted' \in BOOLEAN
      /\ UNCHANGED <<otherFrame, workerVars, worldVars>>
  BY DEF ObserverThread, NewEpoch
<1>2. /\ UNCHANGED <<at, capture, playVars, mayAccess, popped, tray, drive, device, retiring, contextReady,
                     observedEmpty, loaded, needsRefresh, tocPending, ejectPending, ejectInflight,
                     probeAttempted, probeFinished, media, emptyIn>>
      /\ UNCHANGED <<pending, observed, task, stage, executed, outcome, spoilt, results, closing>>
      /\ UNCHANGED <<playback, pcm>>
  BY <1>1 DEF otherFrame, sessionVars, contextVars, discVars, playVars, workerVars, requestVars, worldVars
<1>3. EpochTypes' /\ device # generation'
  BY <1>1, <1>2, EpochBound DEF SessionInv, TypeInv, EpochTypes
<1>4. ~DeviceCurrent'
  BY <1>2, <1>3 DEF DeviceCurrent
<1>5. RequestInv'
  <2>1. Delivered'
    BY <1>4 DEF Delivered
  <2>2. Coming("eject")' => Coming("eject")
    BY <1>2 DEF Coming
  <2> QED
    BY <1>2, <1>4, <2>1, <2>2 DEF SessionInv, RequestInv
<1>6. /\ PlaceTypes' /\ FlagTypes' /\ PlayTypes' /\ WorkerTypes' /\ OneRequest' /\ GateInv' /\ AloneInv'
      /\ StreamFollowsIntent' /\ OldDeviceIsGone' /\ DiscInv'
  BY <1>2, PlaceKept, FlagKept, PlayKept, WorkerKept, OneKept, GateKept, AloneKept, StreamKept, OldKept, DiscKept
     DEF SessionInv, TypeInv
<1> QED
  BY <1>3, <1>5, <1>6 DEF SessionInv, TypeInv

\* What only changes who holds the drive, or what is in it.
LEMMA WorldKeeps == ASSUME SessionInv, CaptureCalls \/ CaptureReturns \/ ChangeDisc PROVE SessionInv'
<1>1. UNCHANGED <<otherFrame, epochVars, workerVars>> /\ drive' \in {"free", "capture", drive}
      /\ tray' \in Trays \cup {tray}
  BY DEF CaptureCalls, CaptureReturns, ChangeDisc, Trays
<1>2. /\ UNCHANGED <<at, capture, playVars, mayAccess, popped, device, retiring, contextReady, generation, permitted,
                     observedEmpty, loaded, needsRefresh, tocPending, ejectPending, ejectInflight,
                     probeAttempted, probeFinished, media, emptyIn>>
      /\ UNCHANGED <<pending, observed, task, stage, executed, outcome, spoilt, results, closing>>
      /\ UNCHANGED <<playback, pcm>>
  BY <1>1 DEF otherFrame, sessionVars, contextVars, discVars, playVars, workerVars, requestVars, epochVars
<1>3. PlaceTypes'
  BY <1>1, <1>2 DEF SessionInv, TypeInv, PlaceTypes
<1> QED
  BY <1>2, <1>3, EpochKept, FlagKept, PlayKept, WorkerKept, OneKept, GateKept, RequestKept, AloneKept, StreamKept,
     OldKept, DiscKept DEF SessionInv, TypeInv

-----------------------------------------------------------------------------
(* What the session may do with playback.                                  *)

\* Playback stops, pauses or loses its disc, and leaves no stream.
Ended ==
    /\ pcm' \in PcmStates /\ SameReader(pcm, pcm') /\ pcm'.active = FALSE /\ pcm'.driven = FALSE
    /\ playback' \in {"no_disc", "stopped", "paused"}
    /\ Silent => Silent'

\* The listener is to hear something: a stream starts, unless its reset threw.
Started ==
    /\ pcm' \in PcmStates /\ SameReader(pcm, pcm') /\ pcm'.active = pcm'.driven
    /\ playback' = "playing"

PlayMoved == UNCHANGED playVars \/ Ended \/ Started

\* A playback command that moves playback keeps its own parts.
LEMMA PlayMovedKeeps ==
    ASSUME SessionInv, PlayMoved
    PROVE  PlayTypes' /\ StreamFollowsIntent' /\ SameReader(pcm, pcm') /\ pcm \in PcmStates
<1>1. PlayTypes /\ StreamFollowsIntent /\ pcm \in PcmStates
  BY DEF SessionInv, TypeInv, PlayTypes
<1>2. CASE UNCHANGED playVars
  BY <1>1, <1>2, PlayKept, StreamKept DEF playVars, SameReader
<1>3. CASE Ended
  BY <1>1, <1>3 DEF Ended, PlayTypes, StreamFollowsIntent
<1>4. CASE Started
  BY <1>1, <1>4 DEF Started, PlayTypes, StreamFollowsIntent
<1> QED
  BY <1>2, <1>3, <1>4 DEF PlayMoved

\* A reader that was closed stays closed: the session opens none.
LEMMA NoReaderKept ==
    ASSUME SessionInv, UNCHANGED playVars \/ Ended, NoReader
    PROVE  NoReader'
BY DEF Ended, NoReader, SameReader, playVars

\* Playback that ended, or did not change, stays silent.
LEMMA SilentKept ==
    ASSUME UNCHANGED playVars \/ Ended, Silent
    PROVE  Silent'
BY DEF Ended, Silent, playVars

\* synchronize() after a change of intent, also when its reset throws.
LEMMA FollowMoves ==
    ASSUME SessionInv, NEW intent \in {"no_disc", "stopped", "playing", "paused"},
           Follow(intent) \/ FollowFails(intent)
    PROVE  /\ intent = "playing" => Started
           /\ intent \in {"no_disc", "stopped"} => Ended
           /\ intent = "paused" /\ playback \in {"playing", "paused"} => Ended
<1>1. pcm \in PcmStates /\ playback' = intent
  BY DEF SessionInv, TypeInv, PlayTypes, Follow, FollowFails
<1>2. /\ pcm' \in PcmStates /\ SameReader(pcm, pcm') /\ pcm'.active = pcm'.driven
      /\ intent # "playing" => pcm'.active = FALSE
  <2>1. CASE Follow(intent)
    <3> DEFINE q == Synchronized(pcm, intent)
    <3>1. /\ q \in PcmStates /\ SameReader(pcm, q)
          /\ q.active = (intent = "playing") /\ q.driven = (intent = "playing")
      BY <1>1, StreamSynchronized
    <3>2. pcm' = q
      BY <2>1 DEF Follow
    <3> HIDE DEF q
    <3> QED
      BY <3>1, <3>2
  <2>2. CASE FollowFails(intent)
    <3> DEFINE q == Halted(pcm)
    <3>1. q \in PcmStates /\ SameReader(pcm, q) /\ q.active = FALSE /\ q.driven = FALSE
      BY <1>1, StreamGivenUp
    <3>2. pcm' = q
      BY <2>2 DEF FollowFails
    <3> HIDE DEF q
    <3> QED
      BY <3>1, <3>2
  <2> QED
    BY <2>1, <2>2
<1>3. intent = "playing" => Started
  BY <1>1, <1>2 DEF Started
<1>4. intent \in {"no_disc", "stopped"} => Ended
  BY <1>1, <1>2 DEF Ended, Silent
<1>5. intent = "paused" /\ playback \in {"playing", "paused"} => Ended
  BY <1>1, <1>2 DEF Ended, Silent
<1> QED
  BY <1>3, <1>4, <1>5

\* A removed disc ends playback.
LEMMA RemoveDiscMoves == ASSUME SessionInv, RemoveDisc PROVE Ended /\ playback' = "no_disc"
<1> DEFINE s == Synchronized(pcm, "no_disc")
<1>1. pcm \in PcmStates /\ playback' = "no_disc" /\ pcm' = Discarded(s)
  BY DEF SessionInv, TypeInv, PlayTypes, RemoveDisc
<1>2. s \in PcmStates /\ SameReader(pcm, s) /\ s.driven = FALSE
  BY <1>1, StreamSynchronized
<1> HIDE DEF s
<1>3. pcm' \in PcmStates /\ SameReader(s, pcm') /\ pcm'.active = FALSE /\ pcm'.driven = FALSE
  BY <1>1, <1>2, StreamGivenUp
<1>4. SameReader(pcm, pcm')
  BY <1>2, <1>3 DEF SameReader
<1> QED
  BY <1>1, <1>3, <1>4 DEF Ended, Silent

\* Nothing the reader has open, and no task, is of another device than before.
LEMMA OldFollows ==
    ASSUME OldDeviceIsGone, SameReader(pcm, pcm'), UNCHANGED <<device, retiring>>, M!Retiring' => M!Retiring
    PROVE  OldDeviceIsGone'
BY DEF OldDeviceIsGone, SameReader

-----------------------------------------------------------------------------
(* The session: the device of now.                                         *)

\* A result is in hand only while it is handled.
LEMMA NothingInHand == ASSUME SessionInv, at \notin {"handle", "ended"} PROVE popped = <<>>
BY DEF SessionInv, OneRequest

\* Outside of its request the session says nothing about the gate.
LEMMA GateElsewhere == at' # "request" /\ popped' = <<>> => GateInv'
BY DEF GateInv

\* interrupt() never makes a capture.
LEMMA InterruptedMeans ==
    ASSUME capture' \in Interrupted, capture \in {"idle", "busy", "releasing"}
    PROVE  capture' \in {"idle", "releasing"} /\ (capture = "idle" => capture' = "idle")
BY DEF Interrupted

\* Another device: everything of the old one is forgotten, and what runs on
\* it still is waited for.
LEMMA ApplyKeeps ==
    ASSUME SessionInv, ApplyObservation(generation'), device < generation', generation' \in 0..MaxObservations,
           permitted' \in BOOLEAN, UNCHANGED <<popped, mayAccess, worldVars>>,
           at \notin {"handle", "ended"}, at' \in {"gate", "serve"}
    PROVE  SessionInv'
<1>1. popped = <<>> /\ popped' = <<>> /\ UNCHANGED <<drive, tray>>
  BY NothingInHand DEF worldVars
<1>2. /\ device \in 0..MaxObservations /\ observed = device /\ generation' # observed
      /\ capture \in {"idle", "busy", "releasing"}
  BY EpochBound DEF SessionInv, TypeInv, EpochTypes, PlaceTypes
<1>3. /\ observed' = generation' /\ pending' = M!Nothing /\ results' = <<>>
      /\ UNCHANGED <<task, stage, executed, outcome, spoilt, closing>>
  BY <1>2 DEF ApplyObservation, InvalidateMedia, M!Invalidate, M!runVars
<1>4. /\ capture' \in {"idle", "releasing"} /\ (capture = "idle" => capture' = "idle")
  BY <1>2, InterruptedMeans DEF ApplyObservation
<1>5. Ended /\ playback' = "no_disc"
  BY RemoveDiscMoves DEF ApplyObservation
<1>6. /\ device' = generation' /\ loaded' = FALSE /\ tocPending' = FALSE /\ needsRefresh' = TRUE /\ media' = "no_disc"
      /\ observedEmpty' = FALSE /\ contextReady' = FALSE /\ retiring' = TRUE /\ probeAttempted' = FALSE
      /\ probeFinished' = FALSE /\ ejectPending' = FALSE /\ ejectInflight' = FALSE
  BY DEF ApplyObservation, ResetMediaState
<1>7. PlaceTypes' /\ EpochTypes'
  BY <1>1, <1>3, <1>4, <1>6, EpochBound DEF SessionInv, TypeInv, PlaceTypes, Places, EpochTypes
<1>8. FlagTypes'
  BY <1>6 DEF SessionInv, TypeInv, FlagTypes, MediaStates
<1>9. PlayTypes' /\ StreamFollowsIntent'
  BY <1>5, PlayMovedKeeps DEF PlayMoved
<1>10. task.gen \in 0..device /\ task.gen \in 0..device' /\ task.gen # device'
  BY <1>2, <1>6 DEF SessionInv, TypeInv, WorkerTypes
<1>11. WorkerTypes'
  <2>1. <<>> \in Seq(Results)
    BY EmptySeq
  <2> QED
    BY <1>1, <1>3, <1>10, <2>1 DEF SessionInv, TypeInv, WorkerTypes
<1>12. OneRequest' /\ GateInv'
  BY <1>1, <1>3 DEF SessionInv, OneRequest, GateInv
<1>13. RequestInv'
  <2>1. Delivered'
    BY <1>3, <1>10 DEF Delivered
  <2>2. ~Coming("eject")'
    BY <1>1, <1>3, <1>10, WorksAreNone DEF Coming
  <2> QED
    BY <1>6, <2>1, <2>2 DEF RequestInv
<1>14. AloneInv'
  <2>1. ASSUME capture' # "idle" PROVE (NoReader /\ Silent /\ M!Idle)'
    <3>1. NoReader /\ Silent /\ M!Idle
      BY <1>4, <2>1 DEF SessionInv, AloneInv
    <3> QED
      BY <1>3, <1>5, <3>1, NoReaderKept, SilentKept DEF M!Idle, M!Busy
  <2>2. ASSUME task'.work = "eject" PROVE (NoReader /\ Silent /\ capture = "idle")'
    <3>1. NoReader /\ Silent /\ capture = "idle"
      BY <1>3, <2>2 DEF SessionInv, AloneInv
    <3> QED
      BY <1>4, <1>5, <3>1, NoReaderKept, SilentKept
  <2> QED
    BY <1>3, <1>6, <2>1, <2>2, WorksAreNone DEF AloneInv
<1>15. OldDeviceIsGone' /\ DiscInv'
  BY <1>5, <1>6 DEF OldDeviceIsGone, DiscInv, DiscIsLoaded
<1> QED
  BY <1>7, <1>8, <1>9, <1>11, <1>12, <1>13, <1>14, <1>15 DEF SessionInv, TypeInv

\* The session looks at the observer.
LEMMA ObserveKeeps == ASSUME SessionInv, Observe PROVE SessionInv'
<1>1. at = "observe" /\ at' = "gate" /\ UNCHANGED <<epochVars, popped, worldVars>>
  BY DEF Observe
<1>2. UNCHANGED <<generation, permitted, drive, tray>> /\ popped = <<>>
  BY <1>1, NothingInHand DEF epochVars, worldVars
<1>3. CASE generation = device
  <2>1. UNCHANGED <<sessionVars, workerVars>>
    BY <1>3 DEF Observe
  <2>2. /\ UNCHANGED <<capture, playVars, mayAccess, device, retiring, contextReady, observedEmpty, loaded, needsRefresh,
                       tocPending, ejectPending, ejectInflight, probeAttempted, probeFinished, media, emptyIn>>
        /\ UNCHANGED <<pending, observed, task, stage, executed, outcome, spoilt, results, closing>>
        /\ UNCHANGED <<playback, pcm, popped>>
    BY <1>1, <2>1 DEF sessionVars, contextVars, discVars, playVars, workerVars, requestVars
  <2>3. PlaceTypes' /\ OneRequest' /\ GateInv'
    BY <1>1, <1>2, <2>2 DEF SessionInv, TypeInv, PlaceTypes, Places, OneRequest, GateInv
  <2> QED
    BY <1>1, <1>2, <2>2, <2>3, EpochKept, FlagKept, PlayKept, WorkerKept, RequestKept, AloneKept, StreamKept,
       OldKept, DiscKept DEF SessionInv, TypeInv
<1>4. CASE generation # device
  <2>1. ApplyObservation(generation') /\ UNCHANGED mayAccess
    BY <1>2, <1>4 DEF Observe
  <2>2. device < generation' /\ generation' \in 0..MaxObservations /\ permitted' \in BOOLEAN
    BY <1>2, <1>4, EpochBound DEF SessionInv, TypeInv, EpochTypes
  <2> QED
    BY <1>1, <2>1, <2>2, ApplyKeeps
<1> QED
  BY <1>3, <1>4

\* The session stops to retire a device when nothing that was begun for it is
\* left, and decides whether the drive may be used.
LEMMA GateKeeps == ASSUME SessionInv, Gate PROVE SessionInv'
<1>1. /\ at = "gate" /\ at' = "request" /\ retiring' = (retiring /\ ~Retired)
      /\ mayAccess' = (~retiring' /\ DeviceCurrent /\ capture = "idle")
      /\ UNCHANGED <<device, contextReady, probeAttempted, probeFinished, capture, popped>>
  BY DEF Gate
<1>2. /\ UNCHANGED <<playVars, observedEmpty, loaded, needsRefresh, tocPending, ejectPending, ejectInflight, media, emptyIn>>
      /\ UNCHANGED <<pending, observed, task, stage, executed, outcome, spoilt, results, closing>>
      /\ UNCHANGED <<playback, pcm, generation, permitted, drive, tray>>
  BY DEF Gate, discVars, playVars, workerVars, requestVars, epochVars, worldVars
<1>3. popped = <<>>
  BY <1>1, NothingInHand
<1>4. retiring' \in BOOLEAN /\ mayAccess' \in BOOLEAN
  BY <1>1
<1>5. PlaceTypes' /\ OneRequest' /\ GateInv'
  BY <1>1, <1>2, <1>3 DEF SessionInv, TypeInv, PlaceTypes, Places, OneRequest, GateInv
<1>6. FlagTypes'
  BY <1>1, <1>2, <1>4 DEF SessionInv, TypeInv, FlagTypes
<1>7. OldDeviceIsGone'
  <2>1. CASE retiring
    <3>1. ~retiring' => ~pcm.open /\ pcm.call = "none" /\ ~M!Retiring
      BY <1>1, <2>1 DEF Retired, Released
    <3> QED
      BY <1>2, <3>1 DEF OldDeviceIsGone, M!Retiring, M!Busy
  <2>2. CASE ~retiring
    BY <1>1, <1>2, <2>2 DEF SessionInv, OldDeviceIsGone, M!Retiring, M!Busy
  <2> QED
    BY <2>1, <2>2
<1> QED
  BY <1>1, <1>2, <1>5, <1>6, <1>7, EpochKept, PlayKept, WorkerKept, RequestKept, AloneKept, StreamKept, DiscKept
     DEF SessionInv, TypeInv

-----------------------------------------------------------------------------
(* The session: the engine and commands.                                   *)

\* While the device is the current one and is not retiring, an eject that is
\* on its way is one the session waits for.
LEMMA EjectIsKnown ==
    ASSUME SessionInv, DeviceCurrent, ~retiring, media # "ejecting"
    PROVE  pending.work # "eject" /\ task.work # "eject"
<1>1. ~Coming("eject")
  BY DEF SessionInv, RequestInv
<1>2. task.work = "eject" => task.gen = device
  <2>1. ~M!Retiring /\ WorkerTypes /\ observed = device
    BY DEF SessionInv, OldDeviceIsGone, TypeInv, EpochTypes
  <2>2. task.work = "eject" => stage # "idle"
    BY <2>1, WorksAreNone DEF WorkerTypes
  <2> QED
    BY <2>1, <2>2, WorkerIdle
<1> QED
  BY <1>1, <1>2 DEF Coming

\* When a stream may be started.
MayStart == pending.work # "eject" /\ task.work # "eject" /\ media # "ejecting" /\ capture' = "idle"

\* What a command, or the engine, does to playback and to a capture.
Command ==
    /\ UNCHANGED <<epochVars, contextVars, discVars, mayAccess, popped, workerVars, worldVars>>
    /\ at \notin {"handle", "ended"} /\ at' \in Places \ {"request", "handle"}
    /\ PlayMoved /\ (Started => MayStart \/ UNCHANGED playVars)
    /\ playback' = "no_disc" <=> playback = "no_disc"
    /\ capture' \in {"idle", "busy", "releasing"}
    /\ capture' # "idle" => capture # "idle" \/ (CanCapture /\ UNCHANGED playVars)

\* A playback command keeps the invariant.
LEMMA CommandKeeps == ASSUME SessionInv, Command PROVE SessionInv'
<1>1. /\ UNCHANGED <<generation, permitted, device, contextReady, retiring, probeAttempted, probeFinished>>
      /\ UNCHANGED <<media, observedEmpty, loaded, needsRefresh, tocPending, ejectPending, ejectInflight, emptyIn>>
      /\ UNCHANGED <<mayAccess, popped, tray, drive>>
      /\ UNCHANGED <<pending, observed, task, stage, executed, outcome, spoilt, results, closing>>
  BY DEF Command, epochVars, contextVars, discVars, workerVars, requestVars, worldVars
<1>2. popped = <<>> /\ at' \in Places \ {"request", "handle"} /\ capture' \in {"idle", "busy", "releasing"}
  BY NothingInHand DEF Command
<1>3. PlaceTypes' /\ OneRequest' /\ GateInv'
  BY <1>1, <1>2 DEF SessionInv, TypeInv, PlaceTypes, OneRequest, GateInv
<1>4. PlayTypes' /\ StreamFollowsIntent' /\ SameReader(pcm, pcm')
  BY PlayMovedKeeps DEF Command
<1>5. AloneInv'
  <2>1. CASE UNCHANGED playVars \/ Ended
    <3>1. ASSUME pending.work = "eject" \/ task.work = "eject" PROVE (NoReader /\ Silent /\ capture = "idle")'
      <4>1. NoReader /\ Silent /\ capture = "idle"
        BY <3>1 DEF SessionInv, AloneInv
      <4>2. ~CanCapture
        <5>1. ASSUME CanCapture PROVE FALSE
          <6>1. DeviceCurrent /\ ~retiring /\ media = "audio_ready"
            BY <5>1 DEF CanCapture, ContextCurrent
          <6> QED
            BY <3>1, <6>1, EjectIsKnown
        <5> QED
          BY <5>1
      <4> QED
        BY <2>1, <4>1, <4>2, NoReaderKept, SilentKept DEF Command
    <3>2. ASSUME capture' # "idle" PROVE (NoReader /\ Silent /\ M!Idle)'
      <4>1. NoReader /\ Silent /\ M!Idle
        <5>1. CASE capture # "idle"
          BY <5>1 DEF SessionInv, AloneInv
        <5>2. CASE CanCapture
          BY <5>2 DEF CanCapture, Released, NoReader, Silent
        <5> QED
          BY <3>2, <5>1, <5>2 DEF Command
      <4> QED
        BY <1>1, <2>1, <4>1, NoReaderKept, SilentKept DEF M!Idle, M!Busy
    <3>3. media' = "ejecting" => Silent'
      BY <1>1, <2>1, SilentKept DEF SessionInv, AloneInv
    <3> QED
      BY <1>1, <3>1, <3>2, <3>3 DEF AloneInv
  <2>2. CASE Started /\ MayStart
    BY <1>1, <2>2 DEF AloneInv, MayStart
  <2> QED
    BY <2>1, <2>2 DEF Command, PlayMoved
<1>6. OldDeviceIsGone'
  <2>1. M!Retiring' <=> M!Retiring
    BY <1>1 DEF M!Retiring, M!Busy
  <2> QED
    BY <1>1, <1>4, <2>1, OldFollows DEF SessionInv
<1>7. DiscInv'
  <2>1. (playback' = "no_disc" <=> playback = "no_disc") /\ at # "ended"
    BY DEF Command
  <2> QED
    BY <1>1, <2>1 DEF SessionInv, DiscInv, DiscIsLoaded
<1> QED
  BY <1>1, <1>3, <1>4, <1>5, <1>6, <1>7, EpochKept, FlagKept, WorkerKept, RequestKept DEF SessionInv, TypeInv

\* What is driven may start again: no eject and no capture is under way.
LEMMA DrivenIsAlone ==
    ASSUME SessionInv, pcm.driven
    PROVE  playback = "playing" /\ capture = "idle" /\ pending.work # "eject" /\ task.work # "eject" /\ media # "ejecting"
BY DEF SessionInv, StreamFollowsIntent, AloneInv, Silent

\* The engine ticks.
LEMMA TickKeeps == ASSUME SessionInv, Tick PROVE SessionInv'
<1>1. at = "tick" /\ at' = "serve" /\ at' \in Places \ {"request", "handle"}
  BY DEF Tick, Places
<1>2. capture \in {"idle", "busy", "releasing"} /\ pcm \in PcmStates
  BY DEF SessionInv, TypeInv, PlaceTypes, PlayTypes
<1>3. CASE TickOn
  <2>1. UNCHANGED <<epochVars, contextVars, discVars, mayAccess, popped, workerVars, worldVars, playVars, capture, playback>>
    BY <1>3 DEF TickOn, tickFrame, sessionVars, playVars
  <2> QED
    BY <1>1, <1>2, <2>1, CommandKeeps DEF Command, PlayMoved
<1>4. CASE TickDone
  <2>1. UNCHANGED <<epochVars, contextVars, discVars, mayAccess, popped, workerVars, worldVars, capture>>
    BY <1>4 DEF TickDone
  <2>2. playback = "playing" /\ ((Ended /\ playback' = "stopped") \/ UNCHANGED <<playVars, playback>>)
    <3>1. CASE Follow("stopped")
      BY <1>4, <3>1, FollowMoves, DrivenIsAlone DEF TickDone, Follow
    <3> QED
      BY <1>4, <3>1, DrivenIsAlone DEF TickDone, playVars
  <2>3. ~(Started /\ Ended)
    BY DEF Started, Ended
  <2> QED
    BY <1>1, <1>2, <2>1, <2>2, <2>3, CommandKeeps DEF Command, PlayMoved
<1>5. CASE \/ TickOutputFails
           \/ TickReadFails /\ ~DeviceCurrent
  <2> DEFINE d == Discarded(pcm)
  <2>1. /\ playback = "playing" /\ playback' = "stopped" /\ pcm' = [d EXCEPT !.driven = FALSE]
        /\ UNCHANGED <<contextVars, discVars, mayAccess, popped, workerVars, worldVars, capture>>
    BY <1>5, DrivenIsAlone DEF TickOutputFails, TickReadFails
  <2>2. UNCHANGED epochVars
    BY <1>5 DEF TickOutputFails, TickReadFails
  <2>3. d \in PcmStates /\ SameReader(pcm, d) /\ d.active = FALSE
    BY <1>2, StreamGivenUp
  <2> HIDE DEF d
  <2>4. pcm' \in PcmStates /\ SameReader(pcm, pcm') /\ pcm'.active = FALSE /\ pcm'.driven = FALSE
    BY <2>1, <2>3 DEF PcmStates, SameReader
  <2>5. Ended /\ ~Started
    BY <2>1, <2>4 DEF Ended, Started, Silent
  <2> QED
    BY <1>1, <1>2, <2>1, <2>2, <2>5, CommandKeeps DEF Command, PlayMoved
<1>6. CASE TickRecovers
  <2> DEFINE d == Discarded(pcm)
  <2>1. /\ playback = "playing" /\ playback' = playback /\ pcm' = [d EXCEPT !.active = TRUE]
        /\ pcm.driven
        /\ UNCHANGED <<epochVars, contextVars, discVars, mayAccess, popped, workerVars, worldVars, capture>>
    BY <1>6, DrivenIsAlone DEF TickRecovers
  <2>2. d \in PcmStates /\ SameReader(pcm, d) /\ d.driven = TRUE
    BY <1>2, <2>1, StreamGivenUp DEF PcmStates
  <2> HIDE DEF d
  <2>3. pcm' \in PcmStates /\ SameReader(pcm, pcm') /\ pcm'.active = TRUE /\ pcm'.driven = TRUE
    BY <2>1, <2>2 DEF PcmStates, SameReader
  <2>4. Started /\ MayStart
    BY <2>1, <2>3, DrivenIsAlone DEF Started, MayStart
  <2> QED
    BY <1>1, <1>2, <2>1, <2>4, CommandKeeps DEF Command, PlayMoved
<1>7. CASE TickReadFails /\ DeviceCurrent
  <2>1. /\ generation < MaxObservations /\ generation' = generation + 1 /\ permitted' = permitted
        /\ ApplyObservation(generation + 1) /\ UNCHANGED <<mayAccess, popped, worldVars>>
    BY <1>7 DEF TickReadFails
  <2>2. device < generation' /\ generation' \in 0..MaxObservations /\ permitted' \in BOOLEAN
    BY <1>7, <2>1, EpochBound DEF SessionInv, TypeInv, EpochTypes
  <2>3. ApplyObservation(generation')
    BY <2>1
  <2> QED
    BY <1>1, <2>1, <2>2, <2>3, ApplyKeeps
<1> QED
  BY <1>3, <1>4, <1>5, <1>6, <1>7 DEF Tick

\* A command that is accepted, whether its reset throws, and whether that ends
\* the daemon or not.
LEMMA ControlKeeps ==
    ASSUME SessionInv, NEW intent \in Intents, Accepts(intent),
           Follow(intent) \/ FollowFails(intent) \/ FollowFails("stopped"),
           UNCHANGED <<contextVars, discVars, mayAccess, epochVars, popped, workerVars, worldVars>>,
           at \notin {"handle", "ended"}, at' \in Places \ {"request", "handle"}
    PROVE  SessionInv'
<1>1. PICK command \in {"play", "pause", "stop", "skip"} :
          Interrupting(command) /\ Allowed(command) /\ intent \in CommandIntents(command)
  BY DEF Accepts
<1>2. capture' \in {"idle", "busy", "releasing"} /\ (capture = "idle" => capture' = "idle")
  BY <1>1, InterruptedMeans DEF SessionInv, TypeInv, PlaceTypes, Interrupting
<1>3. playback # "no_disc" /\ media # "ejecting" /\ playback \in {"stopped", "playing", "paused"}
  BY <1>1 DEF Allowed, SessionInv, TypeInv, PlayTypes
<1>4. /\ intent = "playing" => command \in {"play", "skip"}
      /\ intent = "paused" => playback \in {"playing", "paused"}
  <2>1. CASE command = "play"
    BY <1>1, <2>1 DEF CommandIntents
  <2>2. CASE command = "pause"
    BY <1>1, <2>2 DEF CommandIntents
  <2>3. CASE command = "stop"
    BY <1>1, <2>3 DEF CommandIntents
  <2>4. CASE command = "skip"
    BY <1>1, <1>3, <2>4 DEF CommandIntents
  <2> QED
    BY <1>1, <2>1, <2>2, <2>3, <2>4
<1>5. ASSUME Ended, playback' # "no_disc" PROVE SessionInv'
  <2>1. ~Started
    BY <1>5 DEF Started, Ended
  <2> QED
    BY <1>2, <1>3, <1>5, <2>1, CommandKeeps DEF Command, PlayMoved
<1>6. CASE FollowFails("stopped")
  <2>1. Ended /\ playback' = "stopped"
    BY <1>6, FollowMoves DEF FollowFails
  <2> QED
    BY <1>5, <2>1
<1>7. CASE Follow(intent) \/ FollowFails(intent)
  <2>1. playback' = intent
    BY <1>7 DEF Follow, FollowFails
  <2>2. CASE intent = "playing"
    <3>1. Started
      BY <1>7, <2>2, FollowMoves
    <3>2. DeviceCurrent /\ ~retiring /\ capture' = "idle"
      BY <1>1, <1>4, <2>2 DEF Allowed, ContextCurrent, Interrupting
    <3>3. MayStart
      BY <1>3, <3>2, EjectIsKnown DEF MayStart
    <3> QED
      BY <1>2, <1>3, <2>1, <2>2, <3>1, <3>3, CommandKeeps DEF Command, PlayMoved
  <2>3. CASE intent \in {"paused", "stopped"}
    <3>1. Ended
      BY <1>4, <1>7, <2>3, FollowMoves
    <3> QED
      BY <1>5, <2>1, <2>3, <3>1
  <2> QED
    BY <2>2, <2>3 DEF Intents
<1> QED
  BY <1>6, <1>7

\* An eject is asked for: playback stops, and from now on nothing starts.
LEMMA EjectKeeps ==
    ASSUME SessionInv, Eject, UNCHANGED <<mayAccess, epochVars, popped, workerVars, worldVars>>,
           at \notin {"handle", "ended"}, at' \in Places \ {"request", "handle"}
    PROVE  SessionInv'
<1>1. /\ UNCHANGED <<generation, permitted, device, contextReady, retiring, probeAttempted, probeFinished>>
      /\ UNCHANGED <<observedEmpty, loaded, needsRefresh, emptyIn, mayAccess, popped, tray, drive>>
      /\ UNCHANGED <<pending, observed, task, stage, executed, outcome, spoilt, results, closing>>
  BY DEF Eject, epochVars, contextVars, workerVars, requestVars, worldVars
<1>2. /\ capture' = "idle" /\ media # "ejecting" /\ media' = "ejecting" /\ DeviceCurrent /\ ~retiring
      /\ ejectPending' = TRUE /\ ejectInflight' = FALSE /\ tocPending' = FALSE
  BY DEF Eject, MayEject, Interrupting, ContextCurrent
<1>3. popped = <<>>
  BY NothingInHand
<1>4. Ended /\ (playback' = "no_disc" <=> playback = "no_disc")
  <2> DEFINE s == Synchronized(pcm, playback')
  <2>1. pcm \in PcmStates /\ playback' = (IF playback = "no_disc" THEN "no_disc" ELSE "stopped") /\ pcm' = Discarded(s)
    BY DEF SessionInv, TypeInv, PlayTypes, Eject, Stopped
  <2>2. s \in PcmStates /\ SameReader(pcm, s) /\ s.driven = FALSE
    BY <2>1, StreamSynchronized
  <2> HIDE DEF s
  <2>3. pcm' \in PcmStates /\ SameReader(s, pcm') /\ pcm'.active = FALSE /\ pcm'.driven = FALSE
    BY <2>1, <2>2, StreamGivenUp
  <2>4. SameReader(pcm, pcm')
    BY <2>2, <2>3 DEF SameReader
  <2> QED
    BY <2>1, <2>3, <2>4 DEF Ended, Silent
<1>5. pending.work # "eject" /\ task.work # "eject" /\ ~Coming("eject")
  BY <1>2, EjectIsKnown DEF SessionInv, RequestInv
<1>6. PlaceTypes' /\ OneRequest' /\ GateInv'
  BY <1>1, <1>2, <1>3 DEF SessionInv, TypeInv, PlaceTypes, OneRequest, GateInv
<1>7. FlagTypes'
  BY <1>1, <1>2 DEF SessionInv, TypeInv, FlagTypes, MediaStates
<1>8. PlayTypes' /\ StreamFollowsIntent' /\ SameReader(pcm, pcm')
  BY <1>4, PlayMovedKeeps DEF PlayMoved
<1>9. RequestInv'
  <2>1. Delivered' /\ ~Coming("eject")'
    BY <1>1, <1>5 DEF SessionInv, RequestInv, Delivered, Coming, DeviceCurrent
  <2>2. DeviceCurrent' /\ probeAttempted' /\ ~probeFinished' => Coming("probe_drive")'
    BY <1>1 DEF SessionInv, RequestInv, Coming, DeviceCurrent
  <2> QED
    BY <1>2, <2>1, <2>2 DEF RequestInv
<1>10. AloneInv'
  BY <1>1, <1>2, <1>4, <1>5 DEF AloneInv, Ended, Silent, Eject, Stopped
<1>11. OldDeviceIsGone'
  <2>1. M!Retiring' <=> M!Retiring
    BY <1>1 DEF M!Retiring, M!Busy
  <2> QED
    BY <1>1, <1>8, <2>1, OldFollows DEF SessionInv
<1>12. DiscInv'
  BY <1>1, <1>2, <1>4 DEF SessionInv, DiscInv, DiscIsLoaded
<1> QED
  BY <1>1, <1>6, <1>7, <1>8, <1>9, <1>10, <1>11, <1>12, EpochKept, WorkerKept DEF SessionInv, TypeInv

\* An eject whose reset throws only stops.
LEMMA EjectFailsKeeps ==
    ASSUME SessionInv, EjectFails, UNCHANGED <<mayAccess, epochVars, popped, workerVars, worldVars>>,
           at \notin {"handle", "ended"}, at' \in Places \ {"request", "handle"}
    PROVE  SessionInv'
<1>1. /\ UNCHANGED <<contextVars, discVars>> /\ capture' = "idle"
      /\ FollowFails(Stopped) /\ playback' = Stopped /\ Stopped \in {"no_disc", "stopped"}
      /\ Stopped = "no_disc" <=> playback = "no_disc"
  BY DEF EjectFails, MayEject, Interrupting, FollowFails, Stopped
<1>2. Ended
  BY <1>1, FollowMoves
<1>3. ~Started
  BY <1>1 DEF Started
<1> QED
  BY <1>1, <1>2, <1>3, CommandKeeps DEF Command, PlayMoved

\* Commands that arrive from the network, and those that arrive after the poll.
LEMMA ServeKeeps == ASSUME SessionInv, Serve \/ Input PROVE SessionInv'
<1>1. /\ UNCHANGED <<mayAccess, epochVars, popped, workerVars, worldVars>>
      /\ at \notin {"handle", "ended"} /\ at' \in Places \ {"request", "handle"}
  BY DEF Serve, Input, Places
<1>2. CASE Control \/ ControlFails
  BY <1>1, <1>2, ControlKeeps DEF Control, ControlFails
<1>5. CASE EjectFails
  BY <1>1, <1>5, EjectFailsKeeps
<1>3. CASE Eject
  BY <1>1, <1>3, EjectKeeps
<1>4. CASE Refuse \/ StartCapture \/ UNCHANGED sessionVars
  <2>1. UNCHANGED <<contextVars, discVars, playVars, playback>>
    BY <1>4 DEF Refuse, StartCapture, sessionVars, playVars
  <2>2. /\ capture' \in {"idle", "busy", "releasing"}
        /\ capture' # "idle" => capture # "idle" \/ CanCapture
    BY <1>4, InterruptedMeans DEF Refuse, StartCapture, sessionVars, SessionInv, TypeInv, PlaceTypes
  <2> QED
    BY <1>1, <2>1, <2>2, CommandKeeps DEF Command, PlayMoved
<1> QED
  BY <1>2, <1>3, <1>4, <1>5 DEF Serve, Input

-----------------------------------------------------------------------------
(* The session: requests to the media worker.                              *)

\* A request that is made when nothing is asked for.
LEMMA RequestMade ==
    ASSUME SessionInv, NEW work \in PlainWorks, M!Request(work), UNCHANGED <<popped, device>>, popped = <<>>
    PROVE  /\ UNCHANGED <<observed, task, stage, executed, outcome, spoilt, results, closing>>
           /\ stage = "idle" /\ task = M!NoTask /\ pending'.work = work
           /\ WorkerTypes' /\ OneRequest' /\ Delivered' /\ M!Idle
           /\ \A w \in PlainWorks : ~Coming(w) /\ (Coming(w)' <=> w = work)
<1>1. /\ M!Idle /\ pending' = [work |-> work, job |-> 0]
      /\ UNCHANGED <<observed, task, stage, executed, outcome, spoilt, results, closing>>
  BY DEF M!Request, M!runVars
<1>2. stage = "idle" /\ pending = M!Nothing /\ results = <<>> /\ WorkerTypes
  BY <1>1, WorkerIdle DEF SessionInv, TypeInv
<1>3. task = M!NoTask /\ pending' \in Requests /\ pending'.work = work
  BY <1>1, <1>2 DEF WorkerTypes, Requests
<1>4. WorkerTypes'
  BY <1>1, <1>2, <1>3 DEF WorkerTypes
<1>5. OneRequest' /\ Delivered'
  BY <1>1, <1>2 DEF OneRequest, Delivered
<1>6. ASSUME NEW w \in PlainWorks PROVE ~Coming(w) /\ (Coming(w)' <=> w = work)
  BY <1>1, <1>2, <1>3, WorksAreNone DEF Coming
<1> QED
  BY <1>1, <1>2, <1>3, <1>4, <1>5, <1>6

\* The session asks for a probe, an eject or the drive to stop, or for nothing.
LEMMA RequestKeeps == ASSUME SessionInv, RequestMedia PROVE SessionInv'
<1>1. at = "request" /\ at' = "results" /\ UNCHANGED requestFrame
  BY DEF RequestMedia
<1>2. /\ UNCHANGED <<device, contextReady, retiring, probeFinished, media, observedEmpty, loaded, needsRefresh>>
      /\ UNCHANGED <<tocPending, emptyIn, playVars, playback, pcm, capture, mayAccess, popped, drive, tray>>
      /\ UNCHANGED <<generation, permitted>>
  BY <1>1 DEF requestFrame, playVars, epochVars, worldVars
<1>3. popped = <<>> /\ popped' = <<>> /\ (mayAccess => capture = "idle")
  BY <1>1, <1>2, NothingInHand DEF SessionInv, GateInv
<1>4. PlaceTypes' /\ GateInv' /\ PlayTypes' /\ StreamFollowsIntent' /\ DiscInv'
  BY <1>1, <1>2, <1>3, PlayKept, StreamKept, DiscKept DEF SessionInv, TypeInv, PlaceTypes, Places, GateInv
<1>5. DeviceCurrent' <=> DeviceCurrent
  BY <1>2 DEF DeviceCurrent
<1>6. CASE RequestNothing
  <2>1. UNCHANGED <<probeAttempted, ejectPending, ejectInflight>>
        /\ UNCHANGED <<pending, observed, task, stage, executed, outcome, spoilt, results, closing>>
    BY <1>6 DEF RequestNothing, workerVars, requestVars
  <2>2. OneRequest'
    BY <1>1, <1>2, <1>3, <2>1 DEF SessionInv, OneRequest
  <2> QED
    BY <1>2, <1>4, <2>1, <2>2, EpochKept, FlagKept, WorkerKept, RequestKept, AloneKept, OldKept DEF SessionInv, TypeInv
<1>7. ASSUME NEW work \in PlainWorks, M!Request(work), mayAccess, ejectPending' \in BOOLEAN, ejectInflight' \in BOOLEAN,
             probeAttempted' \in BOOLEAN, work = "eject" => NoReader /\ Silent,
             DeviceCurrent /\ ejectInflight' => ejectInflight \/ work = "eject",
             DeviceCurrent /\ probeAttempted' => probeAttempted \/ work = "probe_drive",
             work = "eject" => ejectInflight',
             ~(ejectPending' /\ ejectInflight'),
             media = "ejecting" <=> (ejectPending' \/ ejectInflight')
      PROVE  SessionInv'
  <2>1. /\ UNCHANGED <<observed, task, stage, executed, outcome, spoilt, results, closing>>
        /\ stage = "idle" /\ task = M!NoTask /\ pending'.work = work
        /\ WorkerTypes' /\ OneRequest' /\ Delivered'
        /\ \A w \in PlainWorks : ~Coming(w) /\ (Coming(w)' <=> w = work)
    BY <1>2, <1>3, <1>7, RequestMade
  <2>2. /\ ~Coming("read_toc") /\ ~Coming("eject") /\ ~Coming("probe_drive")
        /\ Coming("eject")' <=> work = "eject"
        /\ Coming("probe_drive")' <=> work = "probe_drive"
    BY <2>1, WorksAreNone
  <2>3. /\ ~(DeviceCurrent /\ tocPending) /\ ~(DeviceCurrent /\ ejectInflight)
        /\ ~(DeviceCurrent /\ probeAttempted /\ ~probeFinished)
    BY <2>2 DEF SessionInv, RequestInv
  <2>4. RequestInv'
    <3>1. (DeviceCurrent /\ tocPending => Coming("read_toc"))'
      BY <1>2, <1>5, <2>3
    <3>2. (DeviceCurrent /\ ejectInflight => Coming("eject"))'
      BY <1>5, <1>7, <2>2, <2>3
    <3>3. (DeviceCurrent /\ probeAttempted /\ ~probeFinished => Coming("probe_drive"))'
      BY <1>2, <1>5, <1>7, <2>2, <2>3
    <3>4. (Coming("eject") => ejectInflight)'
      BY <1>7, <2>2
    <3>5. (~(ejectPending /\ ejectInflight))' /\ (media = "ejecting" <=> (ejectPending \/ ejectInflight))'
      BY <1>2, <1>7
    <3> QED
      BY <2>1, <3>1, <3>2, <3>3, <3>4, <3>5 DEF RequestInv
  <2>5. FlagTypes' /\ EpochTypes'
    BY <1>2, <1>7, <2>1 DEF SessionInv, TypeInv, FlagTypes, EpochTypes
  <2>6. AloneInv'
    <3>1. capture' = "idle" /\ task'.work # "eject"
      BY <1>2, <1>3, <1>7, <2>1, WorksAreNone
    <3> QED
      BY <1>2, <1>7, <2>1, <3>1 DEF SessionInv, AloneInv, NoReader, Silent
  <2>7. OldDeviceIsGone'
    BY <1>2, <2>1, OldKept DEF SessionInv
  <2> QED
    BY <1>4, <2>1, <2>4, <2>5, <2>6, <2>7 DEF SessionInv, TypeInv
<1>8. FlagTypes /\ RequestInv /\ AloneInv
  BY DEF SessionInv, TypeInv
<1>9. CASE RequestProbe
  <2>1. /\ M!Request("probe_drive") /\ mayAccess /\ probeAttempted' = TRUE /\ ejectPending' = ejectPending
        /\ ejectInflight' = ejectInflight
    BY <1>9 DEF RequestProbe, CanProbe
  <2>2. /\ ejectPending' \in BOOLEAN /\ ejectInflight' \in BOOLEAN /\ probeAttempted' \in BOOLEAN
        /\ ~(ejectPending' /\ ejectInflight') /\ (media = "ejecting" <=> (ejectPending' \/ ejectInflight'))
    BY <1>8, <2>1 DEF FlagTypes, RequestInv
  <2> QED
    BY <1>7, <2>1, <2>2, WorksAreNone
<1>10. CASE RequestEject
  <2>1. /\ M!Request("eject") /\ mayAccess /\ ejectPending /\ Released(pcm) /\ ejectPending' = FALSE
        /\ ejectInflight' = TRUE /\ probeAttempted' = probeAttempted
    BY <1>10 DEF RequestEject, CanEject
  <2>2. media = "ejecting" /\ NoReader /\ Silent
    BY <1>8, <2>1 DEF RequestInv, AloneInv, Released, NoReader
  <2>3. probeAttempted' \in BOOLEAN
    BY <1>8, <2>1 DEF FlagTypes
  <2> QED
    BY <1>7, <2>1, <2>2, <2>3, WorksAreNone
<1>11. CASE RequestStop
  <2>1. /\ M!Request("stop_drive") /\ mayAccess /\ probeAttempted' = probeAttempted /\ ejectPending' = ejectPending
        /\ ejectInflight' = ejectInflight
    BY <1>11 DEF RequestStop, CanStopDrive
  <2>2. /\ ejectPending' \in BOOLEAN /\ ejectInflight' \in BOOLEAN /\ probeAttempted' \in BOOLEAN
        /\ ~(ejectPending' /\ ejectInflight') /\ (media = "ejecting" <=> (ejectPending' \/ ejectInflight'))
    BY <1>8, <2>1 DEF FlagTypes, RequestInv
  <2> QED
    BY <1>7, <2>1, <2>2, WorksAreNone
<1> QED
  BY <1>6, <1>9, <1>10, <1>11 DEF RequestMedia

\* The capture is polled, then perhaps the media.
LEMMA PollKeeps == ASSUME SessionInv, PollMedia PROVE SessionInv'
<1>1. at = "poll" /\ at' = "input" /\ UNCHANGED <<contextVars, discVars, playVars, mayAccess, epochVars, popped, worldVars>>
  BY DEF PollMedia
<1>2. /\ UNCHANGED <<device, contextReady, retiring, probeAttempted, probeFinished, media, observedEmpty, loaded>>
      /\ UNCHANGED <<needsRefresh, tocPending, ejectPending, ejectInflight, emptyIn, playback, pcm, drive, tray>>
      /\ UNCHANGED <<generation, permitted, mayAccess, popped, playVars>>
  BY <1>1 DEF contextVars, discVars, playVars, epochVars, worldVars
<1>3. popped = <<>> /\ popped' = <<>>
  BY <1>1, <1>2, NothingInHand
<1>4. capture' \in {"idle", "busy", "releasing"} /\ (capture' # "idle" => capture # "idle")
  BY DEF PollMedia, CapturePolled, SessionInv, TypeInv, PlaceTypes
<1>5. CASE UNCHANGED workerVars
  <2>1. at \notin {"handle", "ended"} /\ at' \in Places \ {"request", "handle"}
    BY <1>1 DEF Places
  <2> QED
    BY <1>1, <1>2, <1>4, <1>5, <2>1, CommandKeeps DEF Command, PlayMoved
<1>6. CASE MayPoll(capture' # "idle") /\ M!Request("observe")
  <2>1. capture' = "idle"
    BY <1>6 DEF MayPoll
  <2>2. /\ UNCHANGED <<observed, task, stage, executed, outcome, spoilt, results, closing>>
        /\ stage = "idle" /\ task = M!NoTask /\ pending'.work = "observe"
        /\ WorkerTypes' /\ OneRequest' /\ Delivered'
        /\ \A w \in PlainWorks : ~Coming(w) /\ (Coming(w)' <=> w = "observe")
    BY <1>2, <1>3, <1>6, WorksAreNone, RequestMade
  <2>3. PlaceTypes' /\ GateInv' /\ PlayTypes' /\ StreamFollowsIntent' /\ DiscInv' /\ EpochTypes' /\ FlagTypes'
    BY <1>1, <1>2, <1>3, <2>1, <2>2, EpochKept, FlagKept, PlayKept, StreamKept, DiscKept
       DEF SessionInv, TypeInv, PlaceTypes, Places, GateInv
  <2>4. RequestInv'
    <3>1. ~Coming("read_toc") /\ ~Coming("eject") /\ ~Coming("probe_drive") /\ ~Coming("eject")'
      BY <2>2, WorksAreNone
    <3>2. DeviceCurrent' => DeviceCurrent
      BY <1>2 DEF DeviceCurrent
    <3> QED
      BY <1>2, <2>2, <3>1, <3>2, RequestFollows DEF SessionInv
  <2>5. AloneInv'
    BY <1>2, <2>1, <2>2, WorksAreNone DEF SessionInv, AloneInv, Silent
  <2>6. OldDeviceIsGone'
    BY <1>2, <2>2, OldKept DEF SessionInv
  <2> QED
    BY <2>2, <2>3, <2>4, <2>5, <2>6 DEF SessionInv, TypeInv
<1> QED
  BY <1>5, <1>6 DEF PollMedia

-----------------------------------------------------------------------------
(* The session: results of the media worker.                               *)

\* A result is taken in hand.
LEMMA PopKeeps == ASSUME SessionInv, PopResult PROVE SessionInv'
<1>1. /\ at = "results" /\ at' \in {"tick", "handle"} /\ mayAccess' \in {mayAccess, FALSE}
      /\ UNCHANGED <<contextVars, discVars, playVars, capture, epochVars, worldVars>>
  BY DEF PopResult
<1>2. /\ UNCHANGED <<device, contextReady, retiring, probeAttempted, probeFinished, media, observedEmpty, loaded>>
      /\ UNCHANGED <<needsRefresh, tocPending, ejectPending, ejectInflight, emptyIn, playback, pcm, drive, tray>>
      /\ UNCHANGED <<generation, permitted, playVars, capture>>
  BY <1>1 DEF contextVars, discVars, playVars, epochVars, worldVars
<1>3. popped = <<>>
  BY <1>1, NothingInHand
<1>4. /\ PlaceTypes' /\ FlagTypes' /\ PlayTypes' /\ StreamFollowsIntent' /\ DiscInv'
  <2>1. FlagTypes'
    BY <1>1, <1>2 DEF SessionInv, TypeInv, FlagTypes
  <2> QED
    BY <1>1, <1>2, <2>1, PlayKept, StreamKept, DiscKept DEF SessionInv, TypeInv, PlaceTypes, Places
<1>5. CASE results = <<>>
  <2>1. UNCHANGED <<pending, observed, task, stage, executed, outcome, spoilt, results, closing, popped>> /\ at' = "tick"
    BY <1>5 DEF PopResult, workerVars, requestVars
  <2>2. OneRequest' /\ GateInv'
    BY <1>3, <2>1 DEF SessionInv, OneRequest, GateInv
  <2> QED
    BY <1>2, <1>4, <2>1, <2>2, EpochKept, WorkerKept, RequestKept, AloneKept, OldKept DEF SessionInv, TypeInv
<1>6. CASE results # <<>>
  <2>1. /\ at' = "handle" /\ popped' = <<Head(results)>> /\ results' = Tail(results)
        /\ UNCHANGED <<pending, observed, task, stage, executed, outcome, spoilt, closing>>
    BY <1>6 DEF PopResult, M!Pop, M!requestVars, M!runVars
  <2>2. results \in Seq(Results) /\ Len(results) = 1 /\ results[1].gen = device
    BY <1>6 DEF SessionInv, TypeInv, WorkerTypes
  <2>3. Head(results) = results[1] /\ results[1] \in Results /\ Tail(results) = <<>>
    <3>1. Tail(results) \in Seq(Results) /\ Len(Tail(results)) = 0
      BY <1>6, <2>2, HeadTailProperties
    <3> QED
      BY <1>6, <2>2, <3>1, HeadTailProperties, EmptySeq, ElementOfSeq
  <2> DEFINE r == results[1]
  <2>4. r \in Results /\ popped' = <<r>> /\ results' = <<>> /\ r.gen = device
    BY <2>1, <2>2, <2>3
  <2> HIDE DEF r
  <2>5. popped' \in Seq(Results) /\ Len(popped') = 1 /\ popped'[1] = r /\ popped' # <<>>
    BY <2>4
  <2>6. pending = M!Nothing /\ stage = "idle" /\ task = M!NoTask
    BY <1>6 DEF SessionInv, OneRequest, TypeInv, WorkerTypes
  <2>7. WorkerTypes'
    BY <1>2, <2>1, <2>4, <2>5, EmptySeq DEF SessionInv, TypeInv, WorkerTypes
  <2>8. OneRequest'
    BY <2>1, <2>4, <2>6 DEF OneRequest
  <2>9. capture = "idle"
    BY <1>6 DEF SessionInv, AloneInv, M!Idle
  <2>10. GateInv'
    BY <1>2, <2>1, <2>9 DEF GateInv
  <2>11. RequestInv'
    <3>1. \A w : Coming(w)' <=> Coming(w)
      BY <1>3, <1>6, <2>1, <2>4, <2>5, <1>2 DEF Coming, r
    <3>2. Delivered' /\ (DeviceCurrent' <=> DeviceCurrent)
      BY <1>2, <2>1, <2>6 DEF Delivered, DeviceCurrent
    <3>3. (Coming("read_toc")' <=> Coming("read_toc")) /\ (Coming("eject")' <=> Coming("eject"))
          /\ (Coming("probe_drive")' <=> Coming("probe_drive"))
      BY <3>1
    <3> QED
      BY <1>2, <3>2, <3>3, RequestFollows DEF SessionInv
  <2>12. AloneInv'
    BY <1>2, <2>1, <2>9 DEF SessionInv, AloneInv, NoReader, Silent
  <2>13. OldDeviceIsGone' /\ EpochTypes'
    BY <1>2, <2>1, OldKept, EpochKept DEF SessionInv, TypeInv
  <2> QED
    BY <1>4, <2>7, <2>8, <2>10, <2>11, <2>12, <2>13 DEF SessionInv, TypeInv
<1> QED
  BY <1>5, <1>6

\* While a result is handled, nothing else is asked for and no capture runs.
LEMMA InHand ==
    ASSUME SessionInv, NEW work \in PlainWorks, Handling(work)
    PROVE  /\ at = "handle" /\ at' = "results" /\ popped' = <<>> /\ popped # <<>> /\ popped[1].work = work /\ popped[1] \in Results
           /\ UNCHANGED <<generation, permitted, mayAccess, drive, tray>>
           /\ pending = M!Nothing /\ stage = "idle" /\ results = <<>> /\ task = M!NoTask /\ capture = "idle"
           /\ UNCHANGED device => (DeviceCurrent' <=> DeviceCurrent)
           /\ \A w \in PlainWorks : Coming(w) <=> w = work
<1>1. at = "handle" /\ at' = "results" /\ popped' = <<>> /\ popped # <<>> /\ popped[1].work = work
      /\ UNCHANGED <<generation, permitted, mayAccess, drive, tray>>
  BY DEF Handling, epochVars, worldVars
<1>2. pending = M!Nothing /\ stage = "idle" /\ results = <<>> /\ task = M!NoTask /\ capture = "idle"
  BY <1>1 DEF SessionInv, OneRequest, GateInv, TypeInv, WorkerTypes
<1>3. popped \in Seq(Results) /\ Len(popped) = 1
  BY <1>1 DEF SessionInv, TypeInv, WorkerTypes
<1>4. popped[1] \in Results
  BY <1>3, ElementOfSeq
<1>5. \A w \in PlainWorks : Coming(w) <=> w = work
  BY <1>1, <1>2, WorksAreNone DEF Coming
<1>6. UNCHANGED device => (DeviceCurrent' <=> DeviceCurrent)
  BY <1>1 DEF DeviceCurrent
<1> QED
  BY <1>1, <1>2, <1>4, <1>5, <1>6

\* What the requests come to when the result of work was handled.
Answered(work) ==
    /\ tocPending' \in BOOLEAN /\ ejectPending' \in BOOLEAN /\ ejectInflight' \in BOOLEAN
    /\ probeAttempted' \in BOOLEAN /\ probeFinished' \in BOOLEAN /\ media' \in MediaStates
    /\ DeviceCurrent /\ tocPending' => tocPending /\ work # "read_toc"
    /\ DeviceCurrent /\ ejectInflight' => ejectInflight /\ work # "eject"
    /\ DeviceCurrent /\ probeAttempted' /\ ~probeFinished' =>
         probeAttempted /\ ~probeFinished /\ work # "probe_drive"
    /\ ~(ejectPending' /\ ejectInflight')
    /\ media' = "ejecting" <=> (ejectPending' \/ ejectInflight')

\* The parts that depend on the worker and on the requests.
LEMMA AnsweredKeeps ==
    ASSUME SessionInv, NEW work \in PlainWorks, Handling(work), Answered(work), UNCHANGED <<device, workerVars>>,
           contextReady' \in BOOLEAN, observedEmpty' \in BOOLEAN, loaded' \in BOOLEAN, needsRefresh' \in BOOLEAN,
           UNCHANGED retiring, capture' = "idle", PlayMoved, media' = "ejecting" => Silent', DiscInv'
    PROVE  SessionInv'
<1>1. /\ at' = "results" /\ popped' = <<>>
      /\ UNCHANGED <<generation, permitted, mayAccess, drive, tray>>
      /\ pending = M!Nothing /\ stage = "idle" /\ results = <<>> /\ task = M!NoTask
      /\ (DeviceCurrent' <=> DeviceCurrent) /\ \A w \in PlainWorks : Coming(w) <=> w = work
  BY InHand
<1>2. UNCHANGED <<pending, observed, task, stage, executed, outcome, spoilt, results, closing>>
  BY DEF workerVars, requestVars
<1>3. PlaceTypes' /\ EpochTypes' /\ OneRequest' /\ GateInv'
  BY <1>1, <1>2 DEF SessionInv, TypeInv, PlaceTypes, Places, EpochTypes, OneRequest, GateInv
<1>4. FlagTypes'
  BY <1>1 DEF SessionInv, TypeInv, FlagTypes, Answered
<1>5. PlayTypes' /\ StreamFollowsIntent' /\ SameReader(pcm, pcm')
  BY PlayMovedKeeps
<1>6. WorkerTypes'
  BY <1>1, <1>2, EmptySeq DEF SessionInv, TypeInv, WorkerTypes
<1>7. RequestInv'
  <2>1. Delivered'
    BY <1>1, <1>2 DEF Delivered
  <2>2. ~Coming("eject")'
    BY <1>1, <1>2, WorksAreNone DEF Coming
  <2>3. /\ Coming("read_toc") => work = "read_toc"
        /\ Coming("eject") => work = "eject"
        /\ Coming("probe_drive") => work = "probe_drive"
    BY <1>1, WorksAreNone
  <2>4. ~(DeviceCurrent' /\ tocPending')
    BY <1>1, <2>3 DEF Answered, SessionInv, RequestInv
  <2>5. ~(DeviceCurrent' /\ ejectInflight')
    BY <1>1, <2>3 DEF Answered, SessionInv, RequestInv
  <2>6. ~(DeviceCurrent' /\ probeAttempted' /\ ~probeFinished')
    BY <1>1, <2>3 DEF Answered, SessionInv, RequestInv
  <2>7. ~(ejectPending' /\ ejectInflight') /\ (media' = "ejecting" <=> (ejectPending' \/ ejectInflight'))
    BY DEF Answered
  <2> QED
    BY <2>1, <2>2, <2>4, <2>5, <2>6, <2>7 DEF RequestInv
<1>8. AloneInv'
  BY <1>1, <1>2, WorksAreNone DEF AloneInv
<1>9. OldDeviceIsGone'
  <2>1. ~M!Retiring'
    BY <1>1, <1>2 DEF M!Retiring, M!Busy
  <2> QED
    BY <1>5, <2>1, OldFollows DEF SessionInv
<1> QED
  BY <1>3, <1>4, <1>5, <1>6, <1>7, <1>8, <1>9 DEF SessionInv, TypeInv

\* Which requests the session waits for, and what that says of the media.
LEMMA WaitsFor ==
    ASSUME SessionInv, NEW work \in PlainWorks, Handling(work)
    PROVE  /\ FlagTypes /\ ~(ejectPending /\ ejectInflight)
           /\ media = "ejecting" <=> (ejectPending \/ ejectInflight)
           /\ work = "eject" => ejectInflight /\ ~ejectPending
           /\ DeviceCurrent /\ tocPending => work = "read_toc"
           /\ DeviceCurrent /\ ejectInflight => work = "eject"
           /\ DeviceCurrent /\ probeAttempted /\ ~probeFinished => work = "probe_drive"
           /\ popped[1].gen = device
<1>1. FlagTypes /\ RequestInv /\ WorkerTypes
  BY DEF SessionInv, TypeInv
<1>2. /\ Coming("read_toc") <=> work = "read_toc"
      /\ Coming("eject") <=> work = "eject"
      /\ Coming("probe_drive") <=> work = "probe_drive"
      /\ popped # <<>>
  BY InHand, WorksAreNone
<1>3. popped[1].gen = device
  BY <1>1, <1>2 DEF WorkerTypes
<1> QED
  BY <1>1, <1>2, <1>3 DEF RequestInv

\* A result that is stale or not wanted is dropped; an error ends the request.
LEMMA UnwantedKeeps ==
    ASSUME SessionInv, NEW work \in PlainWorks, HandleUnwanted(work) PROVE SessionInv'
<1>1. Handling(work)
  BY DEF HandleUnwanted
<1>2. /\ UNCHANGED <<device, contextReady, retiring, probeAttempted, probeFinished, media, observedEmpty, loaded>>
      /\ UNCHANGED <<needsRefresh, ejectPending, ejectInflight, emptyIn, playVars, playback, pcm, capture, workerVars>>
  BY DEF HandleUnwanted, contextVars, playVars
<1>3. capture' = "idle" /\ DiscInv' /\ PlayMoved
  BY <1>1, <1>2, InHand, DiscKept DEF SessionInv, PlayMoved
<1>4. /\ tocPending' \in BOOLEAN
      /\ tocPending' => tocPending
      /\ DeviceCurrent => ~(tocPending' /\ work = "read_toc")
  BY <1>1, WaitsFor DEF HandleUnwanted, FlagTypes
<1>5. DeviceCurrent => work # "eject" /\ work # "probe_drive"
  BY <1>1, WaitsFor DEF HandleUnwanted, Filtered
<1>6. Answered(work)
  BY <1>1, <1>2, <1>4, <1>5, WaitsFor DEF Answered, FlagTypes
<1>7. FlagTypes /\ (media = "ejecting" => Silent)
  BY DEF SessionInv, TypeInv, AloneInv
<1>8. /\ contextReady' \in BOOLEAN /\ observedEmpty' \in BOOLEAN /\ loaded' \in BOOLEAN /\ needsRefresh' \in BOOLEAN
      /\ media' = "ejecting" => Silent'
  BY <1>2, <1>7 DEF FlagTypes, Silent
<1> QED
  BY <1>1, <1>2, <1>3, <1>6, <1>8, AnsweredKeeps

\* A result that is an error keeps the invariant.
LEMMA ErrorKeeps ==
    ASSUME SessionInv, NEW work \in PlainWorks, HandleError(work) PROVE SessionInv'
<1>1. Handling(work)
  BY DEF HandleError
<1>2. /\ UNCHANGED <<device, contextReady, retiring, probeAttempted, observedEmpty, loaded>>
      /\ UNCHANGED <<needsRefresh, ejectPending, emptyIn, playVars, playback, pcm, capture, workerVars>>
      /\ tocPending' = (tocPending /\ work # "read_toc")
      /\ probeFinished' = (probeFinished \/ work = "probe_drive")
      /\ ejectInflight' = (ejectInflight /\ work # "eject")
      /\ media' = IF work = "eject" THEN "eject_error" ELSE media
  BY DEF HandleError, playVars
<1>3. capture' = "idle" /\ PlayMoved
  BY <1>1, <1>2, InHand DEF PlayMoved
<1>4. FlagTypes /\ (media = "ejecting" => Silent) /\ DiscInv
  BY DEF SessionInv, TypeInv, AloneInv
<1>5. /\ contextReady' \in BOOLEAN /\ observedEmpty' \in BOOLEAN /\ loaded' \in BOOLEAN /\ needsRefresh' \in BOOLEAN
      /\ media' = "ejecting" => Silent'
  BY <1>2, <1>4 DEF FlagTypes, Silent
<1>6. DiscInv'
  BY <1>1, <1>2, <1>4, InHand DEF DiscInv, DiscIsLoaded
<1>7. /\ tocPending' \in BOOLEAN /\ ejectPending' \in BOOLEAN /\ ejectInflight' \in BOOLEAN
      /\ probeAttempted' \in BOOLEAN /\ probeFinished' \in BOOLEAN /\ media' \in MediaStates
  BY <1>2, <1>4 DEF FlagTypes, MediaStates
<1>8. /\ tocPending' => tocPending /\ work # "read_toc"
      /\ ejectInflight' => ejectInflight /\ work # "eject"
      /\ ~probeFinished' => ~probeFinished /\ work # "probe_drive"
      /\ probeAttempted' => probeAttempted
      /\ ~(ejectPending' /\ ejectInflight')
  BY <1>1, <1>2, WaitsFor
<1>9. media' = "ejecting" <=> (ejectPending' \/ ejectInflight')
  <2>1. CASE work = "eject"
    BY <1>1, <1>2, <2>1, WaitsFor
  <2>2. CASE work # "eject"
    BY <1>1, <1>2, <2>2, WaitsFor
  <2> QED
    BY <2>1, <2>2
<1>10. Answered(work)
  BY <1>7, <1>8, <1>9 DEF Answered
<1> QED
  BY <1>1, <1>2, <1>3, <1>5, <1>6, <1>10, AnsweredKeeps

\* The result of a drive probe keeps the invariant.
LEMMA ProbeKeeps == ASSUME SessionInv, HandleProbe PROVE SessionInv'
<1>1. Handling("probe_drive") /\ "probe_drive" \in PlainWorks
  BY WorksAreNone DEF HandleProbe
<1>2. /\ UNCHANGED <<device, contextReady, retiring, probeAttempted, media, observedEmpty, loaded, needsRefresh>>
      /\ UNCHANGED <<tocPending, ejectPending, ejectInflight, emptyIn, playback, capture, workerVars>>
      /\ probeFinished' = TRUE
  BY DEF HandleProbe, discVars
<1>3. PlayMoved
  <2>1. pcm \in PcmStates /\ playback \in {"no_disc", "stopped", "playing", "paused"} /\ StreamFollowsIntent
    BY DEF SessionInv, TypeInv, PlayTypes
  <2>2. CASE playback \in {"stopped", "no_disc"}
    <3>1. pcm' = [pcm EXCEPT !.discard = TRUE]
      BY <2>2 DEF HandleProbe
    <3>2. ~pcm.active /\ ~pcm.driven
      BY <2>1, <2>2 DEF StreamFollowsIntent
    <3>3. pcm' \in PcmStates /\ SameReader(pcm, pcm') /\ pcm'.active = FALSE /\ pcm'.driven = FALSE
      BY <2>1, <3>1, <3>2 DEF PcmStates, SameReader
    <3> QED
      BY <1>2, <2>2, <3>3 DEF PlayMoved, Ended, Silent
  <2>3. CASE playback \notin {"stopped", "no_disc"}
    BY <1>2, <2>3 DEF HandleProbe, PlayMoved, playVars
  <2> QED
    BY <2>2, <2>3
<1>4. FlagTypes /\ (media = "ejecting" => Silent) /\ DiscInv /\ capture' = "idle"
  BY <1>1, <1>2, InHand DEF SessionInv, TypeInv, AloneInv
<1>5. /\ contextReady' \in BOOLEAN /\ observedEmpty' \in BOOLEAN /\ loaded' \in BOOLEAN /\ needsRefresh' \in BOOLEAN
      /\ media' = "ejecting" => Silent'
  BY <1>2, <1>4 DEF FlagTypes, Silent
<1>6. DiscInv'
  BY <1>1, <1>2, <1>4, InHand, DiscKept
<1>7. Answered("probe_drive")
  <2>1. /\ tocPending' \in BOOLEAN /\ ejectPending' \in BOOLEAN /\ ejectInflight' \in BOOLEAN
        /\ probeAttempted' \in BOOLEAN /\ probeFinished' \in BOOLEAN /\ media' \in MediaStates
    BY <1>2, <1>4 DEF FlagTypes
  <2>2. ~(ejectPending' /\ ejectInflight') /\ (media' = "ejecting" <=> (ejectPending' \/ ejectInflight'))
    BY <1>1, <1>2, WaitsFor
  <2> QED
    BY <1>2, <2>1, <2>2 DEF Answered
<1> QED
  BY <1>1, <1>2, <1>3, <1>4, <1>5, <1>6, <1>7, AnsweredKeeps

\* The result of a stopped drive keeps the invariant.
LEMMA StopKeeps == ASSUME SessionInv, HandleStop PROVE SessionInv'
<1>1. Handling("stop_drive") /\ "stop_drive" \in PlainWorks
  BY WorksAreNone DEF HandleStop
<1>2. /\ UNCHANGED <<device, contextReady, retiring, probeAttempted, probeFinished, media, observedEmpty, loaded>>
      /\ UNCHANGED <<needsRefresh, tocPending, ejectPending, ejectInflight, emptyIn, playback, capture, workerVars>>
      /\ UNCHANGED playVars
  BY DEF HandleStop, discVars, contextVars, playVars
<1>3. FlagTypes /\ (media = "ejecting" => Silent) /\ DiscInv /\ capture' = "idle" /\ PlayMoved
  BY <1>1, <1>2, InHand DEF SessionInv, TypeInv, AloneInv, PlayMoved
<1>4. /\ contextReady' \in BOOLEAN /\ observedEmpty' \in BOOLEAN /\ loaded' \in BOOLEAN /\ needsRefresh' \in BOOLEAN
      /\ media' = "ejecting" => Silent'
  BY <1>2, <1>3 DEF FlagTypes, Silent
<1>5. DiscInv'
  BY <1>1, <1>2, <1>3, InHand, DiscKept
<1>6. Answered("stop_drive")
  <2>1. /\ tocPending' \in BOOLEAN /\ ejectPending' \in BOOLEAN /\ ejectInflight' \in BOOLEAN
        /\ probeAttempted' \in BOOLEAN /\ probeFinished' \in BOOLEAN /\ media' \in MediaStates
    BY <1>2, <1>3 DEF FlagTypes
  <2>2. ~(ejectPending' /\ ejectInflight') /\ (media' = "ejecting" <=> (ejectPending' \/ ejectInflight'))
    BY <1>1, <1>2, WaitsFor
  <2>3. /\ ~(DeviceCurrent /\ tocPending) /\ ~(DeviceCurrent /\ ejectInflight)
        /\ ~(DeviceCurrent /\ probeAttempted /\ ~probeFinished)
    BY <1>1, WaitsFor
  <2> QED
    BY <1>2, <2>1, <2>2, <2>3 DEF Answered
<1> QED
  BY <1>1, <1>2, <1>3, <1>4, <1>5, <1>6, AnsweredKeeps

\* Whatever the drive reports, the media are not ejecting, and a drive that
\* counts as found empty was found so for this device.
LEMMA SeeMediaMeans ==
    ASSUME SessionInv, NEW o, SeeMedia(o), UNCHANGED device
    PROVE  /\ media # "ejecting" => media' # "ejecting"
           /\ media' \in MediaStates /\ observedEmpty' \in BOOLEAN
           /\ observedEmpty' => emptyIn' = device'
           /\ o = "no_disc" => media' = "no_disc"
<1>1. /\ media \in MediaStates /\ observedEmpty \in BOOLEAN /\ (observedEmpty => emptyIn = device)
      /\ media' = AfterObservation(o)
      /\ observedEmpty' = CASE o = "no_disc" -> TRUE [] o = "unsupported_disc" -> FALSE [] OTHER -> observedEmpty
      /\ emptyIn' = CASE o = "no_disc" -> device [] o = "unsupported_disc" -> NoGeneration [] OTHER -> emptyIn
  BY DEF SessionInv, TypeInv, FlagTypes, DiscInv, SeeMedia
<1>2. CASE o = "no_disc"
  BY <1>1, <1>2 DEF AfterObservation, MediaStates
<1>3. CASE o = "unsupported_disc"
  BY <1>1, <1>3 DEF AfterObservation, MediaStates
<1>4. CASE o # "no_disc" /\ o # "unsupported_disc"
  <2>1. observedEmpty' = observedEmpty /\ emptyIn' = emptyIn
    BY <1>1, <1>4
  <2>2. media' \in {media, "loading", "audio_ready"}
    BY <1>1, <1>4 DEF AfterObservation
  <2> QED
    BY <1>1, <1>4, <2>1, <2>2 DEF MediaStates
<1> QED
  BY <1>2, <1>3, <1>4

\* A poll found no disc, one that loads, or one that is no audio disc.
LEMMA DiscLostKeeps ==
    ASSUME SessionInv, HandleObserve, ObserveLoading \/ ObserveEmpty PROVE SessionInv'
<1>1. Handling("observe") /\ "observe" \in PlainWorks /\ media # "ejecting"
  BY WorksAreNone DEF HandleObserve, Good, Applicable, Filtered, Handling
<1>2. UNCHANGED <<device, retiring, probeAttempted, probeFinished, ejectPending, ejectInflight, workerVars>>
  BY DEF HandleObserve, ObserveLoading, ObserveEmpty
<1>3. capture' = "idle"
  BY <1>1, InHand, InterruptedMeans DEF ObserveLoading, ObserveEmpty, SessionInv, TypeInv, PlaceTypes
<1>4. media' # "ejecting" /\ media' \in MediaStates /\ observedEmpty' \in BOOLEAN /\ (observedEmpty' => emptyIn' = device')
  BY <1>1, <1>2, SeeMediaMeans DEF HandleObserve
<1>5. FlagTypes /\ DiscInv /\ at # "ended"
  BY <1>1, InHand DEF SessionInv, TypeInv
<1>6. PlayMoved /\ (playback' = playback \/ playback' = "no_disc")
  BY RemoveDiscMoves DEF ObserveLoading, ObserveEmpty, PlayMoved, playVars
<1>7. /\ contextReady' \in BOOLEAN /\ loaded' \in BOOLEAN /\ needsRefresh' = TRUE /\ tocPending' \in BOOLEAN
      /\ tocPending' => tocPending
      /\ playback' # "no_disc" => loaded'
  <2>1. CASE ObserveLoading
    <3>1. contextReady' = (contextReady /\ popped[1].outcome = "unknown") /\ loaded' = loaded
      BY <2>1 DEF ObserveLoading
    <3>2. contextReady' \in BOOLEAN
      BY <3>1
    <3>3. needsRefresh' = TRUE /\ tocPending' \in BOOLEAN /\ (tocPending' => tocPending)
      BY <1>5, <2>1 DEF ObserveLoading, FlagTypes, DiscInv
    <3>4. loaded' \in BOOLEAN /\ (playback' # "no_disc" => loaded')
      BY <1>5, <1>6, <3>1 DEF FlagTypes, DiscInv, DiscIsLoaded
    <3> QED
      BY <3>2, <3>3, <3>4
  <2>2. CASE ObserveEmpty
    <3>1. contextReady' = (contextReady \/ popped[1].outcome # "unknown")
      BY <2>2 DEF ObserveEmpty
    <3>2. contextReady' \in BOOLEAN
      BY <3>1
    <3>3. playback' = "no_disc"
      BY <2>2, RemoveDiscMoves DEF ObserveEmpty, playVars
    <3> QED
      BY <2>2, <3>2, <3>3 DEF ObserveEmpty, ForgetToc
  <2> QED
    BY <2>1, <2>2
<1>8. DiscInv'
  BY <1>4, <1>7 DEF DiscInv, DiscIsLoaded
<1>9. Answered("observe")
  <2>1. /\ ejectPending' \in BOOLEAN /\ ejectInflight' \in BOOLEAN
        /\ probeAttempted' \in BOOLEAN /\ probeFinished' \in BOOLEAN
    BY <1>2, <1>5 DEF FlagTypes
  <2>2. ~ejectPending' /\ ~ejectInflight'
    BY <1>1, <1>2, WaitsFor
  <2>3. ~(DeviceCurrent /\ tocPending') /\ ~(DeviceCurrent /\ probeAttempted' /\ ~probeFinished')
    BY <1>1, <1>2, <1>7, WaitsFor
  <2> QED
    BY <1>4, <1>7, <2>1, <2>2, <2>3 DEF Answered
<1> QED
  BY <1>1, <1>2, <1>3, <1>4, <1>6, <1>7, <1>8, <1>9, AnsweredKeeps

\* A poll found an audio disc: its table of contents is asked for, or not.
LEMMA DiscFoundKeeps ==
    ASSUME SessionInv, HandleObserve, ObserveAudio PROVE SessionInv'
<1>1. Handling("observe") /\ "observe" \in PlainWorks /\ media # "ejecting"
  BY WorksAreNone DEF HandleObserve, Good, Applicable, Filtered, Handling
<1>2. UNCHANGED <<device, retiring, probeAttempted, probeFinished, ejectPending, ejectInflight>>
      /\ UNCHANGED <<contextReady, capture, needsRefresh, loaded, playVars, playback, pcm>>
  BY DEF HandleObserve, ObserveAudio, playVars
<1>3. /\ at' = "results" /\ popped' = <<>> /\ popped # <<>>
      /\ UNCHANGED <<generation, permitted, mayAccess, drive, tray>>
      /\ pending = M!Nothing /\ stage = "idle" /\ results = <<>> /\ task = M!NoTask /\ capture = "idle"
      /\ (DeviceCurrent' <=> DeviceCurrent)
  BY <1>1, <1>2, InHand
<1>4. media' # "ejecting" /\ media' \in MediaStates /\ observedEmpty' \in BOOLEAN /\ (observedEmpty' => emptyIn' = device')
      /\ media' # "loading"
  BY <1>1, <1>2, SeeMediaMeans DEF HandleObserve, ObserveAudio
<1>5. FlagTypes /\ DiscInv /\ at # "ended"
  BY <1>1, InHand DEF SessionInv, TypeInv
<1>6. DiscInv'
  BY <1>2, <1>4, <1>5 DEF DiscInv, DiscIsLoaded
<1>7. CASE UNCHANGED <<workerVars, tocPending>>
  <2>1. /\ tocPending' \in BOOLEAN /\ ejectPending' \in BOOLEAN /\ ejectInflight' \in BOOLEAN
        /\ probeAttempted' \in BOOLEAN /\ probeFinished' \in BOOLEAN
        /\ contextReady' \in BOOLEAN /\ loaded' \in BOOLEAN /\ needsRefresh' \in BOOLEAN
    BY <1>2, <1>5, <1>7 DEF FlagTypes
  <2>2. ~ejectPending' /\ ~ejectInflight'
    BY <1>1, <1>2, WaitsFor
  <2>3. ~(DeviceCurrent /\ tocPending') /\ ~(DeviceCurrent /\ probeAttempted' /\ ~probeFinished')
    BY <1>1, <1>2, <1>7, WaitsFor
  <2>4. Answered("observe")
    BY <1>4, <2>1, <2>2, <2>3 DEF Answered
  <2> QED
    BY <1>1, <1>2, <1>3, <1>4, <1>6, <1>7, <2>1, <2>4, AnsweredKeeps DEF PlayMoved
<1>8. CASE M!Request("read_toc") /\ tocPending' = TRUE
  <2>1. /\ UNCHANGED <<observed, task, stage, executed, outcome, spoilt, results, closing>>
        /\ pending' = [work |-> "read_toc", job |-> 0]
    BY <1>8 DEF M!Request, M!runVars
  <2>2. pending' \in Requests /\ pending'.work = "read_toc"
    BY <2>1, WorksAreNone DEF Requests
  <2>3. PlaceTypes' /\ EpochTypes' /\ OneRequest' /\ GateInv' /\ PlayTypes' /\ StreamFollowsIntent'
    BY <1>2, <1>3, <2>1, EpochKept, PlayKept, StreamKept
       DEF SessionInv, TypeInv, PlaceTypes, Places, OneRequest, GateInv
  <2>4. FlagTypes'
    BY <1>2, <1>3, <1>4, <1>5, <1>8 DEF FlagTypes
  <2>5. WorkerTypes'
    BY <1>2, <1>3, <2>1, <2>2, EmptySeq DEF SessionInv, TypeInv, WorkerTypes
  <2>6. RequestInv'
    <3>1. Delivered' /\ Coming("read_toc")'
      BY <1>3, <2>1, <2>2 DEF Delivered, Coming
    <3>2. ~Coming("eject")'
      BY <1>3, <2>1, <2>2, WorksAreNone DEF Coming
    <3>3. ~ejectPending' /\ ~ejectInflight' /\ ~(DeviceCurrent' /\ probeAttempted' /\ ~probeFinished')
      BY <1>1, <1>2, <1>3, WaitsFor
    <3> QED
      BY <1>4, <3>1, <3>2, <3>3 DEF RequestInv
  <2>7. AloneInv'
    BY <1>2, <1>3, <1>4, <2>1, <2>2, WorksAreNone DEF AloneInv
  <2>8. OldDeviceIsGone'
    BY <1>2, <2>1, OldKept DEF SessionInv
  <2> QED
    BY <1>6, <2>3, <2>4, <2>5, <2>6, <2>7, <2>8 DEF SessionInv, TypeInv
<1> QED
  BY <1>7, <1>8 DEF ObserveAudio

\* The table of contents arrived: it is loaded, unless it is there already or
\* the drive has changed its mind meanwhile.
LEMMA TocKeeps == ASSUME SessionInv, HandleToc PROVE SessionInv'
<1>1. Handling("read_toc") /\ "read_toc" \in PlainWorks /\ media # "ejecting"
  BY WorksAreNone DEF HandleToc, Good, Applicable, Filtered, Handling
<1>2. /\ UNCHANGED <<device, retiring, probeAttempted, probeFinished, media, ejectPending, ejectInflight, workerVars>>
      /\ tocPending' = FALSE
      /\ needsRefresh' = (needsRefresh /\ media # "audio_ready")
      /\ contextReady' = (contextReady \/ media = "audio_ready")
  BY DEF HandleToc
<1>3. contextReady' \in BOOLEAN /\ needsRefresh' \in BOOLEAN
  BY <1>2
<1>4. FlagTypes /\ DiscInv /\ pcm \in PcmStates /\ at # "ended"
  BY <1>1, InHand DEF SessionInv, TypeInv, PlayTypes
<1>5. Answered("read_toc")
  <2>1. /\ ejectPending' \in BOOLEAN /\ ejectInflight' \in BOOLEAN
        /\ probeAttempted' \in BOOLEAN /\ probeFinished' \in BOOLEAN /\ media' \in MediaStates /\ media' # "ejecting"
    BY <1>1, <1>2, <1>4 DEF FlagTypes
  <2>2. ~ejectPending' /\ ~ejectInflight'
    BY <1>1, <1>2, WaitsFor
  <2>3. ~(DeviceCurrent /\ probeAttempted' /\ ~probeFinished')
    BY <1>1, <1>2, WaitsFor
  <2> QED
    BY <1>2, <2>1, <2>2, <2>3 DEF Answered
<1>6. CASE WantsLoad
  <2> DEFINE stopped == Synchronized(pcm, "stopped")
  <2>1. /\ capture' \in Interrupted /\ loaded' = TRUE /\ observedEmpty' = FALSE
        /\ playback' = IF observedEmpty THEN "playing" ELSE "stopped"
        /\ pcm' = IF observedEmpty THEN Synchronized(stopped, "playing") ELSE stopped
    BY <1>6 DEF HandleToc, LoadToc
  <2>2. stopped \in PcmStates /\ SameReader(pcm, stopped) /\ stopped.active = FALSE /\ stopped.driven = FALSE
    BY <1>4, StreamSynchronized
  <2> HIDE DEF stopped
  <2>3. Synchronized(stopped, "playing") \in PcmStates /\ SameReader(stopped, Synchronized(stopped, "playing"))
        /\ Synchronized(stopped, "playing").active = TRUE /\ Synchronized(stopped, "playing").driven = TRUE
    BY <2>2, StreamSynchronized
  <2>4. SameReader(pcm, Synchronized(stopped, "playing"))
    BY <2>2, <2>3 DEF SameReader
  <2>5. PlayMoved
    <3>1. CASE observedEmpty
      BY <2>1, <2>3, <2>4, <3>1 DEF PlayMoved, Started
    <3>2. CASE ~observedEmpty
      BY <2>1, <2>2, <3>2 DEF PlayMoved, Ended, Silent
    <3> QED
      BY <3>1, <3>2
  <2>6. capture' = "idle"
    BY <1>1, <2>1, InHand, InterruptedMeans DEF SessionInv, TypeInv, PlaceTypes
  <2>7. DiscInv'
    BY <1>2, <1>6, <2>1 DEF DiscInv, DiscIsLoaded, WantsLoad
  <2>8. loaded' \in BOOLEAN /\ observedEmpty' \in BOOLEAN /\ (media' = "ejecting" => Silent')
    BY <1>1, <1>2, <2>1
  <2> QED
    BY <1>1, <1>2, <1>3, <1>5, <2>5, <2>6, <2>7, <2>8, AnsweredKeeps
<1>7. CASE ~WantsLoad
  <2>1. UNCHANGED <<observedEmpty, emptyIn, loaded, playVars, playback, pcm, capture>>
    BY <1>7 DEF HandleToc, playVars
  <2>2. capture' = "idle"
    BY <1>1, <2>1, InHand
  <2>3. DiscInv'
    <3>1. (media = "loading" => needsRefresh)' /\ (observedEmpty => emptyIn = device)'
      BY <1>2, <1>4, <2>1 DEF DiscInv
    <3>2. CASE media = "audio_ready"
      BY <1>2, <1>7, <2>1, <3>1, <3>2 DEF DiscInv, DiscIsLoaded, WantsLoad
    <3>3. CASE media # "audio_ready"
      BY <1>2, <1>4, <2>1, <3>1, <3>3 DEF DiscInv, DiscIsLoaded
    <3> QED
      BY <3>2, <3>3
  <2>4. loaded' \in BOOLEAN /\ observedEmpty' \in BOOLEAN /\ (media' = "ejecting" => Silent')
    BY <1>1, <1>2, <1>4, <2>1 DEF FlagTypes
  <2> QED
    BY <1>1, <1>2, <1>3, <1>5, <2>1, <2>2, <2>3, <2>4, AnsweredKeeps DEF PlayMoved
<1> QED
  BY <1>6, <1>7

\* The tray is open: the eject is over.
LEMMA EjectedKeeps == ASSUME SessionInv, HandleEject PROVE SessionInv'
<1>1. Handling("eject") /\ "eject" \in PlainWorks
  BY WorksAreNone DEF HandleEject
<1>2. /\ UNCHANGED <<device, contextReady, retiring, probeAttempted, probeFinished, ejectPending, capture, workerVars>>
      /\ ejectInflight' = FALSE /\ tocPending' = FALSE /\ needsRefresh' = TRUE /\ loaded' = FALSE
      /\ SeeMedia("no_disc") /\ Follow("no_disc") /\ playback' = "no_disc"
  BY DEF HandleEject, ForgetToc, contextVars, Follow
<1>3. media' = "no_disc" /\ media' \in MediaStates /\ observedEmpty' \in BOOLEAN /\ (observedEmpty' => emptyIn' = device')
  BY <1>2, SeeMediaMeans
<1>4. PlayMoved /\ capture' = "idle"
  BY <1>1, <1>2, FollowMoves, InHand DEF PlayMoved
<1>5. DiscInv'
  BY <1>2, <1>3 DEF DiscInv, DiscIsLoaded
<1>6. FlagTypes
  BY DEF SessionInv, TypeInv
<1>7. Answered("eject") /\ contextReady' \in BOOLEAN /\ ~ejectPending'
  <2>1. /\ ejectPending' \in BOOLEAN /\ probeAttempted' \in BOOLEAN /\ probeFinished' \in BOOLEAN
        /\ contextReady' \in BOOLEAN
    BY <1>2, <1>6 DEF FlagTypes
  <2>2. ~ejectPending' /\ ~(DeviceCurrent /\ probeAttempted' /\ ~probeFinished')
    BY <1>1, <1>2, WaitsFor
  <2> QED
    BY <1>2, <1>3, <2>1, <2>2 DEF Answered
<1> QED
  BY <1>1, <1>2, <1>3, <1>4, <1>5, <1>7, AnsweredKeeps

\* Whatever result is handled, the invariant is kept.
LEMMA HandleKeeps == ASSUME SessionInv, Handle PROVE SessionInv'
<1>1. CASE \E work \in PlainWorks : HandleUnwanted(work) \/ HandleError(work)
  BY <1>1, UnwantedKeeps, ErrorKeeps
<1>2. CASE HandleObserve
  BY <1>2, DiscLostKeeps, DiscFoundKeeps DEF HandleObserve
<1> QED
  BY <1>1, <1>2, ProbeKeeps, TocKeeps, StopKeeps, EjectedKeeps DEF Handle

-----------------------------------------------------------------------------
(* The end of the daemon.                                                  *)

\* A result whose reset throws ends the daemon; nothing is left to play.
LEMMA FailedResultKeeps == ASSUME SessionInv, SessionEnds, FailedResult PROVE SessionInv'
<1>1. /\ at = "handle" /\ at' = "ended" /\ capture' \in Interrupted /\ popped # <<>>
      /\ UNCHANGED <<generation, permitted, device, contextReady, retiring, probeAttempted, probeFinished>>
      /\ UNCHANGED <<media, observedEmpty, loaded, needsRefresh, tocPending, ejectPending, ejectInflight, emptyIn>>
      /\ UNCHANGED <<mayAccess, popped, tray, drive>>
      /\ UNCHANGED <<pending, observed, task, stage, executed, outcome, spoilt, results, closing>>
  BY DEF SessionEnds, FailedResult, epochVars, contextVars, discVars, workerVars, requestVars, worldVars
<1>2. Ended
  <2>1. FollowFails("stopped") \/ FollowFails("no_disc")
    BY DEF FailedResult
  <2> QED
    BY <2>1, FollowMoves
<1>3. capture = "idle" /\ capture' = "idle"
  BY <1>1, InterruptedMeans DEF SessionInv, TypeInv, PlaceTypes, GateInv
<1>4. PlaceTypes' /\ OneRequest' /\ GateInv'
  BY <1>1, <1>3 DEF SessionInv, TypeInv, PlaceTypes, Places, OneRequest, GateInv
<1>5. PlayTypes' /\ StreamFollowsIntent' /\ SameReader(pcm, pcm')
  BY <1>2, PlayMovedKeeps DEF PlayMoved
<1>6. AloneInv'
  BY <1>1, <1>2, <1>3, NoReaderKept, SilentKept DEF SessionInv, AloneInv
<1>7. OldDeviceIsGone'
  <2>1. M!Retiring' <=> M!Retiring
    BY <1>1 DEF M!Retiring, M!Busy
  <2> QED
    BY <1>1, <1>5, <2>1, OldFollows DEF SessionInv
<1>8. DiscInv'
  BY <1>1 DEF SessionInv, DiscInv, DiscIsLoaded
<1> QED
  BY <1>1, <1>4, <1>5, <1>6, <1>7, <1>8, EpochKept, FlagKept, WorkerKept, RequestKept DEF SessionInv, TypeInv

\* ... and so does an input command.
LEMMA EndKeeps == ASSUME SessionInv, SessionEnds PROVE SessionInv'
<1>1. CASE FailedResult
  BY <1>1, FailedResultKeeps
<1>2. CASE FailedInput
  <2>1. PICK intent \in Intents : Accepts(intent)
    BY <1>2 DEF FailedInput
  <2>2. /\ FollowFails("stopped") /\ at \notin {"handle", "ended"} /\ at' \in Places \ {"request", "handle"}
        /\ UNCHANGED <<contextVars, discVars, mayAccess, epochVars, popped, workerVars, worldVars>>
    BY <1>2 DEF FailedInput, SessionEnds, Places
  <2> QED
    BY <2>1, <2>2, ControlKeeps
<1> QED
  BY <1>1, <1>2 DEF SessionEnds

-----------------------------------------------------------------------------
(* The theorems.                                                           *)

\* The invariant holds initially.
LEMMA InitSession == Init => SessionInv
<1> SUFFICES ASSUME Init PROVE SessionInv
  OBVIOUS
<1>1. /\ generation = 0 /\ permitted = TRUE /\ at = "observe" /\ device = 0 /\ contextReady = FALSE /\ retiring = FALSE
      /\ mayAccess = FALSE /\ media = "no_disc" /\ observedEmpty = FALSE /\ loaded = FALSE /\ needsRefresh = TRUE
      /\ tocPending = FALSE /\ ejectPending = FALSE /\ ejectInflight = FALSE /\ probeAttempted = FALSE
      /\ probeFinished = FALSE /\ playback = "no_disc" /\ pcm = NoStream /\ capture = "idle" /\ popped = <<>>
      /\ drive = "free" /\ tray \in Trays
      /\ pending = M!Nothing /\ observed = 0 /\ task = M!NoTask /\ stage = "idle" /\ executed = FALSE
      /\ outcome = "ok" /\ spoilt = FALSE /\ results = <<>> /\ closing = FALSE
  BY DEF Init, EpochInit, M!MediaInit
<1> 0 \in 0..MaxObservations /\ 0 \in 0..0
  BY EpochBound
<1>2. PlaceTypes /\ EpochTypes /\ FlagTypes
  <2>1. PlaceTypes
    BY <1>1 DEF PlaceTypes, Places
  <2>2. EpochTypes
    BY <1>1 DEF EpochTypes
  <2>3. FlagTypes
    BY <1>1 DEF FlagTypes, MediaStates
  <2> QED
    BY <2>1, <2>2, <2>3
<1>3. PlayTypes
  BY <1>1, EpochBound DEF PlayTypes, NoStream, PcmStates
<1>4. WorkerTypes
  <2>1. <<>> \in Seq(Results) /\ M!NoTask.gen = 0
    BY EmptySeq, WorksAreNone
  <2>2. /\ stage = "idle" /\ task = M!NoTask /\ task.gen \in 0..device /\ executed \in BOOLEAN
        /\ outcome \in AllOutcomes /\ spoilt \in BOOLEAN /\ closing = FALSE
        /\ results \in Seq(Results) /\ popped \in Seq(Results) /\ results = <<>> /\ popped = <<>>
        /\ pending \in Requests \cup {M!Nothing}
    BY <1>1, <2>1 DEF AllOutcomes
  <2> QED
    BY <2>2 DEF WorkerTypes
<1>5. OneRequest /\ GateInv
  BY <1>1 DEF OneRequest, GateInv
<1>6. RequestInv
  BY <1>1, WorksAreNone DEF RequestInv, Delivered, Coming
<1>7. AloneInv /\ StreamFollowsIntent /\ OldDeviceIsGone /\ DiscInv
  BY <1>1, WorksAreNone DEF AloneInv, StreamFollowsIntent, OldDeviceIsGone, DiscInv, DiscIsLoaded, NoStream,
                            M!Retiring, M!Busy, Silent
<1> QED
  BY <1>2, <1>3, <1>4, <1>5, <1>6, <1>7 DEF SessionInv, TypeInv

\* Stuttering keeps the invariant.
LEMMA StutterKeeps == ASSUME SessionInv, UNCHANGED vars PROVE SessionInv'
<1>1. /\ UNCHANGED <<at, capture, drive, tray, generation, permitted, device, contextReady, retiring, mayAccess>>
      /\ UNCHANGED <<observedEmpty, loaded, needsRefresh, tocPending, ejectPending, ejectInflight, emptyIn>>
      /\ UNCHANGED <<probeAttempted, probeFinished, media, playVars, playback, pcm, popped>>
      /\ UNCHANGED <<pending, observed, task, stage, executed, outcome, spoilt, results, closing>>
  BY DEF vars, epochVars, sessionVars, contextVars, discVars, playVars, workerVars, requestVars, worldVars
<1> QED
  BY <1>1, PlaceKept, EpochKept, FlagKept, PlayKept, WorkerKept, OneKept, GateKept, RequestKept, AloneKept, StreamKept,
     OldKept, DiscKept DEF SessionInv, TypeInv

\* Every step keeps the invariant.
LEMMA NextKeeps == SessionInv /\ [Next]_vars => SessionInv'
<1> SUFFICES ASSUME SessionInv, [Next]_vars PROVE SessionInv'
  OBVIOUS
<1>1. CASE Session
  BY <1>1, ObserveKeeps, GateKeeps, RequestKeeps, PopKeeps, HandleKeeps, TickKeeps, ServeKeeps, PollKeeps DEF Session
<1>2. CASE CaptureCalls \/ CaptureReturns \/ ChangeDisc
  BY <1>2, WorldKeeps
<1> QED
  BY <1>1, <1>2, EndKeeps, PcmKeeps, MediaThreadKeeps, ObserverKeeps, StutterKeeps DEF Next, SessionOver

\* The invariant holds throughout.
LEMMA SessionInvariant == Spec => []SessionInv
<1> QED
  BY InitSession, NextKeeps, PTL DEF Spec

\* What SessionInv says of the properties that are checked.
LEMMA SessionInvImplies == ASSUME SessionInv PROVE DriveIsShared /\ DiscIsTracked
<1>1. TypeOK
  <2>1. pcm.call \in {"none", "close", "fail", "wait", "held"} /\ pcm.gen \in 0..MaxObservations
        /\ {pcm.driven, pcm.active, pcm.done, pcm.error, pcm.own, pcm.discard, pcm.open, pcm.quiet} \subseteq BOOLEAN
    BY DEF SessionInv, TypeInv, PlayTypes, PcmStates
  <2>2. {permitted, contextReady, retiring, mayAccess, observedEmpty, loaded, needsRefresh, tocPending,
         ejectPending, ejectInflight, probeAttempted, probeFinished} \subseteq BOOLEAN
    BY DEF SessionInv, TypeInv, FlagTypes, EpochTypes
  <2> QED
    BY <2>1, <2>2 DEF TypeOK, SessionInv, TypeInv, PlaceTypes, Places, EpochTypes, FlagTypes, PlayTypes
<1>2. EjectAlone
  BY DEF EjectAlone, SessionInv, AloneInv, NoReader, Silent
<1>3. CaptureAlone
  BY DEF CaptureAlone, SessionInv, AloneInv, NoReader
<1>4. NoRequestIsLost
  <2>1. ASSUME NEW work \in PlainWorks, Coming(work) PROVE Underway(work)
    <3>1. results # <<>> => Len(results) = 1
      BY DEF SessionInv, TypeInv, WorkerTypes
    <3> QED
      BY <2>1, <3>1 DEF Coming, Underway
  <2> QED
    BY <2>1, WorksAreNone DEF NoRequestIsLost, Underway, SessionInv, RequestInv
<1> QED
  BY <1>1, <1>2, <1>3, <1>4 DEF DriveIsShared, DiscIsTracked, SessionInv, DiscInv

\* The drive has one user at a time: the tray opens only when nothing uses the
\* disc, a capture has the drive to itself, no stream is left that the engine
\* does not drive, and what it drives is wanted, whichever reset threw (a
\* listener may be left without a stream); and nothing of another device is
\* left once it is retired.
THEOREM DriveIsSharedAlways == Spec => []DriveIsShared
<1>1. SessionInv => DriveIsShared
  BY SessionInvImplies
<1> QED
  BY <1>1, SessionInvariant, PTL

\* What the session waits for is on its way, and what it plays is the disc
\* whose table of contents it has.
THEOREM DiscIsTrackedAlways == Spec => []DiscIsTracked
<1>1. SessionInv => DiscIsTracked
  BY SessionInvImplies
<1> QED
  BY <1>1, SessionInvariant, PTL

\* Among the results only a table of contents starts to play, and only after
\* this drive was found empty.
LEMMA AutoplayStep ==
    ASSUME SessionInv, [Next]_vars, at = "handle", playback' = "playing", playback # "playing"
    PROVE  emptyIn = device
<1>1. Handle
  <2>1. ~UNCHANGED playback
    OBVIOUS
  <2>2. ~UNCHANGED vars /\ ~Pcm /\ ~ObserverThread /\ ~CaptureCalls /\ ~CaptureReturns /\ ~ChangeDisc
    BY <2>1, PcmFrame DEF vars, sessionVars, playVars, ObserverThread, CaptureCalls, CaptureReturns, ChangeDisc, otherFrame
  <2>3. ~MediaThread
    BY <2>1, MediaThreadFrame DEF playVars
  <2>4. (Session => Handle) /\ ~SessionEnds
    BY DEF Session, Observe, Gate, RequestMedia, PopResult, Tick, Serve, PollMedia, Input, SessionEnds, FailedResult,
           FailedInput, FollowFails
  <2> QED
    BY <2>2, <2>3, <2>4 DEF Next, SessionOver
<1>2. HandleToc
  <2>1. \A work \in PlainWorks : ~HandleUnwanted(work) /\ ~HandleError(work)
    BY DEF HandleUnwanted, HandleError, playVars
  <2>2. ~HandleProbe /\ ~HandleStop /\ ~HandleEject
    BY DEF HandleProbe, HandleStop, HandleEject, playVars, Follow
  <2>3. ~HandleObserve
    BY RemoveDiscMoves DEF HandleObserve, ObserveLoading, ObserveEmpty, ObserveAudio, playVars
  <2> QED
    BY <1>1, <2>1, <2>2, <2>3 DEF Handle
<1>3. observedEmpty
  BY <1>2 DEF HandleToc, LoadToc, playVars
<1> QED
  BY <1>3 DEF SessionInv, DiscInv

\* The player starts by itself only for a disc that was put into this drive
\* when it was found empty, whatever was connected, ejected or lost before.
THEOREM AutoplayNeedsInsertionAlways == Spec => AutoplayNeedsInsertion
<1>1. SessionInv /\ [Next]_vars =>
        [(at = "handle" /\ playback' = "playing" /\ playback # "playing") => emptyIn = device]_vars
  BY AutoplayStep
<1> QED
  BY <1>1, SessionInvariant, PTL DEF Spec, AutoplayNeedsInsertion

-----------------------------------------------------------------------------
(* What the media worker promises to the session.                          *)

\* How the session sees its media worker, by what that is at.
MediaSeen ==
    /\ pending # M!Nothing =>
          /\ M!Phase = "asked" /\ M!Asked = [work |-> pending.work, job |-> pending.job, gen |-> device]
          /\ M!Standing = TRUE /\ M!Allowed = DeviceCurrent
    /\ stage # "idle" =>
          /\ M!Phase # "none" /\ M!Asked = task
          /\ M!Standing = (task.gen = device) /\ M!Allowed = (task.gen = device /\ DeviceCurrent)
    /\ pending = M!Nothing /\ stage = "idle" =>
          M!Phase = "none" /\ M!Asked = M!NoTask /\ M!Standing = FALSE /\ M!Allowed = FALSE

LEMMA MediaIsSeen == SessionInv => MediaSeen
<1> SUFFICES ASSUME SessionInv PROVE MediaSeen
  OBVIOUS
<1>1. WorkerTypes /\ OneRequest /\ EpochTypes /\ TypeInv
  BY DEF SessionInv, TypeInv
<1>2. M!Busy <=> stage # "idle"
  BY <1>1 DEF M!Busy, WorkerTypes
<1>3. closing = FALSE /\ observed = device /\ (Accepted = device <=> DeviceCurrent)
  BY <1>1, AcceptedMeans DEF WorkerTypes, EpochTypes
<1>4. \A r : r.gen = Accepted /\ r.gen <= device /\ r.gen \in Nat => r.gen = device
  <2>1. Accepted \in {device, NoGeneration} /\ device < NoGeneration /\ device \in Nat /\ NoGeneration \in Nat
    BY <1>1, EpochBound DEF Accepted, NoGeneration, EpochTypes
  <2> QED
    BY <2>1
<1>5. CASE pending # M!Nothing
  <2>1. stage = "idle" /\ pending.work \in PlainWorks
    BY <1>1, <1>5 DEF OneRequest, WorkerTypes, Requests
  <2>2. M!Phase = "asked"
    BY <1>5, <2>1 DEF M!Phase
  <2>3. M!Asked = [work |-> pending.work, job |-> pending.job, gen |-> device]
    BY <1>3, <1>5 DEF M!Asked
  <2>4. M!Asked.gen = device /\ M!Asked.work # "assess_c2"
    BY <2>1, <2>3, WorksAreNone
  <2>5. M!Standing = TRUE
    BY <1>3, <2>2, <2>4 DEF M!Standing
  <2>6. M!Allowed = DeviceCurrent
    BY <1>3, <2>2, <2>4 DEF M!Allowed, DeviceCurrent
  <2> QED
    BY <1>5, <2>1, <2>2, <2>3, <2>5, <2>6 DEF MediaSeen
<1>6. CASE stage # "idle"
  <2>1. pending = M!Nothing /\ task.work \in PlainWorks /\ task.gen \in 0..device /\ device \in Nat
    BY <1>1, <1>6 DEF OneRequest, WorkerTypes, Tasks, EpochTypes
  <2>2. M!Phase # "none"
    BY <1>1, <1>6 DEF M!Phase, WorkerTypes
  <2>3. M!Asked = task
    BY <1>2, <1>6, <2>1 DEF M!Asked
  <2>4. M!Standing = (task.gen = device)
    BY <1>3, <2>1, <2>2, <2>3, WorksAreNone DEF M!Standing
  <2>5. task.gen = Accepted <=> task.gen = device /\ DeviceCurrent
    BY <1>3, <1>4, <2>1
  <2>6. M!Allowed = (task.gen = device /\ DeviceCurrent)
    BY <2>2, <2>3, <2>5 DEF M!Allowed
  <2> QED
    BY <1>6, <2>1, <2>2, <2>3, <2>4, <2>6 DEF MediaSeen
<1>7. CASE pending = M!Nothing /\ stage = "idle"
  <2>1. M!Phase = "none"
    BY <1>7 DEF M!Phase
  <2>2. M!Asked = M!NoTask
    BY <1>2, <1>7 DEF M!Asked
  <2> QED
    BY <1>7, <2>1, <2>2 DEF M!Standing, M!Allowed, MediaSeen
<1> QED
  BY <1>5, <1>6, <1>7

\* ... and so before and after every step.
LEMMA MediaIsSeenNext == SessionInv /\ SessionInv' => MediaSeen /\ MediaSeen'
BY MediaIsSeen, PTL

\* What touches neither the worker nor the generations is not seen.
LEMMA SameMediaIsSeen ==
    ASSUME UNCHANGED <<pending, cancelled, observed, task, stage, executed, results, closing>>,
           UNCHANGED <<device, generation, permitted>>
    PROVE  UNCHANGED M!Promise!requestsVars
<1>1. UNCHANGED Accepted
  BY DEF Accepted
<1> QED
  BY <1>1 DEF M!Promise!requestsVars, M!Asked, M!Phase, M!Standing, M!Allowed, M!Answered, M!Busy

\* request() asks, and whether the device is seen to have changed by then is
\* decided already.
LEMMA RequestAsks ==
    ASSUME SessionInv, SessionInv', NEW work \in PlainWorks, M!Request(work),
           UNCHANGED <<device, generation, permitted>>
    PROVE  M!Promise!Ask
<1>1. MediaSeen /\ MediaSeen'
  BY MediaIsSeenNext
<1>2. EpochTypes /\ WorkerTypes
  BY DEF SessionInv, TypeInv
<1>3. /\ pending = M!Nothing /\ stage = "idle" /\ results = <<>> /\ results' = <<>> /\ stage' = "idle"
      /\ pending' = [work |-> work, job |-> 0]
  BY <1>2, WorkerIdle DEF M!Request, M!runVars
<1>4. pending' # M!Nothing
  BY <1>3, WorksAreNone
<1>5. M!Phase = "none" /\ M!Phase' = "asked"
  BY <1>1, <1>3, <1>4 DEF MediaSeen
<1>6. M!Asked' = [work |-> work, job |-> 0, gen |-> device]
  BY <1>1, <1>3, <1>4 DEF MediaSeen
<1>7. device \in Nat
  BY <1>2 DEF EpochTypes
<1>8. M!Asked' \in [work : M!Works, job : Nat, gen : Nat]
  BY <1>6, <1>7 DEF M!Works
<1>9. M!Standing' = TRUE
  BY <1>1, <1>4 DEF MediaSeen
<1>10. M!Allowed' \in BOOLEAN
  BY <1>1, <1>2, <1>4 DEF MediaSeen, DeviceCurrent, EpochTypes
<1>11. M!Answered = <<>> /\ M!Answered' = <<>>
  BY <1>3 DEF M!Answered
<1> QED
  BY <1>5, <1>8, <1>9, <1>10, <1>11 DEF M!Promise!Ask

\* pop() collects the one answer there is.
LEMMA PopCollects ==
    ASSUME SessionInv, M!Pop, UNCHANGED <<device, generation, permitted>> PROVE M!Promise!Collect
<1>1. /\ results # <<>> /\ results' = Tail(results)
      /\ UNCHANGED <<pending, cancelled, observed, task, stage, executed, closing>>
  BY DEF M!Pop, M!requestVars, M!runVars
<1>2. results \in Seq(Results) /\ Len(results) = 1
  BY <1>1 DEF SessionInv, TypeInv, WorkerTypes
<1>3. results' = <<>>
  BY <1>1, <1>2
<1>4. M!Answered' = <<>>
  BY <1>3 DEF M!Answered
<1>5. M!Answered # <<>>
  <2>1. DOMAIN M!Answered = {1}
    BY <1>2 DEF M!Answered
  <2> QED
    BY <2>1
<1>6. UNCHANGED Accepted
  BY DEF Accepted
<1>7. UNCHANGED <<M!Asked, M!Phase, M!Standing, M!Allowed>>
  BY <1>1, <1>6 DEF M!Asked, M!Phase, M!Standing, M!Allowed, M!Busy
<1> QED
  BY <1>4, <1>5, <1>7 DEF M!Promise!Collect

\* Another device withdraws what was asked for on the last one.
LEMMA ApplyWithdraws ==
    ASSUME SessionInv, SessionInv', ApplyObservation(generation'), device < generation'
    PROVE  M!Promise!Withdraw
<1>1. MediaSeen /\ MediaSeen'
  BY MediaIsSeenNext
<1>2. EpochTypes /\ WorkerTypes /\ OneRequest
  BY DEF SessionInv, TypeInv
<1>3. device' = generation' /\ pending' = M!Nothing /\ results' = <<>> /\ UNCHANGED <<task, stage, executed>>
  BY <1>2 DEF ApplyObservation, InvalidateMedia, M!Invalidate, M!runVars, EpochTypes
<1>4. M!Answered' = <<>>
  BY <1>3 DEF M!Answered
<1>5. CASE stage = "idle" /\ pending # M!Nothing
  <2>1. M!Phase = "asked" /\ M!Phase' = "none" /\ M!Asked' = M!NoTask /\ M!Standing' = FALSE /\ M!Allowed' = FALSE
    BY <1>1, <1>3, <1>5 DEF MediaSeen
  <2> QED
    BY <1>4, <2>1 DEF M!Promise!Withdraw, M!Promise!Gone
<1>6. CASE stage = "idle" /\ pending = M!Nothing
  BY <1>1, <1>3, <1>4, <1>6 DEF MediaSeen, M!Promise!Withdraw
<1>7. CASE stage # "idle"
  <2>1. pending = M!Nothing
    BY <1>2, <1>7 DEF OneRequest
  <2>2. M!Phase' = M!Phase
    BY <1>3, <2>1 DEF M!Phase
  <2>3. task.gen # device'
    BY <1>2, <1>3 DEF WorkerTypes, EpochTypes
  <2>4. M!Asked' = M!Asked /\ M!Standing' = FALSE /\ M!Allowed' = FALSE
    BY <1>1, <1>3, <1>7, <2>3 DEF MediaSeen
  <2> QED
    BY <1>4, <2>2, <2>4 DEF M!Promise!Withdraw
<1> QED
  BY <1>5, <1>6, <1>7

\* A new generation is the lapse of what was asked for on an older one.
LEMMA ObserverLapses == ASSUME SessionInv, SessionInv', ObserverThread PROVE M!Promise!Lapse
<1>1. MediaSeen' /\ EpochTypes
  BY MediaIsSeenNext DEF SessionInv, TypeInv
<1>2. /\ generation' = generation + 1
      /\ UNCHANGED <<pending, cancelled, observed, task, stage, executed, results, closing, device>>
  BY DEF ObserverThread, NewEpoch, otherFrame, sessionVars, contextVars, workerVars, requestVars
<1>3. DeviceCurrent' = FALSE
  BY <1>1, <1>2 DEF DeviceCurrent, EpochTypes
<1>4. M!Allowed' = FALSE
  BY <1>1, <1>3 DEF MediaSeen
<1>5. UNCHANGED <<M!Asked, M!Phase, M!Standing, M!Answered>>
  BY <1>2 DEF M!Asked, M!Phase, M!Standing, M!Answered, M!Busy
<1> QED
  BY <1>4, <1>5 DEF M!Promise!Lapse

\* A step of the session is one of the worker's user, or is not seen.
LEMMA SessionIsPromised ==
    ASSUME SessionInv, SessionInv', Session PROVE [M!Promise!Next]_(M!Promise!requestsVars)
<1>1. ASSUME UNCHANGED workerVars, UNCHANGED <<device, generation, permitted>>
      PROVE  UNCHANGED M!Promise!requestsVars
  BY <1>1, SameMediaIsSeen DEF workerVars, requestVars
<1>2. ASSUME NEW work \in PlainWorks, M!Request(work), UNCHANGED <<device, generation, permitted>>
      PROVE  M!Promise!Next
  BY <1>2, RequestAsks DEF M!Promise!Next
<1>3. ASSUME ApplyObservation(generation'), device < generation' PROVE M!Promise!Next
  BY <1>3, ApplyWithdraws DEF M!Promise!Next
<1>4. device \in Nat /\ generation \in Nat /\ device <= generation
  BY DEF SessionInv, TypeInv, EpochTypes
<1>5. CASE Observe
  <2>1. CASE generation = device
    BY <1>1, <1>5, <2>1 DEF Observe, epochVars, sessionVars, contextVars
  <2>2. CASE generation # device
    <3>1. ApplyObservation(generation') /\ device < generation'
      BY <1>4, <1>5, <2>2 DEF Observe, epochVars
    <3> QED
      BY <1>3, <3>1
  <2> QED
    BY <2>1, <2>2
<1>6. CASE Gate \/ Serve \/ Input
  <2>1. UNCHANGED workerVars
    BY <1>6 DEF Gate, Serve, Input
  <2>2. UNCHANGED <<generation, permitted>>
    BY <1>6 DEF Gate, Serve, Input, epochVars
  <2>3. UNCHANGED device
    BY <1>6 DEF Gate, Serve, Input, Control, ControlFails, Refuse, Eject, EjectFails, StartCapture, contextVars,
                sessionVars
  <2> QED
    BY <1>1, <2>1, <2>2, <2>3
<1>7. CASE RequestMedia
  <2>1. UNCHANGED <<device, generation, permitted>>
    BY <1>7 DEF RequestMedia, requestFrame, epochVars
  <2>2. (\E work \in PlainWorks : M!Request(work)) \/ UNCHANGED workerVars
    BY <1>7, WorksAreNone DEF RequestMedia, RequestProbe, RequestEject, RequestStop, RequestNothing
  <2> QED
    BY <1>1, <1>2, <2>1, <2>2
<1>8. CASE PollMedia
  <2>1. UNCHANGED <<device, generation, permitted>>
    BY <1>8 DEF PollMedia, contextVars, epochVars
  <2>2. M!Request("observe") \/ UNCHANGED workerVars
    BY <1>8 DEF PollMedia
  <2> QED
    BY <1>1, <1>2, <2>1, <2>2, WorksAreNone
<1>9. CASE PopResult
  <2>1. UNCHANGED <<device, generation, permitted>>
    BY <1>9 DEF PopResult, contextVars, epochVars
  <2>2. M!Pop \/ UNCHANGED workerVars
    BY <1>9 DEF PopResult
  <2> QED
    BY <1>1, <2>1, <2>2, PopCollects DEF M!Promise!Next
<1>10. CASE Handle
  <2>1. UNCHANGED <<device, generation, permitted>>
    BY <1>10 DEF Handle, HandleUnwanted, HandleError, HandleProbe, HandleObserve, HandleToc, HandleStop, HandleEject,
                 Handling, contextVars, epochVars
  <2>2. M!Request("read_toc") \/ UNCHANGED workerVars
    BY <1>10 DEF Handle, HandleUnwanted, HandleError, HandleProbe, HandleObserve, ObserveLoading, ObserveEmpty, ObserveAudio,
                 HandleToc, HandleStop, HandleEject
  <2> QED
    BY <1>1, <1>2, <2>1, <2>2, WorksAreNone
<1>11. CASE Tick
  <2>1. CASE TickReadFails /\ DeviceCurrent
    <3>1. ApplyObservation(generation') /\ device < generation'
      BY <1>4, <2>1 DEF TickReadFails, DeviceCurrent
    <3> QED
      BY <1>3, <3>1
  <2>2. CASE TickOn \/ TickDone \/ TickRecovers \/ TickOutputFails \/ (TickReadFails /\ ~DeviceCurrent)
    <3>1. UNCHANGED workerVars /\ UNCHANGED <<device, generation, permitted>>
      BY <2>2 DEF TickOn, TickDone, TickRecovers, TickOutputFails, TickReadFails, tickFrame, sessionVars, contextVars, epochVars
    <3> QED
      BY <1>1, <3>1
  <2> QED
    BY <1>11, <2>1, <2>2 DEF Tick
<1> QED
  BY <1>5, <1>6, <1>7, <1>8, <1>9, <1>10, <1>11 DEF Session

\* An operation was executed if it is under way, and was not before.
ExecutedInv ==
    /\ stage \in {"check", "wait", "admit"} => ~executed
    /\ stage = "operate" => executed

LEMMA ExecutedStep == SessionInv /\ ExecutedInv /\ [Next]_vars => ExecutedInv'
<1> SUFFICES ASSUME SessionInv, ExecutedInv, [Next]_vars PROVE ExecutedInv'
  OBVIOUS
<1>1. CASE UNCHANGED <<stage, executed>>
  BY <1>1 DEF ExecutedInv
<1>2. CASE MediaThread
  <2>1. CASE M!Judge \/ M!Finish \/ M!Take \/ M!Exit
    BY <2>1 DEF ExecutedInv, M!Judge, M!Finish, M!Take, M!Exit, M!Goto
  <2>2. CASE M!CheckBeforeDrive \/ M!Acquire \/ M!AdmitOperation \/ M!RefuseOperation
    BY <2>2 DEF ExecutedInv, M!CheckBeforeDrive, M!Acquire, M!AdmitOperation, M!RefuseOperation, M!Goto
  <2>3. CASE MediaCall
    BY <2>3 DEF ExecutedInv, MediaCall, M!Operate
  <2> QED
    BY <1>2, <2>1, <2>2, <2>3 DEF MediaThread, M!MediaStep
<1>3. CASE Session
  <2>1. CASE Observe \/ Tick
    BY <1>1, <2>1 DEF Observe, Tick, TickOn, TickDone, TickRecovers, TickOutputFails, TickReadFails, tickFrame,
                      ApplyObservation, InvalidateMedia, M!Invalidate, M!mediaVars, M!runVars, workerVars
  <2>2. CASE Gate \/ Serve \/ Input
    BY <1>1, <2>2 DEF Gate, Serve, Input, workerVars
  <2>3. CASE RequestMedia \/ PopResult \/ PollMedia
    BY <1>1, <2>3 DEF RequestMedia, RequestProbe, RequestEject, RequestStop, RequestNothing, PopResult, PollMedia,
                      M!Request, M!Pop, M!runVars, workerVars
  <2>4. CASE Handle
    BY <1>1, <2>4 DEF Handle, HandleUnwanted, HandleError, HandleProbe, HandleObserve, ObserveLoading, ObserveEmpty,
                      ObserveAudio, HandleToc, HandleStop, HandleEject, M!Request, M!runVars, workerVars
  <2> QED
    BY <1>3, <2>1, <2>2, <2>3, <2>4 DEF Session
<1>4. CASE Pcm
  BY <1>1, <1>4, PcmFrame
<1>5. CASE SessionEnds \/ ObserverThread \/ CaptureCalls \/ CaptureReturns \/ ChangeDisc \/ UNCHANGED vars
  BY <1>1, <1>5 DEF SessionEnds, ObserverThread, CaptureCalls, CaptureReturns, ChangeDisc, vars, workerVars
<1> QED
  BY <1>2, <1>3, <1>4, <1>5 DEF Next, SessionOver

LEMMA ExecutedInvariant == Spec => []ExecutedInv
<1>1. Init => ExecutedInv
  BY DEF Init, M!MediaInit, ExecutedInv
<1> QED
  BY <1>1, ExecutedStep, SessionInvariant, PTL DEF Spec

\* While the thread is at a request, only how far it has come is seen.
LEMMA AtWorkIsSeen ==
    ASSUME SessionInv, SessionInv', MediaThread, stage # "idle", stage' # "idle", UNCHANGED <<task, pending, results>>
    PROVE  /\ UNCHANGED <<M!Asked, M!Standing, M!Allowed, M!Answered>>
           /\ pending = M!Nothing
           /\ M!Standing = (task.gen = device) /\ M!Allowed = (task.gen = device /\ DeviceCurrent)
<1>1. MediaSeen /\ MediaSeen'
  BY MediaIsSeenNext
<1>2. pending = M!Nothing
  BY DEF SessionInv, OneRequest
<1>3. UNCHANGED <<device, generation, permitted>>
  BY MediaThreadFrame
<1> QED
  BY <1>1, <1>2, <1>3 DEF MediaSeen, DeviceCurrent, M!Answered

\* The thread takes a request: nothing is seen of it.
LEMMA TakeIsUnseen == ASSUME SessionInv, SessionInv', MediaThread, M!Take PROVE UNCHANGED M!Promise!requestsVars
<1>1. MediaSeen /\ MediaSeen' /\ WorkerTypes
  BY MediaIsSeenNext DEF SessionInv, TypeInv
<1>2. UNCHANGED <<device, generation, permitted>> /\ observed = device
  BY <1>1, MediaThreadFrame DEF SessionInv, TypeInv, EpochTypes
<1>3. /\ stage = "idle" /\ pending # M!Nothing /\ stage' = "check" /\ pending' = M!Nothing /\ UNCHANGED results
      /\ task' = [work |-> pending.work, job |-> pending.job, gen |-> observed]
  BY DEF M!Take
<1>4. M!Phase = "asked" /\ M!Phase' = "asked"
  BY <1>1, <1>3 DEF MediaSeen, M!Phase
<1>5. M!Asked = task' /\ M!Asked' = task'
  BY <1>1, <1>2, <1>3 DEF MediaSeen
<1>6. task'.gen = device
  BY <1>2, <1>3
<1>7. UNCHANGED <<M!Standing, M!Allowed>>
  BY <1>1, <1>2, <1>3, <1>6 DEF MediaSeen, DeviceCurrent
<1> QED
  BY <1>3, <1>4, <1>5, <1>7 DEF M!Promise!requestsVars, M!Answered

\* What the thread asks before an operation, the operation, and what is made
\* of its result: each is a step of the promise, or not seen.
LEMMA WorkIsPromised ==
    ASSUME SessionInv, SessionInv', ExecutedInv, MediaThread,
           M!CheckBeforeDrive \/ M!Acquire \/ M!AdmitOperation \/ M!RefuseOperation \/ MediaCall \/ M!Judge
    PROVE  [M!Promise!Next]_(M!Promise!requestsVars)
<1>1. TypeInv /\ WorkerTypes
  BY DEF SessionInv, TypeInv
<1>2. stage # "idle" /\ stage' # "idle" /\ UNCHANGED <<task, pending, results>>
  BY DEF M!CheckBeforeDrive, M!Acquire, M!AdmitOperation, M!RefuseOperation, MediaCall, M!Operate, M!Judge, M!Goto,
         M!requestVars
<1>3. /\ UNCHANGED <<M!Asked, M!Standing, M!Allowed, M!Answered>>
      /\ pending = M!Nothing /\ pending' = M!Nothing /\ task.work \in PlainWorks
      /\ M!Standing = (task.gen = device) /\ M!Allowed = (task.gen = device /\ DeviceCurrent)
  BY <1>1, <1>2, AtWorkIsSeen DEF WorkerTypes, Tasks
<1>4. (M!Current(task.gen) <=> M!Standing /\ M!Allowed) /\ (M!Admissible <=> M!Current(task.gen))
  BY <1>1, <1>3, AcceptedMeans, WorksAreNone DEF M!Admissible
<1>5. CASE M!CheckBeforeDrive
  <2>1. CASE M!Current(task.gen)
    <3>1. M!Phase = "asked" /\ M!Phase' = "asked"
      BY <1>3, <1>5, <2>1 DEF M!CheckBeforeDrive, M!Goto, M!Phase
    <3> QED
      BY <1>3, <3>1 DEF M!Promise!requestsVars
  <2>2. CASE ~M!Current(task.gen)
    <3>1. M!Phase = "asked" /\ stage' = "judge" /\ ~executed'
      BY <1>3, <1>5, <2>2 DEF M!CheckBeforeDrive, M!Goto, M!Phase, ExecutedInv
    <3>2. M!Phase' = "refused"
      BY <1>3, <3>1 DEF M!Phase
    <3> QED
      BY <1>3, <1>4, <2>2, <3>1, <3>2 DEF M!Promise!Next, M!Promise!Refuse, M!Promise!Goes
  <2> QED
    BY <2>1, <2>2
<1>6. CASE M!Acquire
  <2>1. M!Phase = "asked" /\ M!Phase' = "asked"
    BY <1>3, <1>6 DEF M!Acquire, M!Goto, M!Phase
  <2> QED
    BY <1>3, <2>1 DEF M!Promise!requestsVars
<1>7. CASE M!AdmitOperation
  <2>1. M!Phase = "asked" /\ M!Phase' = "running"
    BY <1>3, <1>7 DEF M!AdmitOperation, M!Phase
  <2>2. M!Standing /\ M!Allowed
    BY <1>4, <1>7 DEF M!AdmitOperation
  <2> QED
    BY <1>3, <2>1, <2>2 DEF M!Promise!Next, M!Promise!Begin, M!Promise!Goes
<1>8. CASE M!RefuseOperation
  <2>1. M!Phase = "asked" /\ stage' = "judge" /\ ~executed'
    BY <1>3, <1>8 DEF M!RefuseOperation, M!Goto, M!Phase, ExecutedInv
  <2>2. M!Phase' = "refused"
    BY <1>3, <2>1 DEF M!Phase
  <2>3. ~(M!Standing /\ M!Allowed)
    BY <1>4, <1>8 DEF M!RefuseOperation
  <2> QED
    BY <1>3, <2>1, <2>2, <2>3 DEF M!Promise!Next, M!Promise!Refuse, M!Promise!Goes
<1>9. CASE MediaCall
  <2>1. stage = "operate" /\ stage' = "judge" /\ executed'
    BY <1>9 DEF MediaCall, M!Operate, ExecutedInv
  <2>2. M!Phase = "running" /\ M!Phase' = "returned"
    BY <1>3, <2>1 DEF M!Phase
  <2> QED
    BY <1>3, <2>2 DEF M!Promise!Next, M!Promise!Return, M!Promise!Goes
<1>10. CASE M!Judge
  <2>1. stage = "judge" /\ stage' = "finish" /\ executed' = (executed /\ M!Current(task.gen))
    BY <1>10 DEF M!Judge, M!Deliverable
  <2>2. CASE ~executed
    <3>1. M!Phase = "refused" /\ M!Phase' = "refused"
      BY <1>3, <2>1, <2>2 DEF M!Phase
    <3> QED
      BY <1>3, <3>1 DEF M!Promise!requestsVars
  <2>3. CASE executed /\ M!Current(task.gen)
    <3>1. M!Phase = "returned" /\ M!Phase' = "kept"
      BY <1>3, <2>1, <2>3 DEF M!Phase
    <3> QED
      BY <1>3, <1>4, <2>3, <3>1 DEF M!Promise!Next, M!Promise!Keep, M!Promise!Goes
  <2>4. CASE executed /\ ~M!Current(task.gen)
    <3>1. M!Phase = "returned" /\ M!Phase' = "refused"
      BY <1>3, <2>1, <2>4 DEF M!Phase
    <3> QED
      BY <1>3, <1>4, <2>4, <3>1 DEF M!Promise!Next, M!Promise!Refuse, M!Promise!Goes
  <2> QED
    BY <1>1, <2>2, <2>3, <2>4 DEF WorkerTypes
<1> QED
  BY <1>5, <1>6, <1>7, <1>8, <1>9, <1>10

\* A result that is wanted is the answer; of another request nothing is left.
LEMMA FinishIsPromised ==
    ASSUME SessionInv, SessionInv', MediaThread, M!Finish PROVE M!Promise!Answer \/ M!Promise!GiveUp
<1>1. /\ stage = "finish" /\ stage' = "idle"
      /\ results' = IF M!Wanted THEN Append(results, M!Result) ELSE results
      /\ UNCHANGED pending
  BY DEF M!Finish, M!requestVars
<1>2. MediaSeen /\ MediaSeen' /\ WorkerTypes /\ closing = FALSE /\ observed = device
  BY MediaIsSeenNext DEF SessionInv, TypeInv, WorkerTypes, EpochTypes
<1>3. pending = M!Nothing /\ results = <<>> /\ task \in Tasks
  BY <1>1 DEF SessionInv, TypeInv, OneRequest, WorkerTypes
<1>4. M!Promise!Gone
  BY <1>1, <1>2, <1>3 DEF MediaSeen, M!Promise!Gone
<1>5. M!Asked = task /\ M!Standing = (task.gen = device)
  BY <1>1, <1>2 DEF MediaSeen
<1>6. M!Wanted <=> M!Standing /\ executed
  BY <1>2, <1>3, <1>5, WorksAreNone DEF M!Wanted, Tasks
<1>7. CASE M!Wanted
  <2>1. M!Phase = "kept" /\ M!Standing
    BY <1>1, <1>3, <1>6, <1>7 DEF M!Phase
  <2> DEFINE r == M!Result
  <2>2. [work |-> r.work, job |-> r.job, gen |-> r.gen] = task
    BY <1>3 DEF M!Result, Tasks
  <2> HIDE DEF r
  <2>3. results' = <<r>>
    BY <1>1, <1>3, <1>7 DEF r
  <2>4. DOMAIN results' = {1} /\ results'[1] = r
    BY <2>3
  <2>5. M!Answered' = <<[work |-> r.work, job |-> r.job, gen |-> r.gen]>>
    BY <2>4 DEF M!Answered
  <2> QED
    BY <1>4, <1>5, <2>1, <2>2, <2>5 DEF M!Promise!Answer
<1>8. CASE ~M!Wanted
  <2>1. M!Phase = "refused" \/ (M!Phase = "kept" /\ ~M!Standing)
    BY <1>1, <1>2, <1>3, <1>6, <1>8 DEF M!Phase, WorkerTypes
  <2>2. M!Answered' = M!Answered
    BY <1>1, <1>8 DEF M!Answered
  <2> QED
    BY <1>4, <2>1, <2>2 DEF M!Promise!GiveUp
<1> QED
  BY <1>7, <1>8

\* Every step of the daemon is a step of the promise, or is not seen.
LEMMA StepIsPromised ==
    ASSUME SessionInv, SessionInv', ExecutedInv, [Next]_vars
    PROVE  [M!Promise!Next]_(M!Promise!requestsVars)
<1>1. CASE MediaThread
  <2>1. ~M!Exit
    BY DEF M!Exit, SessionInv, TypeInv, WorkerTypes
  <2>2. CASE M!Take
    BY <1>1, <2>2, TakeIsUnseen
  <2>3. CASE M!Finish
    BY <1>1, <2>3, FinishIsPromised DEF M!Promise!Next
  <2> QED
    BY <1>1, <2>1, <2>2, <2>3, WorkIsPromised DEF MediaThread, M!MediaStep
<1>2. CASE Session
  BY <1>2, SessionIsPromised
<1>3. CASE ObserverThread
  BY <1>3, ObserverLapses DEF M!Promise!Next
<1>4. CASE Pcm \/ SessionEnds \/ CaptureCalls \/ CaptureReturns \/ ChangeDisc \/ UNCHANGED vars
  <2>1. /\ UNCHANGED <<pending, cancelled, observed, task, stage, executed, results, closing>>
        /\ UNCHANGED <<device, generation, permitted>>
    BY <1>4 DEF Pcm, PcmDiscard, PcmClose, PcmCall, PcmEnter, PcmReturn, pcmFrame, SessionEnds, CaptureCalls, CaptureReturns, ChangeDisc,
                otherFrame, vars, sessionVars, contextVars, epochVars, workerVars, requestVars
  <2> QED
    BY <2>1, SameMediaIsSeen
<1> QED
  BY <1>1, <1>2, <1>3, <1>4 DEF Next, SessionOver

\* The media worker keeps its promise to the session: whatever the session asks
\* for and however the device changes meanwhile, MediaWorker::run() touches the
\* drive only for a request that stands, and answers it once, if it still stands
\* and its device did not change, and else never.
THEOREM MediaIsAsPromisedAlways == Spec => MediaIsAsPromised
<1>1. Init => M!Promise!Init
  <2> SUFFICES ASSUME Init PROVE M!Promise!Init
    OBVIOUS
  <2>1. pending = M!Nothing /\ stage = "idle" /\ results = <<>>
    BY DEF Init, M!MediaInit
  <2>2. M!Phase = "none" /\ M!Asked = M!NoTask
    BY <2>1 DEF M!Phase, M!Asked, M!Busy
  <2> QED
    BY <2>1, <2>2 DEF M!Promise!Init, M!Standing, M!Allowed, M!Answered
<1>2. SessionInv /\ SessionInv' /\ ExecutedInv /\ [Next]_vars => [M!Promise!Next]_(M!Promise!requestsVars)
  BY StepIsPromised
<1> QED
  BY <1>1, <1>2, SessionInvariant, ExecutedInvariant, PTL DEF Spec, MediaIsAsPromised, M!ImplementsRequests, M!Promise!Spec
=============================================================================
