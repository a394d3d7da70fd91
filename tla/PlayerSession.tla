--------------------------- MODULE PlayerSession ---------------------------
(***************************************************************************)
(* run_player_session(): the loop of the session thread, and how it keeps  *)
(* the drive's users apart.  In every round it applies the observer's      *)
(* snapshot, decides whether the drive may be used, asks the media worker  *)
(* for something, applies the results that came back, lets the engine      *)
(* tick, serves commands and asks for a poll of the media.  Each of these  *)
(* is one step; the observer, the media worker, the PCM reader's thread, a *)
(* capture and the listener at the drive run between them.                 *)
(*                                                                         *)
(* The observer is DeviceEpochs and the media worker is MediaWorker.  The  *)
(* PCM worker, the engine and the capture have modules of their own and    *)
(* appear here by what the session sees of them: whether there is a stream,*)
(* a reader, a call in flight, and whether the engine drives it; whether a *)
(* capture is busy.  Every reset of the output may throw: what catches the *)
(* exception goes on, and where nothing does the daemon ends.  A C2        *)
(* assessment is left to C2Assessment, drive speed requests, policies and  *)
(* the orderly shutdown are not modelled, and every track may be played.   *)
(***************************************************************************)
EXTENDS DeviceEpochs, Sequences

CONSTANTS
    HasOffset,  \* a read offset is configured
    MaxSwaps    \* bound: how often the listener puts a disc in or takes one out

ASSUME SessionConstants == HasOffset \in BOOLEAN /\ MaxSwaps \in Nat

VARIABLES
    at,             \* the session's place in its loop
    device,         \* device_observation.generation, accepted by the readers
    contextReady, retiring, mayAccess,
    media,          \* the state of media_state
    observedEmpty,  \* observed_empty_ of media_state
    loaded,         \* loaded_toc is there
    needsRefresh, tocPending,
    ejectPending, ejectInflight,
    probeAttempted, probeFinished,
    playback,       \* the controller's intent
    pcm,            \* the PCM worker, as the session sees it
    capture,        \* the capture: idle, busy, or stopped and being released
    popped,         \* the result being handled
    pending, cancelled, observed, task, stage, executed, outcome, spoilt, results, closing,  \* MediaWorker
    drive, tray, swaps,
    emptyIn         \* history: the generation the drive was last found empty in

contextVars == <<device, contextReady, retiring, probeAttempted, probeFinished>>
discVars == <<media, observedEmpty, loaded, needsRefresh, tocPending, ejectPending, ejectInflight, emptyIn>>
playVars == <<playback, pcm>>
sessionVars == <<contextVars, discVars, playVars, capture, mayAccess>>
requestVars == <<pending, cancelled, observed, results>>
workerVars == <<requestVars, closing, task, stage, executed, outcome, spoilt>>
worldVars == <<drive, tray, swaps>>
vars == <<epochVars, sessionVars, at, popped, workerVars, worldVars>>

NoGeneration == MaxObservations + 1

\* What the media worker's current_ callback accepts.
Accepted == IF permitted /\ device = generation THEN device ELSE NoGeneration

PlainWorks == {"probe_drive", "observe", "read_toc", "eject", "stop_drive"}

M == INSTANCE MediaWorker WITH
    MaxJobs <- 0, permitted <- Accepted

Trays == {"empty", "audio", "data"}
MediaStates == {"no_disc", "loading", "audio_ready", "unsupported", "ejecting", "eject_error"}

\* device_context_current()
DeviceCurrent == permitted /\ device = generation
ContextCurrent == contextReady /\ DeviceCurrent /\ ~retiring

NoStream == [driven |-> FALSE, active |-> FALSE, done |-> FALSE, error |-> FALSE, own |-> FALSE,
             discard |-> FALSE, open |-> FALSE, call |-> "none", gen |-> 0, quiet |-> FALSE]

Init ==
    /\ EpochInit /\ M!MediaInit
    /\ at = "observe" /\ device = 0 /\ contextReady = FALSE /\ retiring = FALSE /\ mayAccess = FALSE
    /\ media = "no_disc" /\ observedEmpty = FALSE /\ loaded = FALSE
    /\ needsRefresh = TRUE /\ tocPending = FALSE
    /\ ejectPending = FALSE /\ ejectInflight = FALSE
    /\ probeAttempted = FALSE /\ probeFinished = FALSE
    /\ playback = "no_disc" /\ pcm = NoStream /\ capture = "idle"
    /\ popped = <<>>
    /\ drive = "free" /\ tray \in Trays /\ swaps = 0 /\ emptyIn = NoGeneration

-----------------------------------------------------------------------------
(* The PCM worker and the engine.                                          *)

\* device_released()
Released(p) == ~p.active /\ p.call = "none" /\ ~p.discard /\ ~p.open

\* cancel() and discard_reader(): a call in flight belongs to no stream now.
Cancelled(p) == [p EXCEPT !.active = FALSE, !.done = FALSE, !.error = FALSE, !.own = FALSE]
Discarded(p) == [Cancelled(p) EXCEPT !.discard = TRUE]

\* synchronize() up to output_.reset(): nothing is driven, and no stream is
\* left.  If the reset throws it stays so.
Halted(p) == [Cancelled(p) EXCEPT !.driven = FALSE, !.quiet = FALSE]

\* PlaybackEngine::synchronize(), by the intent it finds.
Synchronized(p, intent) ==
    CASE intent = "playing" -> [Halted(p) EXCEPT !.active = TRUE, !.driven = TRUE]
      [] intent = "stopped" -> [Halted(p) EXCEPT !.discard = TRUE, !.quiet = TRUE]
      [] OTHER -> Halted(p)

Follow(intent) == playback' = intent /\ pcm' = Synchronized(pcm, intent)

\* Mutant: the stream is cancelled after the output was reset.
FollowFailsFirst(intent) == playback' = intent /\ pcm' = [pcm EXCEPT !.driven = FALSE, !.quiet = FALSE]

\* The same intent, after a reset that threw.
FollowFails(intent) == playback' = intent /\ pcm' = Halted(pcm)

\* remove_disc(), synchronize(), discard_reader(), which for an observation of
\* the device come to the same when the reset throws and is caught.
RemoveDisc == playback' = "no_disc" /\ pcm' = Discarded(Synchronized(pcm, "no_disc"))

pcmFrame == <<epochVars, contextVars, discVars, playback, capture, mayAccess, at, popped, workerVars,
              tray, swaps>>

\* The reader's thread closes a reader that was given up, ...
PcmDiscard ==
    /\ pcm.call = "none" /\ pcm.discard
    /\ pcm' = [pcm EXCEPT !.discard = FALSE, !.call = "close"]
    /\ UNCHANGED <<pcmFrame, drive>>

\* ... or one whose open or read failed; a stream it still serves fails.
PcmClose ==
    /\ pcm.call \in {"close", "fail"}
    /\ pcm.open => drive = "free"
    /\ pcm' = [pcm EXCEPT !.open = FALSE, !.call = "none", !.own = FALSE,
                          !.error = @ \/ (pcm.call = "fail" /\ pcm.own),
                          !.active = @ /\ ~(pcm.call = "fail" /\ pcm.own)]
    /\ UNCHANGED <<pcmFrame, drive>>

\* A stream wants to open a reader or to read from it.
PcmCall ==
    /\ pcm.call = "none" /\ pcm.active /\ ~pcm.discard
    /\ pcm' = [pcm EXCEPT !.call = "wait", !.own = TRUE]
    /\ UNCHANGED <<pcmFrame, drive>>

\* With the drive held: is it still wanted?  A reader is opened under the
\* generation that is accepted now; the factory and the epoch reader refuse
\* to go on in another.
PcmEnter ==
    /\ pcm.call = "wait" /\ drive = "free"
    /\ LET gen == IF pcm.open THEN pcm.gen ELSE device IN
         IF ~pcm.own \/ ~pcm.active \/ pcm.discard
         THEN pcm' = [pcm EXCEPT !.call = "none", !.own = FALSE] /\ UNCHANGED drive
         ELSE IF gen = Accepted
         THEN pcm' = [pcm EXCEPT !.call = "held", !.gen = gen] /\ drive' = "pcm"
         ELSE pcm' = [pcm EXCEPT !.call = "fail", !.gen = gen] /\ UNCHANGED drive
    /\ UNCHANGED pcmFrame

\* The call returns; the last read of the disc ends the stream.
PcmReturn ==
    /\ pcm.call = "held" /\ drive' = "free"
    /\ \/ /\ pcm.gen = Accepted
          /\ pcm' = [pcm EXCEPT !.open = TRUE, !.call = "none", !.own = FALSE]
       \/ /\ pcm.gen = Accepted /\ pcm.open /\ pcm.own
          /\ pcm' = [pcm EXCEPT !.active = FALSE, !.done = TRUE, !.call = "none", !.own = FALSE]
       \/ pcm' = [pcm EXCEPT !.call = "fail"]
    /\ UNCHANGED pcmFrame

Pcm == PcmDiscard \/ PcmClose \/ PcmCall \/ PcmEnter \/ PcmReturn

-----------------------------------------------------------------------------
(* Round, part 1: the device.                                              *)

\* interrupt(): whether the capture is still busy is seen at once.
Interrupted ==
    IF capture = "idle" THEN {"idle"}
    ELSE {"releasing"} \cup (IF drive = "capture" THEN {} ELSE {"idle"})

\* Mutant: what was seen of the old device counts for the new one.
KeepMediaState == media' = "no_disc" /\ UNCHANGED <<observedEmpty, emptyIn>>

\* media_state = MediaStateTracker{}
ResetMediaState == media' = "no_disc" /\ observedEmpty' = FALSE /\ UNCHANGED emptyIn

InvalidateMedia(g) == M!Invalidate(g)

\* apply_device_observation() of another generation.
ApplyObservation(g) ==
    /\ capture' \in Interrupted
    /\ device' = g
    /\ InvalidateMedia(g)
    /\ RemoveDisc
    /\ loaded' = FALSE /\ tocPending' = FALSE /\ needsRefresh' = TRUE
    /\ ResetMediaState
    /\ contextReady' = FALSE /\ retiring' = TRUE
    /\ probeAttempted' = FALSE /\ probeFinished' = FALSE
    /\ ejectPending' = FALSE /\ ejectInflight' = FALSE

Observe ==
    /\ at = "observe" /\ at' = "gate"
    /\ IF generation = device THEN UNCHANGED <<sessionVars, workerVars>>
       ELSE ApplyObservation(generation) /\ UNCHANGED mayAccess
    /\ UNCHANGED <<epochVars, popped, worldVars>>

\* Mutant: the PCM reader of the old device is not waited for.
RetiredButPcm == ~M!Retiring /\ capture = "idle"

\* Has everything that ran on the old device let go of it?
Retired == Released(pcm) /\ ~M!Retiring /\ capture = "idle"

\* may_access_device is computed once in a round, and used until the results
\* of the media worker are in.
Gate ==
    /\ at = "gate" /\ at' = "request"
    /\ retiring' = (retiring /\ ~Retired)
    /\ mayAccess' = (~retiring' /\ DeviceCurrent /\ capture = "idle")
    /\ UNCHANGED <<device, contextReady, probeAttempted, probeFinished, discVars, playVars, capture,
                   epochVars, popped, workerVars, worldVars>>

CanEject == ejectPending /\ mayAccess /\ contextReady /\ Released(pcm)
CanProbe == ~probeAttempted /\ mayAccess /\ Released(pcm)
CanStopDrive ==
    /\ mayAccess /\ contextReady /\ media = "audio_ready" /\ playback = "stopped"
    /\ ~ejectPending /\ ~ejectInflight

requestFrame == <<device, contextReady, retiring, probeFinished, media, observedEmpty, loaded, needsRefresh,
                  tocPending, emptyIn, playVars, capture, mayAccess, epochVars, popped, worldVars>>

RequestProbe ==
    /\ CanProbe /\ M!Request("probe_drive")
    /\ probeAttempted' = TRUE /\ UNCHANGED <<ejectPending, ejectInflight>>

RequestEject ==
    /\ CanEject /\ M!Request("eject")
    /\ ejectPending' = FALSE /\ ejectInflight' = TRUE /\ UNCHANGED probeAttempted

\* After five minutes in a row without playback.
RequestStop ==
    /\ CanStopDrive /\ M!Request("stop_drive")
    /\ UNCHANGED <<probeAttempted, ejectPending, ejectInflight>>

\* The media worker is not idle, there is nothing to ask for, or the first
\* sample of the observer is still awaited.
RequestNothing ==
    /\ ~M!Idle \/ (~CanEject /\ (CanProbe => generation = 0))
    /\ UNCHANGED <<probeAttempted, ejectPending, ejectInflight, workerVars>>

RequestMedia ==
    /\ at = "request" /\ at' = "results"
    /\ RequestProbe \/ RequestEject \/ RequestStop \/ RequestNothing
    /\ UNCHANGED requestFrame

-----------------------------------------------------------------------------
(* Round, part 2: the results of the media worker.                         *)

\* With the last of them may_access_device has had its use.
PopResult ==
    /\ at = "results"
    /\ IF results = <<>>
       THEN at' = "tick" /\ mayAccess' = FALSE /\ UNCHANGED <<popped, workerVars>>
       ELSE at' = "handle" /\ M!Pop /\ popped' = <<Head(results)>> /\ UNCHANGED mayAccess
    /\ UNCHANGED <<contextVars, discVars, playVars, capture, epochVars, worldVars>>

\* Mutant: its own result is dropped.
FilteredEject(work) == media = "ejecting" /\ work # "probe_drive"

\* While ejecting only that result and the probe's are wanted.
Filtered(work) == media = "ejecting" /\ work \notin {"eject", "probe_drive"}

Handling(work) ==
    /\ at = "handle" /\ popped # <<>> /\ popped[1].work = work
    /\ at' = "results" /\ popped' = <<>>
    /\ UNCHANGED <<epochVars, worldVars, mayAccess>>

Applicable == popped[1].gen = device /\ DeviceCurrent /\ ~Filtered(popped[1].work)
Good == Applicable /\ popped[1].outcome # "error"

\* A stale result is dropped; one that is filtered, or an error, ends the
\* request it answers.
HandleUnwanted(work) ==
    /\ Handling(work)
    /\ popped[1].gen # device \/ ~DeviceCurrent \/ Filtered(work)
    /\ tocPending' = IF work = "read_toc" /\ popped[1].gen = device /\ DeviceCurrent THEN FALSE ELSE tocPending
    /\ UNCHANGED <<contextVars, media, observedEmpty, loaded, needsRefresh, ejectPending, ejectInflight,
                   emptyIn, playVars, capture, workerVars>>

HandleError(work) ==
    /\ Handling(work)
    /\ Applicable /\ popped[1].outcome = "error"
    /\ tocPending' = (tocPending /\ work # "read_toc")
    /\ probeFinished' = (probeFinished \/ work = "probe_drive")
    /\ ejectInflight' = (ejectInflight /\ work # "eject")
    /\ media' = IF work = "eject" THEN "eject_error" ELSE media
    /\ UNCHANGED <<device, contextReady, retiring, probeAttempted, observedEmpty, loaded, needsRefresh,
                   ejectPending, emptyIn, playVars, capture, workerVars>>

\* What the probe found is for the next reader, at once if nothing plays.
HandleProbe ==
    /\ Handling("probe_drive") /\ Good
    /\ probeFinished' = TRUE
    /\ pcm' = IF playback \in {"stopped", "no_disc"} THEN [pcm EXCEPT !.discard = TRUE] ELSE pcm
    /\ UNCHANGED <<device, contextReady, retiring, probeAttempted, discVars, playback, capture, workerVars>>

\* MediaStateTracker::observe()
AfterObservation(o) ==
    CASE media = "eject_error" /\ o = "audio_disc" -> media
      [] o = "no_disc" -> "no_disc"
      [] o = "not_ready" -> "loading"
      [] o = "audio_disc" -> "audio_ready"
      [] o = "unsupported_disc" -> "unsupported"
      [] OTHER -> media

SeeMedia(o) ==
    /\ media' = AfterObservation(o)
    /\ observedEmpty' = CASE o = "no_disc" -> TRUE [] o = "unsupported_disc" -> FALSE [] OTHER -> observedEmpty
    /\ emptyIn' = CASE o = "no_disc" -> device [] o = "unsupported_disc" -> NoGeneration [] OTHER -> emptyIn

\* Lack of information changes neither the media state nor the context, but
\* what the state it leaves calls for is done once more.
ObserveLoading ==
    /\ media' = "loading"
    /\ contextReady' = (contextReady /\ popped[1].outcome = "unknown")
    /\ IF media # "loading"
       THEN /\ capture' \in Interrupted
            /\ tocPending' = FALSE /\ needsRefresh' = TRUE
            /\ IF HasOffset THEN RemoveDisc ELSE UNCHANGED playVars
       ELSE UNCHANGED <<capture, tocPending, needsRefresh, playVars>>
    /\ UNCHANGED <<loaded, workerVars>>

\* Mutant: the TOC of a disc that is gone is kept.
ForgetNothing == tocPending' = FALSE /\ needsRefresh' = FALSE /\ UNCHANGED loaded

ForgetToc == tocPending' = FALSE /\ needsRefresh' = TRUE /\ loaded' = FALSE

ObserveEmpty ==
    /\ media' \in {"no_disc", "unsupported"}
    /\ contextReady' = (contextReady \/ popped[1].outcome # "unknown")
    /\ capture' \in Interrupted
    /\ ForgetToc
    /\ IF playback # "no_disc" THEN RemoveDisc ELSE UNCHANGED playVars
    /\ UNCHANGED workerVars

WantsToc == ~tocPending /\ (needsRefresh \/ ~loaded \/ playback = "no_disc")

ObserveAudio ==
    /\ media' \in {"audio_ready", "eject_error"}
    /\ IF media' = "audio_ready" /\ WantsToc /\ M!Idle
       THEN M!Request("read_toc") /\ tocPending' = TRUE
       ELSE UNCHANGED <<workerVars, tocPending>>
    /\ UNCHANGED <<contextReady, capture, needsRefresh, loaded, playVars>>

HandleObserve ==
    /\ Handling("observe") /\ Good
    /\ SeeMedia(popped[1].outcome)
    /\ ObserveLoading \/ ObserveEmpty \/ ObserveAudio
    /\ UNCHANGED <<device, retiring, probeAttempted, probeFinished, ejectPending, ejectInflight>>

\* A TOC that is new, or had to be read again, is loaded, which stops and
\* gives the reader up; after an empty drive it starts to play.
LoadToc ==
    LET stopped == Synchronized(pcm, "stopped") IN
    /\ capture' \in Interrupted
    /\ loaded' = TRUE
    /\ playback' = IF observedEmpty THEN "playing" ELSE "stopped"
    /\ pcm' = IF observedEmpty THEN Synchronized(stopped, "playing") ELSE stopped
    /\ observedEmpty' = FALSE
    /\ emptyIn' = IF observedEmpty THEN NoGeneration ELSE emptyIn

WantsLoad == media = "audio_ready" /\ (~loaded \/ playback = "no_disc" \/ needsRefresh)

HandleToc ==
    /\ Handling("read_toc") /\ Good
    /\ tocPending' = FALSE
    /\ needsRefresh' = (needsRefresh /\ media # "audio_ready")
    /\ contextReady' = (contextReady \/ media = "audio_ready")
    /\ IF WantsLoad
       THEN LoadToc
       ELSE UNCHANGED <<observedEmpty, emptyIn, loaded, playVars, capture>>
    /\ UNCHANGED <<device, retiring, probeAttempted, probeFinished, media, ejectPending, ejectInflight,
                   workerVars>>

HandleStop ==
    /\ Handling("stop_drive") /\ Good
    /\ UNCHANGED <<contextVars, discVars, playVars, capture, workerVars>>

\* The tray was seen open.
HandleEject ==
    /\ Handling("eject") /\ Good
    /\ ejectInflight' = FALSE
    /\ SeeMedia("no_disc")
    /\ ForgetToc
    /\ Follow("no_disc")
    /\ UNCHANGED <<contextVars, ejectPending, capture, workerVars>>

Handle ==
    \/ \E work \in PlainWorks : HandleUnwanted(work) \/ HandleError(work)
    \/ HandleProbe \/ HandleObserve \/ HandleToc \/ HandleStop \/ HandleEject

-----------------------------------------------------------------------------
(* Round, part 3: the engine, commands and the poll of the media.          *)

tickFrame == <<epochVars, sessionVars, popped, workerVars, worldVars>>

\* Nothing to do but to write and wait.
TickOn == ~(pcm.driven /\ (pcm.error \/ pcm.done)) /\ UNCHANGED tickFrame

\* The last block is still being heard; then the disc is finished.  A reset
\* that throws at the end is caught as the output's failure.
TickDone ==
    /\ pcm.driven /\ pcm.done
    /\ Follow("stopped") \/ UNCHANGED playVars
    /\ UNCHANGED <<epochVars, contextVars, discVars, capture, mayAccess, popped, workerVars, worldVars>>

\* The output fails, which is no fault of the device.
TickOutputFails ==
    /\ pcm.driven
    /\ playback' = "stopped" /\ pcm' = [Discarded(pcm) EXCEPT !.driven = FALSE]
    /\ UNCHANGED <<epochVars, contextVars, discVars, capture, mayAccess, popped, workerVars, worldVars>>

\* After an underrun the stream starts again, with a new reader.
TickRecovers ==
    /\ pcm.driven
    /\ pcm' = [Discarded(pcm) EXCEPT !.active = TRUE]
    /\ UNCHANGED <<epochVars, contextVars, discVars, playback, capture, mayAccess, popped, workerVars, worldVars>>

\* A read failed or takes too long: the device has to be validated again,
\* unless the observer knows already that it is another.
TickReadFails ==
    /\ pcm.driven /\ (pcm.error \/ pcm.call # "none")
    /\ IF DeviceCurrent
       THEN /\ generation < MaxObservations /\ generation' = generation + 1 /\ UNCHANGED permitted
            /\ ApplyObservation(generation + 1) /\ UNCHANGED mayAccess
       ELSE /\ playback' = "stopped" /\ pcm' = [Discarded(pcm) EXCEPT !.driven = FALSE]
            /\ UNCHANGED <<epochVars, contextVars, discVars, capture, mayAccess, workerVars>>
    /\ UNCHANGED <<popped, worldVars>>

Tick ==
    /\ at = "tick" /\ at' = "serve"
    /\ TickOn \/ TickDone \/ TickRecovers \/ TickOutputFails \/ TickReadFails

\* A command interrupts a capture first, and is refused while it is busy
\* still; only stop is not.
Interrupting(command) ==
    /\ capture' \in Interrupted
    /\ command = "stop" \/ capture' = "idle"

Allowed(command) ==
    /\ command \in {"stop", "pause"} \/ ContextCurrent
    /\ media # "ejecting" /\ playback # "no_disc"

\* A new intent, or a seek or another track under the present one.
CommandIntents(command) ==
    CASE command = "play" -> {"playing"} \ {playback}
      [] command = "pause" -> IF playback = "playing" THEN {"paused"} ELSE {}
      [] command = "stop" -> {"stopped"}
      [] command = "skip" -> {playback}

\* A command is accepted that asks for this intent.
Accepts(intent) ==
    \E command \in {"play", "pause", "stop", "skip"} :
        Interrupting(command) /\ Allowed(command) /\ intent \in CommandIntents(command)

Intents == {"stopped", "playing", "paused"}

Control ==
    /\ \E intent \in Intents : Accepts(intent) /\ Follow(intent)
    /\ UNCHANGED <<contextVars, discVars>>

\* The API answers with the error, and the session goes on.
ControlFails ==
    /\ \E intent \in Intents : Accepts(intent) /\ FollowFails(intent)
    /\ UNCHANGED <<contextVars, discVars>>

\* A command that has no effect but to interrupt a capture.
Refuse ==
    /\ capture' \in Interrupted
    /\ UNCHANGED <<contextVars, discVars, playVars>>

Stopped == IF playback = "no_disc" THEN "no_disc" ELSE "stopped"

MayEject == Interrupting("eject") /\ ContextCurrent /\ media # "ejecting"

Eject ==
    /\ MayEject
    /\ playback' = Stopped
    /\ pcm' = Discarded(Synchronized(pcm, playback'))
    /\ ejectPending' = TRUE /\ ejectInflight' = FALSE
    /\ media' = "ejecting" /\ tocPending' = FALSE
    /\ UNCHANGED <<contextVars, observedEmpty, loaded, needsRefresh, emptyIn>>

\* Its reset throws: playback is stopped, and nothing is ejected.
EjectFails == MayEject /\ FollowFails(Stopped) /\ UNCHANGED <<contextVars, discVars>>

\* capture_context() and start_rejection()
CanCapture ==
    /\ capture = "idle" /\ ContextCurrent
    /\ media = "audio_ready" /\ loaded /\ ~needsRefresh /\ ~ejectPending /\ ~ejectInflight
    /\ playback = "stopped" /\ pcm.quiet /\ Released(pcm) /\ M!Idle

StartCapture ==
    /\ CanCapture /\ capture' = "busy"
    /\ UNCHANGED <<contextVars, discVars, playVars>>

\* All the requests that have arrived are served.
Serve ==
    /\ at = "serve" /\ at' \in {"serve", "poll"}
    /\ Control \/ ControlFails \/ Refuse \/ Eject \/ EjectFails \/ StartCapture \/ UNCHANGED sessionVars
    /\ UNCHANGED <<mayAccess, epochVars, popped, workerVars, worldVars>>

\* The capture is polled before the media are, and its end is seen then.
CapturePolled ==
    {capture} \cup (IF capture # "idle" /\ drive # "capture" THEN {"idle"} ELSE {})
              \cup (IF capture = "busy" THEN {"releasing"} ELSE {})

\* Mutant: a capture that a command started is overlooked.
MayPollThoughBusy(busy) ==
    /\ ~retiring /\ DeviceCurrent /\ probeFinished /\ playback # "playing" /\ ~ejectPending /\ ~ejectInflight

MayPoll(busy) ==
    /\ ~retiring /\ DeviceCurrent /\ ~busy /\ probeFinished /\ playback # "playing"
    /\ ~ejectPending /\ ~ejectInflight

\* Every 500 ms.
PollMedia ==
    /\ at = "poll" /\ at' = "input"
    /\ capture' \in CapturePolled
    /\ \/ MayPoll(capture' # "idle") /\ M!Request("observe")
       \/ UNCHANGED workerVars
    /\ UNCHANGED <<contextVars, discVars, playVars, mayAccess, epochVars, popped, worldVars>>

\* CEC keys and lines from standard input come after the poll, all of them.
Input ==
    /\ at = "input" /\ at' \in {"input", "observe"}
    /\ Control \/ Refuse \/ UNCHANGED sessionVars
    /\ UNCHANGED <<mayAccess, epochVars, popped, workerVars, worldVars>>

\* The results that make the engine synchronize.
ResultSynchronizes(work) ==
    LET after == AfterObservation(popped[1].outcome) IN
    /\ popped[1].work = work /\ Good
    /\ work = "observe" =>
         CASE after = "loading" -> HasOffset /\ media # "loading"
           [] after \in {"no_disc", "unsupported"} -> playback # "no_disc"
           [] OTHER -> FALSE
    /\ work = "read_toc" => WantsLoad

\* Outside of the API and of the tick nothing catches what the reset throws.
\* The exception leaves the loop: StopOnExit stops what plays and the capture
\* is given up.  What the handler had done to the session's own variables by
\* then is gone with them; the threads go on until they are joined.
FailedResult ==
    /\ at = "handle" /\ popped # <<>>
    /\ \E work \in {"observe", "read_toc", "eject"} :
         /\ ResultSynchronizes(work)
         /\ FollowFails(IF work = "read_toc" THEN "stopped" ELSE "no_disc")

FailedInput ==
    /\ at = "input"
    /\ \E intent \in Intents : Accepts(intent)
    /\ FollowFails("stopped")

SessionEnds ==
    /\ FailedResult \/ FailedInput
    /\ at' = "ended" /\ capture' \in Interrupted
    /\ UNCHANGED <<contextVars, discVars, mayAccess, epochVars, popped, workerVars, worldVars>>

\* Nothing is left to do.
SessionOver == at = "ended" /\ UNCHANGED vars

Session == Observe \/ Gate \/ RequestMedia \/ PopResult \/ Handle \/ Tick \/ Serve \/ PollMedia \/ Input

-----------------------------------------------------------------------------
(* The other threads, the drive and the listener.                          *)

\* What an operation finds in the drive.
Answers(work) ==
    {"error"} \cup
    CASE work = "observe" ->
            {"unknown"} \cup
            (CASE tray = "empty" -> {"no_disc"}
               [] tray = "audio" -> {"not_ready", "audio_disc"}
               [] tray = "data" -> {"not_ready", "unsupported_disc"})
      [] work = "read_toc" -> IF tray = "audio" THEN {"toc"} ELSE {}
      [] OTHER -> {"ok"}

otherFrame == <<sessionVars, at, popped>>

MediaCall ==
    /\ \E o \in Answers(task.work) :
         /\ M!Operate(o)
         /\ tray' = IF task.work = "eject" /\ o = "ok" THEN "empty" ELSE tray
    /\ UNCHANGED <<otherFrame, epochVars, swaps>>

MediaThread ==
    \/ M!MediaStep /\ UNCHANGED <<otherFrame, epochVars, tray, swaps>>
    \/ MediaCall

ObserverThread == NewEpoch /\ UNCHANGED <<otherFrame, workerVars, worldVars>>

CaptureCalls ==
    /\ capture # "idle" /\ drive = "free" /\ drive' = "capture"
    /\ UNCHANGED <<otherFrame, epochVars, workerVars, tray, swaps>>

CaptureReturns ==
    /\ drive = "capture" /\ drive' = "free"
    /\ UNCHANGED <<otherFrame, epochVars, workerVars, tray, swaps>>

\* A disc is put in or taken out by hand.
ChangeDisc ==
    /\ swaps < MaxSwaps /\ swaps' = swaps + 1
    /\ tray' \in IF tray = "empty" THEN Trays \ {"empty"} ELSE {"empty"}
    /\ UNCHANGED <<otherFrame, epochVars, workerVars, drive>>

Next ==
    \/ Session \/ SessionEnds \/ SessionOver
    \/ Pcm \/ MediaThread \/ ObserverThread \/ CaptureCalls \/ CaptureReturns \/ ChangeDisc

Spec == Init /\ [][Next]_vars

\* Every thread runs, and a call on the drive returns; the session goes on to
\* its next stage, as finitely many commands arrive at a time.
FairSpec == Spec /\ WF_vars(Session /\ at' # at) /\ WF_vars(Pcm) /\ WF_vars(MediaThread) /\ WF_vars(CaptureReturns)

-----------------------------------------------------------------------------
\* Every variable holds a value of its type.
TypeOK ==
    /\ at \in {"observe", "gate", "request", "results", "handle", "tick", "serve", "poll", "input", "ended"}
    /\ device \in 0..generation /\ observed = device
    /\ {permitted, contextReady, retiring, mayAccess, observedEmpty, loaded, needsRefresh, tocPending,
        ejectPending, ejectInflight, probeAttempted, probeFinished} \subseteq BOOLEAN
    /\ media \in MediaStates /\ playback \in {"no_disc", "stopped", "playing", "paused"}
    /\ pcm.call \in {"none", "close", "fail", "wait", "held"} /\ pcm.gen \in 0..MaxObservations
    /\ {pcm.driven, pcm.active, pcm.done, pcm.error, pcm.own, pcm.discard, pcm.open, pcm.quiet} \subseteq BOOLEAN
    /\ capture \in {"idle", "busy", "releasing"}
    /\ drive \in {"free", "pcm", "media", "capture"} /\ tray \in Trays

\* The tray opens only when nothing else uses the disc: no reader is open,
\* nothing plays or is paused, and no capture is under way.
EjectAlone ==
    (stage = "operate" /\ task.work = "eject") =>
        /\ ~pcm.open /\ pcm.call \notin {"held", "fail"}
        /\ playback \notin {"playing", "paused"}
        /\ capture = "idle"

\* Once the session has stopped retiring, nothing is left on the drive that
\* was begun for a device that is gone.
OldDeviceIsGone ==
    ~retiring =>
        /\ (pcm.open \/ pcm.call = "held") => pcm.gen = device
        /\ ~M!Retiring

\* Whatever is driven is wanted, and is a stream or the rest of one that ended
\* or failed; no stream is left without the engine that drives it, also after
\* a reset that threw.  set_disc_generation() and reconfigure() throw when one
\* is.  A listener who wants to hear something may be left without a stream.
StreamFollowsIntent ==
    /\ pcm.active => pcm.driven
    /\ pcm.driven => playback = "playing" /\ (pcm.active \/ pcm.done \/ pcm.error)

\* A capture has the drive to itself: no stream, no reader and no media
\* operation, from its start until it is known to be released.
CaptureAlone == capture # "idle" => ~pcm.active /\ ~pcm.open /\ M!Idle

\* One user of the drive at a time: playback, a media operation or a capture,
\* and none of them from the time of another device.
DriveIsShared == TypeOK /\ EjectAlone /\ CaptureAlone /\ StreamFollowsIntent /\ OldDeviceIsGone

\* Is work on its way to the session?  What the session has heard of another
\* device by then is about to be forgotten.
Underway(work) ==
    \/ work \in {pending.work, task.work}
    \/ \E i \in 1..Len(results) : results[i].work = work
    \/ popped # <<>> /\ popped[1].work = work
    \/ ~DeviceCurrent

\* What the session waits for is on its way; nothing it dropped leaves it
\* waiting for ever.
NoRequestIsLost ==
    /\ tocPending => Underway("read_toc")
    /\ ejectInflight => Underway("eject")
    /\ (probeAttempted /\ ~probeFinished) => Underway("probe_drive")
    /\ media = "ejecting" <=> (ejectPending \/ ejectInflight)

\* What the player shows and plays is the disc whose TOC it has, unless that
\* is being read again, for as long as the daemon goes on.
DiscIsLoaded ==
    at # "ended" =>
        /\ playback # "no_disc" => loaded
        /\ (loaded /\ ~needsRefresh) => playback # "no_disc" /\ contextReady

\* The session follows what is in the drive: it waits for nothing that will
\* not come, and plays nothing else than what is loaded.
DiscIsTracked == NoRequestIsLost /\ DiscIsLoaded

\* The player starts by itself only for a disc that was put into a drive
\* found empty, and not when a device is connected again.
AutoplayNeedsInsertion ==
    [][(at = "handle" /\ playback' = "playing" /\ playback # "playing") => emptyIn = device]_vars

\* An eject comes to an end, whatever is in flight when it is asked for, or
\* the daemon does.
EjectEnds == (media = "ejecting") ~> (media # "ejecting" \/ at = "ended")

\* MediaWorker keeps its promise to the session as well: polls, tables of
\* contents, probes, stops and ejects are carried out one at a time, each only
\* while the device it was asked for is the present one, and each is answered
\* once or, when the device changes, not at all.
MediaIsAsPromised == M!ImplementsRequests
=============================================================================
