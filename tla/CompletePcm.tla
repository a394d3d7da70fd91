---------------------------- MODULE CompletePcm ----------------------------
(***************************************************************************)
(* The capture of a whole disc: CompletePcmSession on the session thread,  *)
(* CompletePcmWorker's own thread, and the CompletePcmInput it feeds.  The *)
(* session starts a job, may cancel or interrupt it at any moment, polls   *)
(* it, confirms a prepared result and serves its manifest; the thread      *)
(* reads the TOC, opens a reader, reads every frame, reads the TOC again   *)
(* and releases the reader, asking before and after each drive call        *)
(* whether it may go on.                                                   *)
(*                                                                         *)
(* The session thread alone calls start, cancel, poll and confirm, so the  *)
(* epochs that guard against two of those at once are left out.  The clock *)
(* is what it decides: whether the job's and the call's deadline have      *)
(* passed.                                                                 *)
(***************************************************************************)
EXTENDS Naturals

CONSTANTS
    Length,         \* frames of the disc
    BlockFrames,    \* frames of one read: 15, or the policy's region
    MaxContexts,    \* bound: disc, device and policy changes
    MaxJobs,        \* bound: jobs started
    MaxSwaps        \* bound: unseen swaps of the disc

ASSUME CaptureConstants ==
    /\ Length \in Nat \ {0} /\ BlockFrames \in Nat \ {0}
    /\ MaxContexts \in Nat \ {0} /\ MaxJobs \in Nat /\ MaxSwaps \in Nat

VARIABLES
    context,     \* disc_generation, observation_generation, policy_revision
    current,     \* the device context is valid and no policy is pending
    gate,        \* playback stopped, output quiet, PCM reader released, audio
    mediaIdle,
    status,      \* status_ of the session: the worker's, as last fetched
    plan,        \* the context the last job was started under, 0 when none
    manifest,    \* manifest_ is there
    jobs,
    worker,      \* status_ of the worker and its two results
    queued, closing,
    jobOver, callOver,      \* have the deadlines passed?
    pc, call,    \* the worker thread: where it is, the call it makes
    reader,      \* the raw reader is open
    prepared,    \* local: every frame was taken and the last TOC was read
    nextLba,     \* the core: frames consumed
    toc,         \* local: the disc whose TOC was read last
    drive,
    disc,        \* the disc in the drive: 0 is the one the plan was made for
    content,     \* history: the discs the frames of this job came from
    disturbed,   \* history: the session took this job back
    late         \* history: a frame was read by a call past its deadline

sessionVars == <<context, current, gate, mediaIdle, status, plan, manifest, jobs>>
threadVars == <<pc, call, reader, prepared, nextLba, toc>>
clockVars == <<jobOver, callOver>>
vars == <<sessionVars, worker, queued, closing, clockVars, threadVars, drive, disc, content, disturbed, late>>

Calls == {"initial_toc", "opening", "seeking", "reading", "final_toc", "releasing"}
Phases == Calls \cup {"idle", "queued", "finalizing", "prepared", "finished"}
InputStates == {"none", "collecting", "prepared", "complete", "incomplete", "invalid"}

\* Which of the two results the worker holds.
NoJob == [state |-> "none", phase |-> "idle", busy |-> FALSE, released |-> TRUE,
          waiting |-> FALSE, inflight |-> FALSE, pending |-> FALSE, result |-> FALSE]

Init ==
    /\ context = 1 /\ current = TRUE /\ gate \in BOOLEAN /\ mediaIdle = TRUE
    /\ status = NoJob /\ plan = 0 /\ manifest = FALSE /\ jobs = 0
    /\ worker = NoJob /\ queued = FALSE /\ closing = FALSE
    /\ jobOver = FALSE /\ callOver = FALSE
    /\ pc = "idle" /\ call = "initial_toc" /\ reader = FALSE /\ prepared = FALSE
    /\ nextLba = 0 /\ toc = 0
    /\ drive = "free" /\ disc = 0 /\ content = {} /\ disturbed = FALSE /\ late = FALSE

-----------------------------------------------------------------------------
(* The worker's status under its lock: each operator gives the status that *)
(* its function leaves behind.                                             *)

Running(w) == w.state \in {"collecting", "prepared"}

\* stop_locked(): the first reason stands, except that a job that ended can
\* still be invalidated.
Stops(w, to) ==
    /\ w.state \notin {"none", "invalid"}
    /\ to = "invalid" \/ Running(w)

Stop(w, to) ==
    IF ~Stops(w, to) THEN w
    ELSE [w EXCEPT !.state = to, !.pending = FALSE, !.result = FALSE,
                   !.busy = @ /\ w.phase # "prepared",
                   !.phase = IF @ = "prepared" THEN "finished" ELSE @]

\* Mutant: only the job's deadline is looked at.
RefreshJobOnly(w) == IF w.busy /\ Running(w) /\ jobOver THEN Stop(w, "incomplete") ELSE w

\* refresh_locked()
Refresh(w) ==
    IF w.busy /\ Running(w) /\ (jobOver \/ (w.inflight /\ callOver))
    THEN Stop(w, "incomplete") ELSE w

\* permitted_locked() answers by the refreshed status.
Allowed(w) == ~closing /\ w.busy /\ Running(w)

\* update_locked(): the session's view of the context.
Update(w) ==
    LET sameIdentity == IF context # plan THEN Stop(w, "invalid") ELSE w
    IN  Refresh(IF ~gate /\ sameIdentity.busy THEN Stop(sameIdentity, "invalid") ELSE sameIdentity)

\* confirm()
Confirm(w) ==
    LET u == Update(w) IN
    IF u.busy /\ u.phase = "prepared" /\ u.state = "prepared" /\ u.released /\ u.pending
    THEN [u EXCEPT !.pending = FALSE, !.result = TRUE,
                   !.state = "complete", !.phase = "finished", !.busy = FALSE]
    ELSE u

-----------------------------------------------------------------------------
(* The session thread.                                                     *)

SessionCurrent == plan # 0 /\ current /\ gate /\ context = plan

\* start_rejection() and the admission of the worker; the gate and an idle
\* media worker mean that nobody else is on the drive.
CanStart ==
    /\ ~status.busy /\ current /\ gate /\ mediaIdle /\ drive # "other"
    /\ ~worker.busy /\ ~closing

Start ==
    /\ CanStart /\ jobs < MaxJobs
    /\ jobs' = jobs + 1
    /\ worker' = [NoJob EXCEPT !.state = "collecting", !.phase = "queued",
                               !.busy = TRUE, !.released = FALSE]
    /\ queued' = TRUE
    /\ plan' = context /\ manifest' = FALSE /\ status' = worker'
    /\ jobOver' = FALSE /\ callOver' = FALSE
    /\ disc' = 0 /\ content' = {} /\ disturbed' = FALSE /\ late' = FALSE
    /\ UNCHANGED <<context, current, gate, mediaIdle, closing, threadVars, drive>>

\* cancel() of the present job; one that is complete is revoked as well.
Cancel ==
    /\ plan # 0 /\ ~closing
    /\ worker' = LET stopped == Stop(worker, "incomplete")
                 IN  IF status.busy THEN stopped ELSE Stop(stopped, "invalid")
    /\ manifest' = FALSE /\ status' = worker' /\ disturbed' = TRUE
    /\ UNCHANGED <<context, current, gate, mediaIdle, plan, jobs, queued, closing, clockVars,
                   threadVars, drive, disc, content, late>>

\* interrupt()
Interrupt ==
    /\ worker' = Stop(worker, "invalid")
    /\ manifest' = FALSE /\ status' = worker' /\ disturbed' = TRUE
    /\ UNCHANGED <<plan, jobs, queued, closing, clockVars, threadVars, drive, disc, content, late>>

\* A device change, or a TOC that was read, interrupts first.  The device is
\* validated again later.
ChangeContext ==
    /\ ~closing /\ context < MaxContexts
    /\ Interrupt
    /\ context' = context + 1 /\ current' \in BOOLEAN /\ gate' \in BOOLEAN /\ mediaIdle' \in BOOLEAN

\* A playback or policy command interrupts, and is refused while the capture
\* is still being released.
Command ==
    /\ ~closing
    /\ Interrupt
    /\ IF worker'.busy THEN UNCHANGED <<context, gate>>
       ELSE \/ gate' = ~gate /\ UNCHANGED context
            \/ context < MaxContexts /\ context' = context + 1 /\ UNCHANGED gate
    /\ UNCHANGED <<current, mediaIdle>>

\* The observer sees the device change; only a new context is current again.
LoseDevice ==
    /\ ~closing /\ current
    /\ current' = FALSE
    /\ UNCHANGED <<context, gate, mediaIdle, status, plan, manifest, jobs, worker, queued, closing,
                   clockVars, threadVars, drive, disc, content, disturbed, late>>

\* The session asks the drive for something only while no capture is busy.
PollMedia ==
    /\ ~closing /\ ~status.busy /\ status.released
    /\ mediaIdle' = ~mediaIdle
    /\ UNCHANGED <<context, current, gate, status, plan, manifest, jobs, worker, queued, closing,
                   clockVars, threadVars, drive, disc, content, disturbed, late>>

\* poll(): invalidate what is no longer current, fetch the status, confirm a
\* prepared result, and build the manifest of a complete one -- unless it is
\* too large.
Polled ==
    LET valid == IF ~SessionCurrent \/ (status.busy /\ ~mediaIdle)
                 THEN Stop(worker, "invalid") ELSE worker
        w == Update(valid)
    IN  IF w.phase = "prepared" /\ SessionCurrent THEN Confirm(w) ELSE w

Poll ==
    /\ plan # 0 /\ ~closing
    /\ \/ /\ worker' = Polled
          /\ manifest' = (Polled.state = "complete" /\ SessionCurrent
                            /\ (manifest \/ Polled.result))
       \/ /\ Polled.state = "complete" /\ SessionCurrent /\ ~manifest
          /\ worker' = Stop(Polled, "invalid")
          /\ manifest' = FALSE
    /\ status' = worker'
    /\ UNCHANGED <<context, current, gate, mediaIdle, plan, jobs, queued, closing,
                   clockVars, threadVars, drive, disc, content, disturbed, late>>

Destroy ==
    /\ ~closing
    /\ closing' = TRUE
    /\ worker' = Stop(worker, "incomplete")
    /\ UNCHANGED <<sessionVars, queued, clockVars, threadVars, drive, disc, content, disturbed, late>>

-----------------------------------------------------------------------------
(* The worker thread: run() and execute().                                 *)

threadFrame == <<sessionVars, queued, closing, jobOver, disc, disturbed>>
Goto(label) == pc' = label /\ UNCHANGED <<call, reader, prepared, nextLba, toc>>
Request(c) == pc' = "ask" /\ call' = c /\ UNCHANGED <<reader, prepared, nextLba, toc>>

\* Mutant: a job that is abandoned forgets its reader.
AbandonReader == Goto("end")

\* throw Stopped: release the reader if there is one.
Abandon == IF reader THEN Request("releasing") ELSE Goto("end")

Cleanup == call = "releasing"

TakeJob ==
    /\ pc = "idle" /\ queued
    /\ queued' = FALSE
    /\ pc' = "ask" /\ call' = "initial_toc"
    /\ reader' = FALSE /\ prepared' = FALSE /\ nextLba' = 0 /\ toc' = 0
    /\ UNCHANGED <<sessionVars, worker, closing, clockVars, drive, disc, content, disturbed, late>>

Exit ==
    /\ pc = "idle" /\ ~queued /\ closing
    /\ Goto("exited")
    /\ UNCHANGED <<threadFrame, worker, callOver, drive, content, late>>

\* call(): ask before the wait for the drive.
Ask ==
    /\ pc = "ask"
    /\ LET w == Refresh(worker) IN
         IF Cleanup \/ Allowed(w)
         THEN worker' = [w EXCEPT !.phase = call, !.waiting = TRUE] /\ Goto("wait")
         ELSE worker' = w /\ Abandon
    /\ UNCHANGED <<threadFrame, callOver, drive, content, late>>

Acquire ==
    /\ pc = "wait" /\ drive = "free"
    /\ drive' = "capture" /\ Goto("reserve")
    /\ UNCHANGED <<threadFrame, worker, callOver, content, late>>

\* Mutant: the answer from before the wait still counts.
MayReserveAsAsked(w) == TRUE

MayReserve(w) == Cleanup \/ Allowed(w)

\* Ask again with the drive held; the call's own deadline starts here.
Reserve ==
    /\ pc = "reserve"
    /\ LET w == [Refresh(worker) EXCEPT !.waiting = FALSE] IN
         IF MayReserve(w)
         THEN /\ worker' = [w EXCEPT !.inflight = TRUE]
              /\ callOver' = FALSE
              /\ Goto("inflight") /\ UNCHANGED drive
         ELSE worker' = w /\ drive' = "free" /\ Abandon /\ UNCHANGED callOver
    /\ UNCHANGED <<threadFrame, content, late>>

\* The last block ends with the disc.
NextLba == IF Length - nextLba < BlockFrames THEN Length ELSE nextLba + BlockFrames

\* The call throws; the guards around seek and read throw as well when the
\* job is no longer allowed.  Releasing a reader does not throw.
CallThrows ==
    /\ pc = "inflight" /\ ~Cleanup
    /\ worker' = [Refresh(Stop(worker, "incomplete")) EXCEPT !.inflight = FALSE]
    /\ drive' = "free"
    /\ Abandon
    /\ UNCHANGED <<threadFrame, callOver, content, late>>

\* The call returns.  What a read brought is a whole verified block or is
\* not; that is the core's to say, with the drive free again.
CallReturns ==
    /\ pc = "inflight"
    /\ call \in {"seeking", "reading"} => Allowed(Refresh(worker))
    /\ worker' = [Refresh(worker) EXCEPT !.inflight = FALSE]
    /\ drive' = "free"
    /\ reader' = ((reader \/ call = "opening") /\ call # "releasing")
    /\ toc' = IF call \in {"initial_toc", "final_toc"} THEN disc ELSE toc
    /\ content' = IF call = "reading" THEN content \cup {disc} ELSE content
    /\ late' = (late \/ (call = "reading" /\ callOver))
    /\ pc' = "returned" /\ UNCHANGED <<call, prepared, nextLba>>
    /\ UNCHANGED <<threadFrame, callOver>>

\* Both TOCs have to be the plan's.
TocMatches == toc = 0

\* What follows a call that returned.
Continue ==
    \/ /\ call = "initial_toc" /\ TocMatches
       /\ Request("opening") /\ worker' = Refresh(worker)
    \/ /\ call = "initial_toc" /\ ~TocMatches
       /\ worker' = Stop(Refresh(worker), "invalid") /\ Abandon
    \/ call = "opening" /\ Request("seeking") /\ worker' = Refresh(worker)
    \/ call = "seeking" /\ Request("reading") /\ worker' = Refresh(worker)
    \/ \* append() takes the block
       /\ call = "reading"
       /\ nextLba' = NextLba
       /\ pc' = (IF nextLba' = Length THEN "finalize" ELSE "ask")
       /\ worker' = Refresh(worker) /\ UNCHANGED <<call, reader, prepared, toc>>
    \/ \* append() refuses it: an error, a hole or no verification
       /\ call = "reading"
       /\ worker' = Stop(Refresh(worker), "incomplete") /\ Abandon
    \/ /\ call = "final_toc"
       /\ prepared' = TRUE /\ pc' = "ask" /\ call' = "releasing"
       /\ worker' = Refresh(worker) /\ UNCHANGED <<reader, nextLba, toc>>

AfterCall ==
    /\ pc = "returned"
    /\ IF Cleanup THEN Goto("confirm") /\ UNCHANGED worker
       ELSE IF Allowed(Refresh(worker)) THEN Continue
       ELSE worker' = Refresh(worker) /\ Abandon
    /\ UNCHANGED <<threadFrame, callOver, drive, content, late>>

\* prepare(): the consumer finalises its fingerprint, or throws.
Finalize ==
    /\ pc = "finalize"
    /\ LET w == Refresh(worker) IN
         \/ Allowed(w) /\ worker' = [w EXCEPT !.phase = "finalizing"] /\ Request("final_toc")
         \/ Allowed(w) /\ worker' = [Stop(w, "incomplete") EXCEPT !.phase = "finalizing"] /\ Abandon
         \/ ~Allowed(w) /\ worker' = w /\ Abandon
    /\ UNCHANGED <<threadFrame, callOver, drive, content, late>>

\* The core confirms with the last TOC; the reader is gone.
CoreConfirm ==
    /\ pc = "confirm"
    /\ LET w == Refresh(worker) IN
         IF prepared /\ Allowed(w) /\ TocMatches
         THEN worker' = w /\ UNCHANGED prepared
         ELSE /\ worker' = IF prepared /\ Allowed(w) THEN Stop(w, "invalid") ELSE w
              /\ prepared' = FALSE
    /\ pc' = "end" /\ UNCHANGED <<call, reader, nextLba, toc>>
    /\ UNCHANGED <<threadFrame, callOver, drive, content, late>>

\* Mutant: a job that was stopped on its way out stays busy.
EndUnlessStopped ==
    /\ pc = "end"
    /\ LET w == [Refresh(worker) EXCEPT !.released = TRUE, !.inflight = FALSE, !.waiting = FALSE] IN
         worker' = IF Allowed(w) /\ prepared
                   THEN [w EXCEPT !.pending = TRUE, !.state = "prepared", !.phase = "prepared"]
                   ELSE IF Allowed(w) THEN [Stop(w, "incomplete") EXCEPT !.busy = FALSE, !.phase = "finished"]
                   ELSE w
    /\ Goto("idle")
    /\ UNCHANGED <<threadFrame, callOver, drive, content, late>>

\* The last locked section of execute().
End ==
    /\ pc = "end"
    /\ LET w == [Refresh(worker) EXCEPT !.released = TRUE, !.inflight = FALSE, !.waiting = FALSE] IN
         worker' = IF Allowed(w) /\ prepared
                   THEN [w EXCEPT !.pending = TRUE, !.state = "prepared", !.phase = "prepared"]
                   ELSE [(IF Allowed(w) THEN Stop(w, "incomplete") ELSE w)
                           EXCEPT !.busy = FALSE, !.phase = "finished"]
    /\ Goto("idle")
    /\ UNCHANGED <<threadFrame, callOver, drive, content, late>>

Thread == TakeJob \/ Exit \/ Ask \/ Acquire \/ Reserve \/ CallThrows \/ CallReturns
          \/ AfterCall \/ Finalize \/ CoreConfirm \/ End

-----------------------------------------------------------------------------
(* Time, the disc, and the other users of the drive.                       *)

JobDeadlinePasses ==
    /\ worker.busy /\ ~jobOver
    /\ jobOver' = TRUE
    /\ UNCHANGED <<sessionVars, worker, queued, closing, callOver, threadVars, drive, disc, content, disturbed, late>>

CallDeadlinePasses ==
    /\ worker.inflight /\ ~callOver
    /\ callOver' = TRUE
    /\ UNCHANGED <<sessionVars, worker, queued, closing, jobOver, threadVars, drive, disc, content, disturbed, late>>

\* Nothing polls the media during a capture, so a swapped disc goes unseen
\* there; each swap brings a disc with a TOC of its own.
SwapDisc ==
    /\ worker.busy /\ disc < MaxSwaps
    /\ disc' = disc + 1
    /\ UNCHANGED <<sessionVars, worker, queued, closing, clockVars, threadVars, drive, content, disturbed, late>>

\* The PCM reader and the media worker; a capture starts only when both are
\* off the drive, and they are kept off it until it is released.
OtherUser ==
    /\ \/ drive = "free" /\ status.released /\ ~status.busy /\ drive' = "other"
       \/ drive = "other" /\ drive' = "free"
    /\ UNCHANGED <<sessionVars, worker, queued, closing, clockVars, threadVars, disc, content, disturbed, late>>

Session == Start \/ Cancel \/ ChangeContext \/ Command \/ LoseDevice \/ PollMedia \/ Poll \/ Destroy
Next == Session \/ Thread \/ JobDeadlinePasses \/ CallDeadlinePasses \/ SwapDisc \/ OtherUser

Spec == Init /\ [][Next]_vars

\* The thread runs, drive calls return, and the session polls in every round.
FairSpec == Spec /\ WF_vars(Thread) /\ WF_vars(Poll)

-----------------------------------------------------------------------------
Statuses == [state : InputStates, phase : Phases, busy : BOOLEAN, released : BOOLEAN,
             waiting : BOOLEAN, inflight : BOOLEAN, pending : BOOLEAN, result : BOOLEAN]

\* Every variable holds a value of its type.
TypeOK ==
    /\ {status, worker} \subseteq Statuses
    /\ context \in 1..MaxContexts /\ plan \in 0..MaxContexts /\ jobs \in 0..MaxJobs
    /\ {current, gate, mediaIdle, manifest, queued, closing, jobOver, callOver, reader,
        prepared, disturbed, late} \subseteq BOOLEAN
    /\ pc \in {"idle", "ask", "wait", "reserve", "inflight", "returned", "finalize", "confirm",
               "end", "exited"}
    /\ call \in Calls
    /\ nextLba \in 0..Length /\ {toc, disc} \subseteq 0..MaxSwaps /\ content \subseteq 0..MaxSwaps
    /\ drive \in {"free", "capture", "other"}

\* What GET /api/complete-pcm/result answers with 200.
Served == SessionCurrent /\ status.state = "complete" /\ manifest

\* A manifest that is served describes the whole disc it was started for,
\* read under the context that is still in force: every frame, all of one
\* disc, none by a call that overran its deadline, and never one the session
\* took back.
ServedIsWhole ==
    Served => /\ worker.state = "complete" /\ worker.result
              /\ nextLba = Length /\ content = {0}
              /\ ~disturbed /\ ~late

\* A stopped job begins no further call on the drive but the release of its
\* reader, even if it was stopped while it waited for the drive.
NoCallAfterStop ==
    [][(worker'.inflight /\ ~worker.inflight) => (Cleanup \/ worker'.state = "collecting")]_vars

\* What the session believes of the release is so: playback, media polls and
\* other captures are let onto the drive when it says released and not busy.
ReleasedIsReal ==
    (status.released \/ ~status.busy) => (~reader /\ ~worker.inflight /\ drive # "capture")

\* A result is held only in the state it belongs to: one to be confirmed
\* while prepared, one to be served once complete.
ResultsMatchState ==
    /\ worker.pending <=> (worker.state = "prepared")
    /\ worker.result <=> (worker.state = "complete")

\* What the worker holds and the API serves agree, and it is whole; and the
\* drive is free where they say so.
ResultIsHonest == TypeOK /\ ResultsMatchState /\ ServedIsWhole /\ ReleasedIsReal

\* A capture ends, whatever disturbs it, and the session learns of it.
CaptureEnds == status.busy ~> (~status.busy \/ closing)
=============================================================================
