----------------------------- MODULE PcmWorker -----------------------------
(***************************************************************************)
(* The PCM worker: one thread that owns the CDDA reader and fills a queue, *)
(* and the calls the session thread makes on it.  Every step is one        *)
(* critical section of mutex_ or one call on the drive, so every           *)
(* interleaving of the two threads and of the other users of the drive     *)
(* (device polling, eject, C2 assessment) is a behaviour.                  *)
(*                                                                         *)
(* Frame addresses count units of pcm_block_cd_frames (15 CD frames).      *)
(***************************************************************************)
EXTENDS Integers, Sequences, FiniteSets

CONSTANTS
    LeadOut,        \* first frame address after the audio of the disc
    Capacity,       \* capacity_cd_frames of the buffer configuration
    ReadBlocks,     \* read block sizes a policy may select
    EventCapacity,  \* read_event_capacity
    HistoryCapacity,\* read_history_capacity
    MaxGeneration,  \* bound: stream generations
    MaxDisc,        \* bound: disc generations
    MaxRevision     \* bound: policy revisions

\* validate_pcm_buffer_config and the constructor's checks on the read block.
ASSUME WorkerConstants ==
    /\ LeadOut \in Nat \ {0}
    /\ Capacity \in Nat \ {0}
    /\ ReadBlocks # {} /\ ReadBlocks \subseteq 1..Capacity
    /\ EventCapacity \in Nat \ {0}
    /\ HistoryCapacity \in Nat \ {0}
    /\ MaxGeneration \in Nat /\ MaxDisc \in Nat /\ MaxRevision \in Nat

VARIABLES
    \* Guarded by mutex_: the stream and its queue.
    generation, begin, end, active, done, error, queue,
    \* Guarded by mutex_: what is published about the device.
    closing, discard, readerOpen, inflight, reading,
    \* Guarded by mutex_: configuration, disc identity and diagnostics.
    readBlock, policyRevision, discGeneration, discMap, activity, diag,
    \* The reader thread: program counter, sleeping in changed_.wait, the
    \* reader it owns, the locals of one iteration of run(), the drive call it
    \* makes with its result and unobserved_read, and the label after a close.
    pc, asleep, reader, loc, op, result, unobserved, after,
    \* The mutex of the DriveAccessCoordinator: who holds it.
    drive,
    \* History: the frame the consumer expects next, the frames a read was
    \* issued for on this disc, whether the session saw device_released()
    \* return true and has not started a stream since.
    next, attempted, seenReleased

streamState == <<generation, begin, end, active, done, error, queue, next>>
deviceState == <<closing, discard, readerOpen, inflight, reading>>
configState == <<readBlock, policyRevision>>
discState   == <<discGeneration, discMap, attempted>>
diagState   == <<activity, diag>>
callState   == <<op, result, unobserved, after>>
threadState == <<pc, asleep, reader, loc, callState>>
vars == <<streamState, deviceState, configState, discState, threadState,
          diagState, drive, seenReleased>>

MinOf(a, b) == IF a < b THEN a ELSE b

\* capacity_blocks_, recomputed with the read block.
CapacityBlocks(block) == Capacity \div block

\* IntegrityReadStatus of a completed read; the worker treats a recovered
\* read as a clean one but for the wording of its event.
Statuses == {"clean", "uncertain"}
Evidence == [generation : 0..(MaxGeneration + 1), seq : Nat \ {0},
             lba : 0..LeadOut, status : Statuses]
Blocks == [generation : 0..(MaxGeneration + 1), lba : 0..LeadOut, frames : 1..Capacity]
BlockEnd(b) == b.lba + b.frames
FramesOf(lba, n) == lba..(lba + n - 1)

\* The locals of one iteration of run(); NoLocals when none is in scope.
NoLocals == [gen |-> 0, pos |-> 0, end |-> 0, disc |-> 0, cap |-> 0, block |-> 0]

\* frames: how many frames the next read asks for.
ReadFrames == MinOf(loc.block, loc.end - loc.pos)

EmptyDiag ==
    [calls |-> 0, failed |-> 0, history |-> <<>>, evicted |-> 0,
     events |-> <<>>, dropped |-> 0, warning |-> 0, coverage |-> {}]

EmptyMap == [complete |-> TRUE, revision |-> 0, frames |-> {}]

-----------------------------------------------------------------------------
(* Calls of the session thread.                                            *)

\* Mutant: the notification is forgotten.
NotifyNobody == UNCHANGED asleep

\* changed_.notify_all(): a sleeping reader thread has to test its predicate again.
Notify == asleep' = FALSE

Wakes == Notify /\ UNCHANGED <<pc, reader, loc, callState>>

Init ==
    /\ generation = 0 /\ begin = 0 /\ end = 0
    /\ active = FALSE /\ done = FALSE /\ error = FALSE
    /\ queue = <<>> /\ next = 0
    /\ closing = FALSE /\ discard = FALSE /\ readerOpen = FALSE
    /\ inflight = FALSE /\ reading = FALSE
    /\ readBlock \in ReadBlocks /\ policyRevision = 1
    /\ discGeneration = 0 /\ discMap = EmptyMap /\ attempted = {}
    /\ activity = "idle" /\ diag = EmptyDiag
    /\ pc = "top" /\ asleep = FALSE /\ reader = FALSE /\ loc = NoLocals
    /\ op = "none" /\ result = "none" /\ unobserved = FALSE /\ after = "top"
    /\ drive = "free" /\ seenReleased = FALSE

Start(b, e) ==
    /\ ~closing /\ generation < MaxGeneration
    /\ b < e
    /\ generation' = generation + 1
    /\ begin' = b /\ end' = e /\ active' = TRUE /\ done' = FALSE
    /\ queue' = <<>> /\ error' = FALSE
    /\ next' = b
    /\ activity' = "buffering" /\ diag' = EmptyDiag
    /\ seenReleased' = FALSE
    /\ Wakes
    /\ UNCHANGED <<deviceState, configState, discState, drive>>

RetireStream ==
    /\ ~closing /\ generation < MaxGeneration
    /\ generation' = generation + 1
    /\ active' = FALSE /\ done' = FALSE
    /\ queue' = <<>> /\ error' = FALSE
    /\ activity' = "idle" /\ diag' = EmptyDiag
    /\ Wakes
    /\ UNCHANGED <<begin, end, next, configState, discState, drive, seenReleased>>

Cancel == RetireStream /\ UNCHANGED deviceState

DiscardReader ==
    /\ RetireStream
    /\ discard' = TRUE
    /\ UNCHANGED <<closing, readerOpen, inflight, reading>>

\* Called by the session only at a stopped boundary: apply_read_policy calls
\* set_read_stall_timeout first, which throws while the engine is active.
Reconfigure(block) ==
    /\ ~closing /\ ~active
    /\ policyRevision < MaxRevision
    /\ readBlock' = block /\ policyRevision' = policyRevision + 1
    /\ discard' = TRUE
    /\ Wakes
    /\ UNCHANGED <<streamState, closing, readerOpen, inflight, reading,
                   discState, diagState, drive, seenReleased>>

\* Throws, and changes nothing, while a stream is active.
SetDiscGeneration ==
    /\ ~closing /\ ~active
    /\ discGeneration < MaxDisc
    /\ discGeneration' = discGeneration + 1
    /\ discMap' = EmptyMap
    /\ attempted' = {}
    /\ UNCHANGED <<streamState, deviceState, configState, threadState, diagState, drive, seenReleased>>

\* Mutant: a drive call that is announced or in progress is not considered.
ReleasedDuringCall == ~active /\ ~discard /\ ~readerOpen

DeviceReleased == ~active /\ ~inflight /\ ~discard /\ ~readerOpen

\* The session asks device_released() and remembers the answer: it then lets
\* the media worker eject, or hands the drive to a capture.
ObserveReleased ==
    /\ ~closing /\ ~seenReleased
    /\ DeviceReleased
    /\ seenReleased' = TRUE
    /\ UNCHANGED <<streamState, deviceState, configState, discState, threadState, diagState, drive>>

Pop ==
    /\ ~closing /\ queue # <<>>
    /\ queue' = Tail(queue)
    /\ next' = BlockEnd(Head(queue))
    /\ Wakes
    /\ UNCHANGED <<generation, begin, end, active, done, error, deviceState, configState,
                   discState, diagState, drive, seenReleased>>

PopEvent ==
    /\ ~closing /\ diag.events # <<>>
    /\ diag' = [diag EXCEPT !.events = Tail(@)]
    /\ UNCHANGED <<activity, streamState, deviceState, configState, discState, threadState, drive, seenReleased>>

\* ~PcmWorker: no call follows it, and it returns when the thread has exited.
Destroy ==
    /\ ~closing
    /\ closing' = TRUE
    /\ generation' = generation + 1
    /\ Wakes
    /\ UNCHANGED <<begin, end, active, done, error, queue, next, discard, readerOpen, inflight,
                   reading, configState, discState, diagState, drive, seenReleased>>

-----------------------------------------------------------------------------
(* The reader thread: run().                                               *)

Goto(label) == pc' = label /\ UNCHANGED <<asleep, reader, loc, callState>>
CloseThen(label) ==
    pc' = "close" /\ after' = label /\ UNCHANGED <<asleep, reader, loc, op, result, unobserved>>
\* The next iteration: the locals of this one are gone.
ToTop ==
    /\ pc' = "top" /\ loc' = NoLocals
    /\ op' = "none" /\ result' = "none" /\ unobserved' = FALSE /\ after' = "top"
    /\ UNCHANGED <<asleep, reader>>

\* changed_.wait: sleep while the predicate is false, until a notification.
Sleep(label, wakeup) ==
    /\ pc = label /\ ~asleep /\ ~wakeup
    /\ asleep' = TRUE
    /\ UNCHANGED <<streamState, deviceState, configState, discState, pc, reader, loc, callState, diagState, drive, seenReleased>>

\* Mutant: nothing tells a retired stream from its successor.
CurrentAlways == TRUE

\* The thread's stream is still the one the session wants.
Current == loc.gen = generation

\* Mutant: a last partial block is left out.
StreamNearlyRead == loc.pos + loc.block > loc.end

\* Every frame of the stream was read.
StreamRead == loc.pos >= loc.end

\* Mutants: an idle thread does not look at one of its three requests.
WakeTopNotClosing == active \/ discard
WakeTopNotDiscard == closing \/ active

WakeTop == closing \/ active \/ discard
WakeFull == StreamRead \/ closing \/ ~Current \/ Len(queue) < loc.cap

SeeClosing ==
    /\ pc = "top" /\ ~asleep /\ closing
    /\ CloseThen("exit")
    /\ UNCHANGED <<streamState, deviceState, configState, discState, diagState, drive, seenReleased>>

SeeDiscard ==
    /\ pc = "top" /\ ~asleep /\ ~closing /\ discard
    /\ discard' = FALSE /\ inflight' = TRUE
    /\ CloseThen("discarded")
    /\ UNCHANGED <<streamState, closing, readerOpen, reading, configState,
                   discState, diagState, drive, seenReleased>>

SeeStart ==
    /\ pc = "top" /\ ~asleep /\ ~closing /\ ~discard /\ active
    /\ pc' = "begin"
    /\ loc' = [gen |-> generation, pos |-> begin, end |-> end, disc |-> discGeneration,
                cap |-> CapacityBlocks(readBlock), block |-> readBlock]
    /\ UNCHANGED <<streamState, deviceState, configState, discState, asleep, reader, callState, diagState, drive, seenReleased>>

\* close_reader(): a drive call of its own when there is a reader.
CloseNothing ==
    /\ pc = "close" /\ ~reader
    /\ Goto(after)
    /\ UNCHANGED <<streamState, deviceState, configState, discState, diagState, drive, seenReleased>>

CloseBegin ==
    /\ pc = "close" /\ reader /\ drive = "free"
    /\ drive' = "pcm"
    /\ Goto("closing")
    /\ UNCHANGED <<streamState, deviceState, configState, discState, diagState, seenReleased>>

CloseEnd ==
    /\ pc = "closing"
    /\ drive' = "free"
    /\ reader' = FALSE /\ pc' = after
    /\ UNCHANGED <<streamState, deviceState, configState, discState, asleep, loc, callState, diagState, seenReleased>>

AfterDiscard ==
    /\ pc = "discarded"
    /\ inflight' = FALSE /\ readerOpen' = FALSE
    /\ ToTop
    /\ UNCHANGED <<streamState, closing, discard, reading, configState,
                   discState, diagState, drive, seenReleased>>

\* Announce a drive call before asking for the drive.
Announce(call) ==
    /\ inflight' = TRUE
    /\ pc' = "request" /\ op' = call
    /\ UNCHANGED <<asleep, reader, loc, result, unobserved, after>>
    /\ UNCHANGED <<closing, discard, readerOpen>>

RequestOpen ==
    /\ pc = "begin" /\ ~reader
    /\ Announce("open")
    /\ UNCHANGED <<streamState, reading, configState, discState, diagState, drive, seenReleased>>

KeepReader ==
    /\ pc = "begin" /\ reader
    /\ Goto("opened")
    /\ UNCHANGED <<streamState, deviceState, configState, discState, diagState, drive, seenReleased>>

Retired == closing \/ ~Current \/ ~active \/ discard

\* invoke_current: the admission test is made while the drive is held.
Admit ==
    /\ pc = "request" /\ drive = "free" /\ ~Retired
    /\ drive' = "pcm"
    /\ pc' = "call"
    /\ unobserved' = (op = "read")
    /\ attempted' = IF op = "read" /\ loc.disc = discGeneration
                    THEN attempted \cup FramesOf(loc.pos, ReadFrames) ELSE attempted
    /\ UNCHANGED <<streamState, deviceState, configState, discGeneration, discMap, asleep,
                   reader, loc, op, result, after, diagState, seenReleased>>

Refuse ==
    /\ pc = "request" /\ drive = "free" /\ Retired
    /\ Goto("retired")
    /\ UNCHANGED <<streamState, deviceState, configState, discState, diagState, drive, seenReleased>>

\* catch (const RetiredPcmOperation&)
AfterRefusal ==
    /\ pc = "retired"
    /\ reading' = FALSE /\ inflight' = FALSE
    /\ ToTop
    /\ UNCHANGED <<streamState, closing, discard, readerOpen, configState,
                   discState, diagState, drive, seenReleased>>

\* The drive call returns, with one of the results its operation can have,
\* or throws; the drive is free again before mutex_ is taken.
Results(call) ==
    CASE call = "open" -> {"ok", "null", "throw"}
      [] call = "seek" -> {"ok", "throw"}
      [] call = "read" -> Statuses \cup {"bad", "throw"}
      [] OTHER -> {}

Return(res) ==
    /\ pc = "call" /\ res \in Results(op)
    /\ drive' = "free"
    /\ reader' = (reader \/ (op = "open" /\ res = "ok"))
    /\ IF res = "throw"
       THEN pc' = "close" /\ after' = "failed" /\ result' = result
       ELSE pc' = op /\ result' = res /\ after' = after
    /\ UNCHANGED <<streamState, deviceState, configState, discState, asleep, loc, op, unobserved, diagState, seenReleased>>

AfterOpen ==
    /\ pc = "open"
    /\ inflight' = FALSE
    /\ readerOpen' = reader
    /\ IF reader THEN Goto("opened") ELSE CloseThen("failed")
    /\ UNCHANGED <<streamState, closing, discard, reading, configState, discState, diagState, drive, seenReleased>>

\* A slow open may have been superseded by Stop or Seek.
CheckOpened ==
    /\ pc = "opened"
    /\ IF closing THEN CloseThen("exit")
       ELSE IF ~Current THEN ToTop
       ELSE Goto("positioned")
    /\ UNCHANGED <<streamState, deviceState, configState, discState, diagState, drive, seenReleased>>

RequestSeek ==
    /\ pc = "positioned"
    /\ Announce("seek")
    /\ UNCHANGED <<streamState, reading, configState, discState, diagState, drive, seenReleased>>

AfterSeek ==
    /\ pc = "seek"
    /\ inflight' = FALSE
    /\ Goto("loop")
    /\ UNCHANGED <<streamState, closing, discard, readerOpen, reading,
                   configState, discState, diagState, drive, seenReleased>>

\* The head of the read loop, the wait for room in the queue included.
LeaveLoop ==
    /\ pc = "loop" /\ ~asleep
    /\ \/ StreamRead /\ Goto("finish")
       \/ ~StreamRead /\ closing /\ CloseThen("exit")
       \/ ~StreamRead /\ ~closing /\ ~Current /\ ToTop
    /\ UNCHANGED <<streamState, deviceState, configState, discState, diagState, drive, seenReleased>>

RequestRead ==
    /\ pc = "loop" /\ ~asleep /\ ~StreamRead
    /\ ~closing /\ Current /\ Len(queue) < loc.cap
    /\ reading' = TRUE
    /\ activity' = "reading"
    /\ Announce("read")
    /\ UNCHANGED <<streamState, configState, discState, diag, drive, seenReleased>>

\* make_read_evidence: an incomplete read is uncertain.
StatusOf(res) == IF res = "bad" THEN "uncertain" ELSE res

\* Append to a bounded sequence, giving up its oldest entry when it is full.
Bounded(s, x, capacity) ==
    Append(IF Len(s) = capacity THEN Tail(s) ELSE s, x)

\* Everything the accepted result of the current stream is recorded in.
Observed(d, gen, lba, frames, res) ==
    LET entry == [generation |-> gen, seq |-> d.calls + 1, lba |-> lba, status |-> StatusOf(res)]
    IN  [calls    |-> d.calls + 1,
         failed   |-> d.failed + (IF res = "bad" THEN 1 ELSE 0),
         history  |-> Bounded(d.history, entry, HistoryCapacity),
         evicted  |-> d.evicted + (IF Len(d.history) = HistoryCapacity THEN 1 ELSE 0),
         events   |-> Bounded(d.events, entry, EventCapacity),
         dropped  |-> d.dropped + (IF Len(d.events) = EventCapacity THEN 1 ELSE 0),
         warning  |-> IF entry.status = "uncertain" THEN entry.seq ELSE d.warning,
         coverage |-> IF res = "bad" THEN d.coverage ELSE d.coverage \cup FramesOf(lba, frames)]

\* DiscReadMap::observe: nothing without a disc or after an overflow; the
\* fixed array of regions may be full for this interval and its facts.
MapObservations(m, disc, lba, frames) ==
    IF disc = 0 \/ ~m.complete THEN {m}
    ELSE {[m EXCEPT !.revision = @ + 1, !.frames = @ \cup FramesOf(lba, frames)],
          [m EXCEPT !.revision = @ + 1, !.complete = FALSE]}

Accepted(res) == res # "bad"

AfterRead ==
    /\ pc = "read"
    /\ reading' = FALSE /\ inflight' = FALSE
    /\ IF loc.disc = discGeneration
       THEN discMap' \in MapObservations(discMap, discGeneration, loc.pos, ReadFrames)
       ELSE discMap' = discMap
    /\ IF Current
       THEN /\ activity' = "buffering"
            /\ diag' = Observed(diag, loc.gen, loc.pos, ReadFrames, result)
       ELSE UNCHANGED diagState
    /\ unobserved' = FALSE
    /\ IF Accepted(result) THEN pc' = "push" /\ after' = after
                           ELSE pc' = "close" /\ after' = "failed"
    /\ UNCHANGED <<streamState, closing, discard, readerOpen, configState,
                   discGeneration, attempted, asleep, reader, loc, op, result, drive, seenReleased>>

\* The stream may have been superseded between recording and queueing.
AbandonBlock ==
    /\ pc = "push"
    /\ \/ closing /\ CloseThen("exit")
       \/ ~closing /\ ~Current /\ ToTop
    /\ UNCHANGED <<streamState, deviceState, configState, discState, diagState, drive, seenReleased>>

Push ==
    /\ pc = "push" /\ ~closing /\ Current
    /\ queue' = Append(queue, [generation |-> loc.gen, lba |-> loc.pos, frames |-> ReadFrames])
    /\ pc' = "loop" /\ loc' = [loc EXCEPT !.pos = @ + ReadFrames]
    /\ UNCHANGED <<generation, begin, end, active, done, error, next, deviceState, configState,
                   discState, asleep, reader, callState, diagState, drive, seenReleased>>

Finish ==
    /\ pc = "finish"
    /\ IF Current
       THEN /\ active' = FALSE /\ done' = TRUE
            /\ activity' = "complete"
       ELSE UNCHANGED <<active, done, activity>>
    /\ ToTop
    /\ UNCHANGED <<generation, begin, end, error, queue, next, deviceState, configState,
                   discState, diag, drive, seenReleased>>

\* Mutant: a read that threw leaves the map as it was.
MapIgnoresFailure == discMap

\* A read that threw may have read anything: the map is no longer complete.
MapAfterFailure ==
    IF unobserved /\ loc.disc = discGeneration /\ discMap.complete
    THEN [discMap EXCEPT !.complete = FALSE, !.revision = @ + 1] ELSE discMap

\* catch (const std::exception&), after close_reader().
AfterFailure ==
    /\ pc = "failed"
    /\ discMap' = MapAfterFailure
    /\ readerOpen' = FALSE /\ reading' = FALSE /\ inflight' = FALSE
    /\ IF Current
       THEN /\ error' = TRUE /\ active' = FALSE /\ done' = FALSE /\ queue' = <<>>
            /\ activity' = "failed"
       ELSE UNCHANGED <<error, active, done, queue, activity>>
    /\ ToTop
    /\ UNCHANGED <<generation, begin, end, next, closing, discard, configState,
                   discGeneration, attempted, diag, drive, seenReleased>>

-----------------------------------------------------------------------------
\* The other users of the drive: MediaWorker and CompletePcmWorker.
OtherAcquires ==
    /\ drive = "free" /\ drive' = "other"
    /\ UNCHANGED <<streamState, deviceState, configState, discState, threadState, diagState, seenReleased>>

OtherReleases ==
    /\ drive = "other" /\ drive' = "free"
    /\ UNCHANGED <<streamState, deviceState, configState, discState, threadState, diagState, seenReleased>>

Session ==
    \/ \E b, e \in 0..LeadOut : Start(b, e)
    \/ Cancel \/ DiscardReader
    \/ \E block \in ReadBlocks : Reconfigure(block)
    \/ SetDiscGeneration \/ ObserveReleased \/ Pop \/ PopEvent \/ Destroy

Thread ==
    \/ Sleep("top", WakeTop) \/ Sleep("loop", WakeFull)
    \/ SeeClosing \/ SeeDiscard \/ SeeStart
    \/ CloseNothing \/ CloseEnd \/ AfterDiscard
    \/ RequestOpen \/ KeepReader \/ AfterRefusal
    \/ AfterOpen \/ CheckOpened \/ RequestSeek \/ AfterSeek
    \/ LeaveLoop \/ RequestRead \/ AfterRead \/ AbandonBlock \/ Push
    \/ Finish \/ AfterFailure

\* The steps of the thread that wait for the mutex of the drive.
TakeDrive == CloseBegin \/ Admit \/ Refuse

DriveReturns == \E res \in Statuses \cup {"ok", "null", "bad", "throw"} : Return(res)

Next == Session \/ Thread \/ TakeDrive \/ DriveReturns \/ OtherAcquires \/ OtherReleases

Spec == Init /\ [][Next]_vars

\* The thread is scheduled, a drive call returns, the other users of the
\* drive release it, its mutex is not withheld from a waiter for ever, and
\* the playback engine goes on taking blocks.
Fairness ==
    /\ WF_vars(Thread) /\ SF_vars(TakeDrive)
    /\ WF_vars(DriveReturns) /\ WF_vars(OtherReleases)
    /\ WF_vars(Pop)

FairSpec == Spec /\ Fairness

-----------------------------------------------------------------------------
(* Properties.                                                             *)

Labels == {"top", "close", "closing", "discarded", "begin", "request", "call", "retired",
           "open", "opened", "positioned", "seek", "loop", "read", "push", "finish",
           "failed", "exit"}

Locals == [gen : 0..MaxGeneration, pos : 0..LeadOut, end : 0..LeadOut, disc : 0..MaxDisc,
           cap : 0..Capacity, block : {0} \cup ReadBlocks]

Diagnostics ==
    [calls : Nat, failed : Nat, history : Seq(Evidence), evicted : Nat,
     events : Seq(Evidence), dropped : Nat, warning : Nat, coverage : SUBSET (0..LeadOut)]

StreamTypes ==
    /\ generation \in 0..(MaxGeneration + 1)
    /\ begin \in 0..LeadOut /\ end \in 0..LeadOut /\ next \in 0..LeadOut
    /\ active \in BOOLEAN /\ done \in BOOLEAN /\ error \in BOOLEAN
    /\ queue \in Seq(Blocks)
DeviceTypes ==
    /\ closing \in BOOLEAN /\ discard \in BOOLEAN /\ readerOpen \in BOOLEAN
    /\ inflight \in BOOLEAN /\ reading \in BOOLEAN
    /\ readBlock \in ReadBlocks /\ policyRevision \in Nat
    /\ drive \in {"free", "pcm", "other"} /\ seenReleased \in BOOLEAN
DiscTypes ==
    /\ discGeneration \in 0..MaxDisc
    /\ discMap \in [complete : BOOLEAN, revision : Nat, frames : SUBSET (0..LeadOut)]
    /\ attempted \in SUBSET (0..LeadOut)
DiagTypes ==
    /\ activity \in {"idle", "reading", "buffering", "complete", "failed"}
    /\ diag \in Diagnostics
ThreadTypes ==
    /\ pc \in Labels /\ asleep \in BOOLEAN /\ reader \in BOOLEAN /\ loc \in Locals
    /\ op \in {"none", "open", "seek", "read"}
    /\ result \in Statuses \cup {"none", "ok", "null", "bad"}
    /\ unobserved \in BOOLEAN /\ after \in {"top", "exit", "discarded", "failed"}

\* Every variable holds a value of its C++ type, within the bounds.
TypeOK == StreamTypes /\ DeviceTypes /\ DiscTypes /\ DiagTypes /\ ThreadTypes

Frontier == IF queue = <<>> THEN next ELSE BlockEnd(queue[Len(queue)])

\* What the engine takes from the queue is the current stream and nothing
\* else: every block is of the current generation, the first is the one the
\* consumer expects, neighbours touch, and nothing lies beyond the range,
\* however start, cancel and discard_reader cut into a read in progress.
QueueIsStream ==
    ~closing =>
        /\ \A i \in 1..Len(queue) : queue[i].generation = generation
        /\ queue # <<>> => Head(queue).lba = next
        /\ \A i \in 1..(Len(queue) - 1) : BlockEnd(queue[i]) = queue[i + 1].lba
        /\ active => Frontier <= end

\* done_ is only published for a stream every frame of which was read well
\* and handed over; a failed stream leaves no block behind (the engine ends
\* playback on the one and reports an error on the other).
OutcomeIsHonest ==
    ~closing =>
        /\ done => /\ Frontier = end /\ diag.failed = 0
                   /\ diag.coverage = FramesOf(begin, end - begin)
        /\ error => queue = <<>>
        /\ ~(active /\ done) /\ ~(active /\ error) /\ ~(done /\ error)

\* The queue never holds more PCM than the configured buffer, whatever read
\* block sizes the policies of successive streams used.
BufferWithinCapacity == Frontier - (IF queue = <<>> THEN next ELSE Head(queue).lba) <= Capacity

\* device_released() can be trusted after it returned true: until the next
\* start() the thread has no reader and no call on the drive in progress, so
\* the session may eject or hand the drive over, whatever the thread was
\* doing when the stream was retired.
ReleaseIsReal == seenReleased => ~reader /\ drive # "pcm"

\* A complete disc map tells of every frame that was read from this disc,
\* but for the read the thread has not accounted for yet, and of no frame of
\* another disc: a read that outlives its disc does not reach the map.
MapIsHonest ==
    discGeneration # 0 =>
        /\ discMap.frames \subseteq attempted
        /\ discMap.complete =>
             attempted \subseteq
                 discMap.frames \cup
                 (IF unobserved /\ loc.disc = discGeneration
                  THEN FramesOf(loc.pos, ReadFrames) ELSE {})

\* The published history and the pending events are the most recent reads of
\* the current stream, consecutive and in order, what is missing is counted
\* as evicted or dropped, and an uncertain read is never forgotten: a later
\* clean read does not clear the warning.
DiagnosticsAreRecent ==
    LET Recent(s) == \A i \in 1..Len(s) : /\ s[i].seq = diag.calls - Len(s) + i
                                          /\ s[i].generation = generation
    IN  ~closing =>
          /\ Recent(diag.history) /\ Len(diag.history) + diag.evicted = diag.calls
          /\ Recent(diag.events) /\ Len(diag.events) + diag.dropped <= diag.calls
          /\ \A i \in 1..Len(diag.history) :
                diag.history[i].status = "uncertain" => diag.history[i].seq <= diag.warning

\* What the session can learn of a stream is of that stream: its queue, its
\* outcome and the evidence of its reads, within the capacity of the buffer,
\* and of its type.
StreamIsHonest ==
    TypeOK /\ QueueIsStream /\ OutcomeIsHonest /\ BufferWithinCapacity /\ DiagnosticsAreRecent

\* After discard_reader() the device is released, unless it is used again:
\* what an eject waits for always comes, as long as drive calls return.
DiscardReleases == discard /\ ~active ~> DeviceReleased \/ active \/ closing

\* A started stream ends: it is completed, failed or superseded.  It does
\* not hang on a full queue, on a missed notification or on the drive.
StreamSettles ==
    \A g \in 1..MaxGeneration :
        active /\ ~closing /\ generation = g ~> ~active \/ closing \/ generation # g

\* The destructor joins: the thread exits and leaves no reader open.
DestructorJoins == closing ~> pc = "exit" /\ ~reader

\* Whatever the worker is asked for comes to its end: a release, a stream and
\* the worker itself.
WorkerSettles == DiscardReleases /\ StreamSettles /\ DestructorJoins

-----------------------------------------------------------------------------
\* The worker as the engine sees it.
Phase == IF closing THEN "closed" ELSE IF active THEN "active"
         ELSE IF done THEN "done" ELSE IF error THEN "failed" ELSE "idle"

Stream == INSTANCE PcmStream WITH
    MaxBlock <- Capacity,
    range <- [begin |-> begin, end |-> end],
    phase <- Phase

\* Whatever the interleaving of the reader thread, the session and the
\* drive, the worker is a PcmStream.
ImplementsStream == Stream!StreamSpec
=============================================================================
