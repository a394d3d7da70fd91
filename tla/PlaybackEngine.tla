--------------------------- MODULE PlaybackEngine ---------------------------
(***************************************************************************)
(* The playback engine between the controller, the PCM worker and ALSA.    *)
(* The session thread runs commands and tick(); tick() is cut where it     *)
(* calls the worker or the output, so that the reader thread and the sound *)
(* card go on between its steps.  The worker is the PcmStream it           *)
(* implements; a cancel followed by a start or by discard_reader in one    *)
(* call of the engine is one step of the stream, because a cancelled       *)
(* stream has nothing left to do in between.                               *)
(*                                                                         *)
(* Sound is counted in samples (stereo frames): Samples of them make a CD  *)
(* frame, 588 in the code.                                                 *)
(***************************************************************************)
EXTENDS PcmStream, PlayerController

CONSTANTS
    Samples,        \* stereo frames per CD frame
    Capacity,       \* capacity_cd_frames of the buffer
    Startup,        \* startup_cd_frames
    ReadBlocks,     \* read block sizes a policy may select
    AlsaBuffer,     \* stereo frames ALSA buffers
    MaxWrites,      \* writes in one tick: 12
    MaxRecoveries,  \* maximum_underrun_recoveries
    PrebufferStep   \* blocks added to the prebuffer after an underrun: 5

ASSUME EngineConstants ==
    /\ Samples \in Nat \ {0} /\ Capacity \in Nat \ {0} /\ Startup \in 1..Capacity
    /\ ReadBlocks # {} /\ ReadBlocks \subseteq 1..Capacity /\ Capacity = MaxBlock
    /\ AlsaBuffer \in Nat \ {0} /\ MaxWrites \in Nat \ {0}
    /\ MaxRecoveries \in Nat /\ PrebufferStep \in Nat

VARIABLES
    at,          \* where the session thread is: "loop", "write", "account" or "gone"
    writes,      \* writes done by this tick
    active, primed, draining, quiescent,
    start,       \* the frame this stream started from
    discEnd,     \* end_: the frame after the last playable one
    readerFailed,\* reader_failure_
    owner,       \* generation_: the stream the engine started last
    block,       \* block_: the block being written
    offset,      \* offset_: samples of it already written
    submitted,   \* submitted_: samples ALSA accepted in this stream
    evidence,    \* submitted_evidence_
    current,     \* current_evidence_: at most one, as a sequence
    prebuffer,   \* prebuffer_blocks_
    recoveries,  \* underrun_recoveries_
    readBlock,   \* the worker's read block
    pending      \* samples ALSA accepted and has not played

engineVars == <<at, writes, active, primed, draining, quiescent, start, discEnd, readerFailed,
                owner, block, offset, submitted, evidence, current, prebuffer, recoveries, readBlock>>
vars == <<streamVars, ctl, engineVars, pending>>

NoBlock == [generation |-> 0, lba |-> 0, frames |-> 0]

CapacityBlocks == Capacity \div readBlock
StartupBlocks(b) == Smaller(Capacity \div b, (Startup + b - 1) \div b)

BlockSamples(b) == b.frames * Samples
BlockWritten == offset = BlockSamples(block)

Init ==
    /\ StreamInit
    /\ ctl = NoDisc
    /\ at = "loop" /\ writes = 0
    /\ active = FALSE /\ primed = FALSE /\ draining = FALSE /\ quiescent = FALSE
    /\ start = 0 /\ discEnd = 0 /\ readerFailed = FALSE /\ owner = 0
    /\ block = NoBlock /\ offset = 0 /\ submitted = 0
    /\ evidence = <<>> /\ current = <<>>
    /\ readBlock \in ReadBlocks /\ prebuffer = StartupBlocks(readBlock)
    /\ recoveries = 0 /\ pending = 0

-----------------------------------------------------------------------------
\* Bound on what the user does: enough generations are left for the engine's
\* own restarts and its stop.
UserMayAct == at = "loop" /\ generation < MaxGeneration - MaxRecoveries - 1

(* synchronize(), after the controller moved to state c.                   *)

\* Mutant: the block being written survives the stream it belongs to.
ForgetAllButBlock ==
    /\ submitted' = 0 /\ primed' = FALSE /\ draining' = FALSE
    /\ evidence' = <<>> /\ current' = <<>>
    /\ UNCHANGED <<block, offset>>

ForgetStream ==
    /\ block' = NoBlock /\ offset' = 0 /\ submitted' = 0
    /\ primed' = FALSE /\ draining' = FALSE
    /\ evidence' = <<>> /\ current' = <<>>

\* Mutant: the generation of the new stream is not kept.
BeginUnowned(from, to) ==
    /\ StartStream([begin |-> from, end |-> to])
    /\ start' = from /\ active' = TRUE
    /\ UNCHANGED owner

\* A start the engine asks the worker for, and its generation.
BeginStream(from, to) ==
    /\ StartStream([begin |-> from, end |-> to])
    /\ owner' = generation'
    /\ start' = from
    /\ active' = TRUE

Synchronize(c) ==
    /\ recoveries' = 0
    /\ pending' = 0
    /\ ForgetStream
    /\ IF c.playback = "playing"
       THEN BeginStream(c.position, discEnd') /\ quiescent' = FALSE
       ELSE /\ CancelStream
            /\ active' = FALSE /\ quiescent' = (c.playback = "stopped")
            /\ UNCHANGED <<owner, start>>

\* Mutant: the output is reset before the stream is cancelled.
ResetFirstFails ==
    /\ recoveries' = 0
    /\ quiescent' = FALSE /\ active' = FALSE
    /\ pending' \in {0, pending}
    /\ UNCHANGED <<streamVars, block, offset, submitted, primed, draining, evidence, current, owner, start>>

\* output_.reset() throws after the stream was cancelled, its drop done or
\* not; what comes after it is not done.
SynchronizeFails ==
    /\ recoveries' = 0
    /\ quiescent' = FALSE /\ active' = FALSE
    /\ CancelStream
    /\ pending' \in {0, pending}
    /\ UNCHANGED <<block, offset, submitted, primed, draining, evidence, current, owner, start>>

\* The API server answers what is thrown with an error, and a device that is
\* invalidated is given up all the same: the session goes on.
SynchronizeCaught(c) ==
    /\ ctl' = c /\ UNCHANGED at
    /\ Synchronize(c) \/ SynchronizeFails

\* From CEC, standard input and the media results it leaves the loop and ends
\* the daemon; StopOnExit stops the controller, the stream and the output.
SessionEnds(c) ==
    /\ ctl' = Stop(c) /\ at' = "gone"
    /\ SynchronizeFails

SynchronizeUncaught(c) ==
    \/ ctl' = c /\ UNCHANGED at /\ Synchronize(c)
    \/ SessionEnds(c)

\* A command that was accepted, from the API or from CEC and standard input.
\* A seek, a skip, another track or a stop synchronizes also when it leaves
\* the controller as it is, and so starts the stream anew.
Command(c) ==
    /\ UserMayAct
    /\ UNCHANGED <<discEnd, writes, readerFailed, prebuffer, readBlock>>
    /\ SynchronizeCaught(c) \/ SynchronizeUncaught(c)

Commands ==
    \/ CanPlay(ctl) /\ ctl.playback # "playing" /\ Command(Play(ctl))
    \/ ctl.playback = "playing" /\ Command(Pause(ctl))
    \/ Command(Stop(ctl))
    \/ CanSkipNext(ctl) /\ Command(SkipNext(ctl))
    \/ CanSkipPrevious(ctl) /\ Command(SkipPrevious(ctl))
    \/ \E i \in Tracks : HasDisc(ctl) /\ Selectable(ctl, i) /\ Command(SelectTrack(ctl, i))
    \/ \E frames \in SeekSteps : CanSeek(ctl) /\ Command(SeekRelative(ctl, frames))

\* A table of contents is applied: the disc is loaded with its playable range,
\* empty at its first frame when the read offset leaves nothing to play; one
\* that was inserted is then played.
Insert(b, e) ==
    /\ UserMayAct
    /\ Starts[1] <= b /\ e <= LeadOut /\ (b < e \/ (b = e /\ b = Starts[1]))
    /\ discEnd' = IF b < e THEN e ELSE LeadOut
    /\ UNCHANGED <<writes, readerFailed, prebuffer, readBlock>>
    /\ LET disc == SetPlaybackRange(LoadDisc(ctl), b, e)
       IN  SynchronizeUncaught(disc) \/ SynchronizeUncaught(Play(disc))

\* The media are gone or, with an offset, being loaded, which keeps end_; or
\* they were ejected.
Remove ==
    /\ UserMayAct
    /\ discEnd' \in {0, discEnd}
    /\ UNCHANGED <<writes, readerFailed, prebuffer, readBlock>>
    /\ SynchronizeUncaught(NoDisc)

\* reset_prebuffer_target()
PrebufferTarget(b) == StartupBlocks(b)

\* apply_read_policy, at a stopped boundary: the old policy or another one.
ApplyReadPolicy(b) ==
    /\ at = "loop" /\ ctl.playback \in {"stopped", "no_disc"}
    /\ ~active
    /\ readBlock' = b /\ prebuffer' = PrebufferTarget(b)
    /\ UNCHANGED <<streamVars, ctl, at, writes, active, primed, draining, quiescent, start, discEnd,
                   readerFailed, owner, block, offset, submitted, evidence, current, recoveries, pending>>

\* apply_device_observation of another device: the disc goes, the stream and
\* the reader are given up whether the output could be reset or not, and the
\* policy that was requested is applied.
InvalidateDevice ==
    /\ UserMayAct
    /\ discEnd' = 0
    /\ SynchronizeCaught(NoDisc)
    /\ readBlock' \in ReadBlocks /\ prebuffer' = PrebufferTarget(readBlock')
    /\ UNCHANGED <<writes, readerFailed>>

-----------------------------------------------------------------------------
(* tick()                                                                  *)

\* Every error path: stop, cancel, discard the reader, reset the output
\* (which may throw and leave the samples ALSA holds).
StopOnError(failed) ==
    /\ ctl' = Stop(ctl)
    /\ active' = FALSE
    /\ readerFailed' = (readerFailed \/ failed)
    /\ evidence' = <<>> /\ current' = <<>> /\ block' = NoBlock /\ offset' = 0
    /\ CancelStream
    /\ at' = "loop" /\ writes' = 0
    /\ pending' \in {0, pending}
    /\ UNCHANGED <<primed, draining, quiescent, start, discEnd, owner, submitted, prebuffer, readBlock>>

Ticking == at = "loop" /\ active

TickSeesError == Ticking /\ phase = "failed" /\ StopOnError(TRUE) /\ UNCHANGED recoveries

\* A read in flight for longer than the budget; only the current stream reads.
TickSeesStall == Ticking /\ phase = "active" /\ StopOnError(TRUE) /\ UNCHANGED recoveries

PrebufferReady == Len(queue) >= prebuffer \/ phase = "done"

TickBegins ==
    /\ Ticking /\ phase # "failed" /\ ~draining
    /\ primed \/ PrebufferReady
    /\ primed' = TRUE
    /\ at' = "write" /\ writes' = 0
    /\ UNCHANGED <<streamVars, ctl, active, draining, quiescent, start, discEnd, readerFailed, owner,
                   block, offset, submitted, evidence, current, prebuffer, recoveries, readBlock, pending>>

\* One write of a part of the block, a new block being taken first if the
\* last one is written: n samples are accepted, at most the room ALSA has;
\* none (EAGAIN, or EINTR at any time) ends the writes of this tick.
Write(b, done, n) ==
    /\ n <= Smaller(BlockSamples(b) - done, AlsaBuffer - pending)
    /\ block' = b /\ offset' = done + n
    /\ submitted' = submitted + n /\ pending' = pending + n
    /\ evidence' = IF n = 0 THEN evidence
                   ELSE Append(evidence, [from |-> submitted, to |-> submitted + n,
                                          lba |-> b.lba, frames |-> b.frames])
    /\ writes' = writes + 1
    /\ at' = IF n = 0 \/ writes' = MaxWrites THEN "account" ELSE "write"
    /\ UNCHANGED <<ctl, active, primed, draining, quiescent, start, discEnd, readerFailed, owner,
                   current, prebuffer, recoveries, readBlock>>

WriteRest(n) ==
    /\ at = "write" /\ ~BlockWritten
    /\ Write(block, offset, n)
    /\ UNCHANGED streamVars

\* The engine skips a block of another generation than its own; the queue
\* holds none (EngineMatchesStream, and PcmStream's blocks).
WriteNext(n) ==
    /\ at = "write" /\ BlockWritten
    /\ TakeBlock
    /\ Write(Head(queue), 0, n)

QueueEmpty ==
    /\ at = "write" /\ BlockWritten /\ queue = <<>>
    /\ block' = NoBlock /\ offset' = 0
    /\ at' = "account"
    /\ UNCHANGED <<streamVars, ctl, writes, active, primed, draining, quiescent, start, discEnd,
                   readerFailed, owner, submitted, evidence, current, prebuffer, recoveries, readBlock, pending>>

\* What ALSA has played of this stream.
Played == submitted - pending

\* Evidence is dropped from the front, up to the first that is still to be heard.
DropPlayed(played) ==
    \E k \in 1..(Len(evidence) + 1) :
        /\ \A i \in 1..(k - 1) : evidence[i].to <= played
        /\ k <= Len(evidence) => evidence[k].to > played
        /\ evidence' = SubSeq(evidence, k, Len(evidence))

\* Mutant: the position counts what was written, not what was heard.
PositionWritten == Smaller(discEnd - 1, start + submitted \div Samples)

PositionPlayed == Smaller(discEnd - 1, start + Played \div Samples)

AllWritten == phase = "done" /\ queue = <<>> /\ BlockWritten

\* After the writes: account for what was played, and see the end.
Account ==
    /\ at = "account"
    /\ DropPlayed(Played)
    /\ current' = IF evidence' # <<>> /\ Head(evidence').from <= Played
                  THEN <<Head(evidence')>> ELSE <<>>
    /\ ctl' = PlaybackPosition(ctl, PositionPlayed)
    /\ draining' = AllWritten
    /\ at' = "loop" /\ writes' = 0
    /\ UNCHANGED <<streamVars, active, primed, quiescent, start, discEnd, readerFailed, owner, block,
                   offset, submitted, prebuffer, recoveries, readBlock, pending>>

\* drain() reports the end of the sound: finished(), then synchronize().
TickFinishes ==
    /\ Ticking /\ phase # "failed" /\ draining /\ pending = 0
    /\ ctl' = Stop(ctl)
    /\ UNCHANGED <<discEnd, at, writes, readerFailed, prebuffer, readBlock>>
    /\ Synchronize(ctl')

\* An output call fails for another reason than an underrun.
OutputCalled == at \in {"write", "account"} \/ (Ticking /\ phase # "failed" /\ draining)
OutputFails == OutputCalled /\ StopOnError(FALSE) /\ UNCHANGED recoveries

\* The sound has ended, but the reset of synchronize() throws.
FinishFails ==
    /\ Ticking /\ phase # "failed" /\ draining /\ pending = 0
    /\ StopOnError(FALSE) /\ recoveries' = 0

\* ALSA ran dry: it has played all it was given.
Underrun == OutputCalled /\ pending = 0 /\ submitted > 0

Recoverable ==
    /\ ~draining /\ submitted < (discEnd - start) * Samples
    /\ recoveries < MaxRecoveries

UnderrunStops == Underrun /\ ~Recoverable /\ StopOnError(FALSE) /\ UNCHANGED recoveries

\* Mutants: one frame is skipped; the target may exceed the queue.
ResumeAfter == Smaller(discEnd - 1, start + (submitted + Samples - 1) \div Samples)
PrebufferUnbounded == prebuffer + PrebufferStep

\* The last whole frame submitted, and the larger prebuffer to resume with.
ResumeAt == Smaller(discEnd - 1, start + submitted \div Samples)
PrebufferRaised == Smaller(CapacityBlocks, prebuffer + PrebufferStep)

\* A reset that throws here is an OutputFails.
UnderrunRecovers ==
    /\ Underrun /\ Recoverable
    /\ ctl' = PlaybackPosition(ctl, ResumeAt)
    /\ pending' = 0
    /\ ForgetStream
    /\ BeginStream(ctl'.position, discEnd)
    /\ prebuffer' = PrebufferRaised
    /\ recoveries' = recoveries + 1
    /\ at' = "loop" /\ writes' = 0
    /\ UNCHANGED <<quiescent, discEnd, readerFailed, readBlock>>

\* take_reader_failure(): the session hands the failure to the device
\* lifecycle, which ends the disc (InvalidateDevice) unless the device went.
TakeReaderFailure ==
    /\ at = "loop" /\ readerFailed
    /\ readerFailed' = FALSE
    /\ UNCHANGED <<streamVars, ctl, at, writes, active, primed, draining, quiescent, start, discEnd,
                   owner, block, offset, submitted, evidence, current, prebuffer, recoveries, readBlock, pending>>

Tick ==
    \/ TickSeesError \/ TickBegins
    \/ \E n \in 0..(Capacity * Samples) : WriteRest(n) \/ WriteNext(n)
    \/ QueueEmpty \/ Account \/ TickFinishes
    \/ UnderrunStops \/ UnderrunRecovers

-----------------------------------------------------------------------------
(* The reader thread (through PcmStream) and the sound card.               *)

ReaderProduces ==
    /\ Len(queue) < CapacityBlocks
    /\ ProduceBlock(Smaller(readBlock, range.end - Frontier))
    /\ UNCHANGED <<ctl, engineVars, pending>>
ReaderCompletes == CompleteStream /\ UNCHANGED <<ctl, engineVars, pending>>
ReaderFails == FailStream /\ UNCHANGED <<ctl, engineVars, pending>>
Reader == (Frontier < range.end /\ ReaderProduces) \/ ReaderCompletes

AlsaPlays ==
    /\ pending > 0
    /\ pending' = pending - 1
    /\ UNCHANGED <<streamVars, ctl, engineVars>>

Next ==
    \/ Commands
    \/ \E b, e \in 0..LeadOut : Insert(b, e)
    \/ Remove \/ InvalidateDevice \/ \E b \in ReadBlocks : ApplyReadPolicy(b)
    \/ Tick \/ TickSeesStall \/ OutputFails \/ FinishFails \/ TakeReaderFailure
    \/ Reader \/ ReaderFails \/ AlsaPlays

Spec == Init /\ [][Next]_vars

\* The session loop goes on ticking, the reader reads and ALSA plays; an
\* output that has room does not refuse every write for ever.
WriteAccepted == \E n \in 1..(Capacity * Samples) : WriteRest(n) \/ WriteNext(n)
FairSpec ==
    /\ Spec /\ WF_vars(Tick) /\ SF_vars(WriteAccepted)
    /\ WF_vars(Reader) /\ WF_vars(AlsaPlays)

-----------------------------------------------------------------------------
(* Properties.                                                             *)

Evidences == [from : Nat, to : Nat, lba : 0..LeadOut, frames : 1..MaxBlock]

\* Every variable holds a value of its C++ type, within the bounds.
TypeOK ==
    /\ generation \in 0..MaxGeneration /\ phase \in Phases
    /\ queue \in Seq(Blocks) /\ next \in 0..LeadOut
    /\ ctl \in ControllerStates
    /\ at \in {"loop", "write", "account", "gone"} /\ writes \in 0..MaxWrites
    /\ active \in BOOLEAN /\ primed \in BOOLEAN /\ draining \in BOOLEAN
    /\ quiescent \in BOOLEAN /\ readerFailed \in BOOLEAN
    /\ start \in 0..LeadOut /\ discEnd \in 0..LeadOut /\ owner \in 0..MaxGeneration
    /\ block \in Blocks \cup {NoBlock} /\ offset \in 0..(MaxBlock * Samples)
    /\ submitted \in 0..(LeadOut * Samples) /\ pending \in 0..AlsaBuffer
    /\ evidence \in Seq(Evidences) /\ Len(current) <= 1 /\ current \in Seq(Evidences)
    /\ prebuffer \in Nat /\ recoveries \in 0..MaxRecoveries /\ readBlock \in ReadBlocks

\* The engine and the worker agree on the stream: an active engine plays the
\* stream it started last, for a controller that is playing, and an inactive
\* one has left no stream behind, so that a read policy can be applied and
\* the device released, on every path out of playback: also when the output
\* could not be reset, for a command, a device that went, a drain or an error.
EngineMatchesStream ==
    /\ active => /\ ctl.playback = "playing" /\ owner = generation
                 /\ phase \in {"active", "done", "failed"}
                 /\ range = [begin |-> start, end |-> discEnd]
    /\ ~active => phase = "idle" /\ queue = <<>>

\* The sample count and the PCM stay aligned: the next sample to be written
\* is the one that many samples after the start of the stream, through
\* partial writes, refilled queues, seeks and recoveries.
SamplesAligned ==
    active => IF BlockWritten
              THEN start * Samples + submitted = next * Samples
              ELSE start * Samples + submitted = block.lba * Samples + offset

\* The published position is never ahead of what was heard, and never behind
\* the start of the stream.
PositionIsHeard ==
    active => /\ start <= ctl.position
              /\ ctl.position * Samples <= start * Samples + Played

\* The stream is only drained, and playback only finished, when every sample
\* up to the end of the playable range was written.
DrainedWhenWritten ==
    active /\ draining => submitted = (discEnd - start) * Samples /\ queue = <<>>

\* The read evidence published as current is that of the published position.
EvidenceOfPosition ==
    active /\ current # <<>> =>
        current[1].lba <= ctl.position /\ ctl.position < current[1].lba + current[1].frames

\* A quiescent engine leaves nothing behind: ALSA was reset, no block and no
\* stream is left.  A capture may only start then.
QuiescentIsSilent ==
    quiescent /\ ctl.playback = "stopped" =>
        ~active /\ pending = 0 /\ block = NoBlock /\ evidence = <<>> /\ phase = "idle"

\* Samples are neither lost nor played twice on their way to the card; what is
\* published of the position was heard, and its evidence goes with it.
SamplesAreAccounted ==
    TypeOK /\ SamplesAligned /\ DrainedWhenWritten /\ PositionIsHeard /\ EvidenceOfPosition

\* There is a stream only while the engine plays it, whatever reset threw; a
\* capture or a change of policy finds neither a stream nor sound.
StreamIsOwned == EngineMatchesStream /\ QuiescentIsSilent

\* Recovering from an underrun skips no sample and repeats less than one CD
\* frame: the stream restarts on the frame that was cut.
RecoveryIsSeamless ==
    [][recoveries' = recoveries + 1 =>
         /\ start' * Samples <= start * Samples + submitted
         /\ start * Samples + submitted < (start' + 1) * Samples]_vars

\* Playback comes to an end, by the end of the disc, an error or a command:
\* neither underruns nor a drain repeat for ever.
PlaybackEnds == active ~> ~active

\* The engine drives what the controller shows: while the published state is
\* PLAYING there is a stream.
PlayingIsDriven == at = "loop" /\ ctl.playback = "playing" => active
=============================================================================
