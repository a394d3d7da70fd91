----------------------------- MODULE PcmStream -----------------------------
(***************************************************************************)
(* What the PCM worker promises the playback engine, with the reader       *)
(* thread, the drive and the diagnostics left out: at any time there is at *)
(* most one stream, of a generation that only grows, and the queue holds   *)
(* the frames of that stream in disc order, without a gap, a repetition or *)
(* a block of an older stream.  PcmWorker implements this specification    *)
(* and the playback engine is composed with it.                            *)
(***************************************************************************)
EXTENDS AudioDisc, Sequences

CONSTANTS
    MaxBlock,      \* largest number of frames one read block may hold
    MaxGeneration  \* bound on the number of API calls that retire a stream

ASSUME StreamConstants ==
    /\ MaxBlock \in Nat \ {0}
    /\ MaxGeneration \in Nat

VARIABLES
    generation,  \* identity of the current stream
    range,       \* [begin, end): the frames start() asked for
    phase,       \* where the current stream is
    queue,       \* blocks produced and not yet taken
    next         \* the frame the consumer has to receive next

streamVars == <<generation, range, phase, queue, next>>

Phases == {"idle", "active", "done", "failed", "closed"}
Ranges == {r \in [begin : 0..LeadOut, end : 0..LeadOut] : r.begin < r.end}
Blocks == [generation : 0..MaxGeneration, lba : 0..LeadOut, frames : 1..MaxBlock]

\* The frame after the last one handed over: where production goes on.
BlockEnd(b) == b.lba + b.frames
FrontierOf(q, n) == IF q = <<>> THEN n ELSE BlockEnd(q[Len(q)])
Frontier == FrontierOf(queue, next)

StreamInit ==
    /\ generation = 0
    /\ range = [begin |-> 0, end |-> 0]
    /\ phase = "idle"
    /\ queue = <<>>
    /\ next = 0

Supersede ==
    /\ phase # "closed"
    /\ generation < MaxGeneration
    /\ generation' = generation + 1
    /\ queue' = <<>>

\* PcmWorker::start
StartStream(r) ==
    /\ Supersede
    /\ range' = r
    /\ phase' = "active"
    /\ next' = r.begin

\* PcmWorker::cancel and PcmWorker::discard_reader
CancelStream ==
    /\ Supersede
    /\ phase' = "idle"
    /\ UNCHANGED <<range, next>>

\* The reader thread hands over one block: the frames after the last ones.
ProduceBlock(n) ==
    /\ phase = "active"
    /\ Frontier + n <= range.end
    /\ queue' = Append(queue, [generation |-> generation, lba |-> Frontier, frames |-> n])
    /\ UNCHANGED <<generation, range, phase, next>>

\* The stream is done only when its last frame was handed over.
CompleteStream ==
    /\ phase = "active"
    /\ Frontier = range.end
    /\ phase' = "done"
    /\ UNCHANGED <<generation, range, queue, next>>

FailStream ==
    /\ phase = "active"
    /\ phase' = "failed"
    /\ queue' = <<>>
    /\ UNCHANGED <<generation, range, next>>

\* PcmWorker::pop
TakeBlock ==
    /\ phase # "closed"
    /\ queue # <<>>
    /\ queue' = Tail(queue)
    /\ next' = BlockEnd(Head(queue))
    /\ UNCHANGED <<generation, range, phase>>

\* PcmWorker::~PcmWorker
CloseStream ==
    /\ phase # "closed"
    /\ generation' = generation + 1
    /\ phase' = "closed"
    /\ UNCHANGED <<range, queue, next>>

StreamNext ==
    \/ \E r \in Ranges : StartStream(r)
    \/ CancelStream
    \/ \E n \in 1..MaxBlock : ProduceBlock(n)
    \/ CompleteStream
    \/ FailStream
    \/ TakeBlock
    \/ CloseStream

StreamSpec == StreamInit /\ [][StreamNext]_streamVars
=============================================================================
