------------------------ MODULE PlaybackEngineProofs ------------------------
(***************************************************************************)
(* Proofs about PlaybackEngine: for every disc, buffer, sound card and     *)
(* retry limit, the sample count and the PCM stay aligned through partial  *)
(* writes, refills, seeks and recoveries, the position that is published   *)
(* was heard, and there is a stream exactly while the engine plays it.     *)
(*                                                                         *)
(* EngineInv is the inductive invariant.  What the properties leave out    *)
(* and a proof needs is: that the queue holds the frames of the stream in  *)
(* order up to the end of its range (QueueInOrder), that between two steps *)
(* of a tick the engine plays and is not draining (StageInv), that the     *)
(* block in hand ends where the queue goes on (BlockInv), and where in the *)
(* stream each piece of evidence lies (EvidenceInv).                       *)
(***************************************************************************)
EXTENDS PlaybackEngine, PlayerControllerProofs, SequenceTheorems

StreamTypes ==
    /\ generation \in 0..MaxGeneration /\ phase \in {"idle", "active", "done", "failed"}
    /\ range \in [begin : 0..LeadOut, end : 0..LeadOut]
    /\ queue \in Seq(Blocks) /\ next \in 0..LeadOut

\* The blocks that wait follow the last one taken and each other, and end
\* inside the range.
QueueInOrder ==
    /\ next <= range.end
    /\ \A i \in 1..Len(queue) : BlockEnd(queue[i]) <= range.end
    /\ queue # <<>> => queue[1].lba = next
    /\ \A i \in 1..(Len(queue) - 1) : BlockEnd(queue[i]) = queue[i + 1].lba

PhaseIsHonest ==
    /\ phase = "done" => Frontier = range.end
    /\ phase \in {"idle", "failed"} => queue = <<>>

StreamInv == StreamTypes /\ QueueInOrder /\ PhaseIsHonest

\* The engine plays up to the end of the controller's range.
PlayerInv ==
    /\ ControllerInv(ctl)
    /\ discEnd \in 0..LeadOut
    /\ ctl.begin < ctl.end => discEnd = ctl.end

EngineTypes ==
    /\ active \in BOOLEAN /\ primed \in BOOLEAN /\ draining \in BOOLEAN
    /\ quiescent \in BOOLEAN /\ readerFailed \in BOOLEAN
    /\ start \in 0..LeadOut /\ owner \in 0..MaxGeneration
    /\ prebuffer \in Nat /\ recoveries \in 0..MaxRecoveries /\ readBlock \in ReadBlocks

\* In the middle of a tick the engine plays, and has not begun to drain.
StageInv ==
    /\ at \in {"loop", "write", "account", "gone"} /\ writes \in 0..MaxWrites
    /\ at = "write" => writes < MaxWrites
    /\ at \in {"write", "account"} => active /\ ~draining

OwnedInv ==
    /\ active => /\ ctl.playback = "playing" /\ owner = generation
                 /\ phase \in {"active", "done", "failed"}
                 /\ range = [begin |-> start, end |-> discEnd] /\ start < discEnd
    /\ ~active => phase = "idle"

\* What was submitted, the rest of the block in hand and the queue follow
\* each other without a gap.
BlockInv ==
    /\ block \in Blocks \cup {NoBlock} /\ offset \in Nat /\ offset <= BlockSamples(block)
    /\ submitted \in 0..(LeadOut * Samples) /\ pending \in 0..AlsaBuffer
    /\ active => /\ start * Samples + submitted + BlockSamples(block) - offset = next * Samples
                 /\ block # NoBlock => BlockEnd(block) = next
                 /\ pending <= submitted
    /\ active /\ draining => phase = "done" /\ queue = <<>> /\ BlockWritten

\* The samples of a piece of evidence are samples of its frames, and were
\* submitted: of a stream from the given frame, with so many samples sent.
Placed(e, from, sent) ==
    /\ e.lba * Samples <= from * Samples + e.from
    /\ from * Samples + e.to <= (e.lba + e.frames) * Samples
    /\ e.to <= sent

EvidenceInv ==
    /\ evidence \in Seq(Evidences) /\ current \in Seq(Evidences) /\ Len(current) <= 1
    /\ active => \A i \in 1..Len(evidence) : Placed(evidence[i], start, submitted)
    /\ EvidenceOfPosition

QuietInv == quiescent => ~active /\ pending = 0 /\ block = NoBlock /\ evidence = <<>>

EngineInv ==
    /\ StreamInv /\ PlayerInv /\ EngineTypes /\ StageInv /\ OwnedInv
    /\ BlockInv /\ PositionIsHeard /\ EvidenceInv /\ QuietInv

-----------------------------------------------------------------------------
(* Frames and samples.                                                     *)

\* Products of frames and samples distribute, and keep the order.
LEMMA Products ==
    ASSUME NEW a \in Int, NEW b \in Int
    PROVE  /\ a * Samples \in Int
           /\ (a + b) * Samples = a * Samples + b * Samples
           /\ a <= b => a * Samples <= b * Samples
           /\ a < b => a * Samples < b * Samples /\ a * Samples + Samples <= b * Samples
           /\ a * Samples < b * Samples => a < b
           /\ a * Samples <= b * Samples => a <= b
<1>1. Samples \in Int /\ Samples > 0
  BY EngineConstants
<1>2. a * Samples \in Int /\ (a + b) * Samples = a * Samples + b * Samples
  BY <1>1
<1>3. a <= b => a * Samples <= b * Samples
  BY <1>1
<1>4. a < b => a * Samples < b * Samples /\ a * Samples + Samples <= b * Samples
  BY <1>1
<1>5. (a * Samples < b * Samples => a < b) /\ (a * Samples <= b * Samples => a <= b)
  BY <1>1
<1> QED
  BY <1>2, <1>3, <1>4, <1>5

\* The whole frames in a number of samples.
LEMMA WholeFrames ==
    ASSUME NEW x \in Nat
    PROVE  /\ x \div Samples \in Nat
           /\ (x \div Samples) * Samples <= x /\ x < (x \div Samples + 1) * Samples
<1>1. Samples \in Int /\ Samples > 0
  BY EngineConstants
<1>2. x \div Samples \in Int /\ Samples * (x \div Samples) <= x
      /\ x < Samples * (x \div Samples) + Samples
  BY <1>1
<1> DEFINE q == x \div Samples
<1> HIDE DEF q
<1>3. q \in Int /\ Samples * q <= x /\ x < Samples * q + Samples
  BY <1>2 DEF q
<1>4. q * Samples = Samples * q /\ (q + 1) * Samples = Samples * q + Samples
  BY <1>1, <1>3
<1>5. q >= 0
  <2>1. CASE q + 1 <= 0
    <3>1. (q + 1) * Samples <= 0
      BY <1>1, <1>3, <2>1
    <3> QED
      BY <1>3, <1>4, <3>1, <1>1
  <2> QED
    BY <2>1, <1>3
<1> QED
  BY <1>3, <1>4, <1>5 DEF q

\* A block holds no more samples than the largest one, and some if it is one.
LEMMA BlockSamplesType ==
    /\ BlockSamples(NoBlock) = 0
    /\ \A b \in Blocks : /\ BlockSamples(b) \in 1..(MaxBlock * Samples)
                         /\ b # NoBlock
                         /\ b.lba \in 0..LeadOut /\ b.frames \in 1..MaxBlock
                         /\ BlockEnd(b) * Samples = b.lba * Samples + BlockSamples(b)
<1>1. Samples \in Int /\ Samples > 0
  BY EngineConstants
<1>2. BlockSamples(NoBlock) = 0
  BY <1>1 DEF BlockSamples, NoBlock
<1>3. ASSUME NEW b \in Blocks
      PROVE  /\ BlockSamples(b) \in 1..(MaxBlock * Samples) /\ b # NoBlock
             /\ b.lba \in 0..LeadOut /\ b.frames \in 1..MaxBlock
             /\ BlockEnd(b) * Samples = b.lba * Samples + BlockSamples(b)
  <2>1. b.lba \in 0..LeadOut /\ b.frames \in 1..MaxBlock /\ MaxBlock \in Int /\ LeadOut \in Int
    BY StreamConstants, DiscAssumption DEF Blocks
  <2> DEFINE f == b.frames
             l == b.lba
  <2>0. f \in Int /\ l \in Int /\ MaxBlock \in Int /\ f <= MaxBlock /\ 0 \in Int /\ 0 < f
    BY <2>1
  <2> HIDE DEF f, l
  <2>2. f * Samples <= MaxBlock * Samples /\ MaxBlock * Samples \in Int /\ f * Samples \in Int
    BY <2>0, Products
  <2>3. f * Samples >= 1
    <3>1. 0 * Samples + Samples <= f * Samples
      BY <2>0, Products
    <3>2. 0 * Samples = 0
      BY <1>1
    <3> QED
      BY <1>1, <2>2, <3>1, <3>2
  <2>4. (l + f) * Samples = l * Samples + f * Samples
    BY <2>0, Products
  <2> QED
    BY <2>1, <2>2, <2>3, <2>4 DEF BlockSamples, BlockEnd, NoBlock, f, l
<1> QED
  BY <1>2, <1>3

-----------------------------------------------------------------------------
(* The stream.                                                             *)

\* Where production goes on lies behind the next frame, inside the range.
LEMMA FrontierType ==
    ASSUME StreamInv
    PROVE  /\ Frontier \in 0..LeadOut /\ Frontier <= range.end
           /\ queue = <<>> => Frontier = next
           /\ queue # <<>> => Len(queue) \in 1..Len(queue) /\ Frontier = BlockEnd(queue[Len(queue)])
<1>1. /\ range.end \in 0..LeadOut /\ next \in 0..LeadOut /\ next <= range.end /\ LeadOut \in Int
      /\ queue \in Seq(Blocks)
  BY DiscAssumption DEF StreamInv, StreamTypes, QueueInOrder
<1>2. CASE queue = <<>>
  BY <1>1, <1>2 DEF Frontier, FrontierOf
<1>3. CASE queue # <<>>
  <2>1. Len(queue) \in 1..Len(queue) /\ queue[Len(queue)] \in Blocks
    BY <1>1, <1>3, EmptySeq, LenProperties
  <2>2. BlockEnd(queue[Len(queue)]) <= range.end
    BY <2>1 DEF StreamInv, QueueInOrder
  <2>3. BlockEnd(queue[Len(queue)]) \in Nat
    BY <2>1, StreamConstants DEF Blocks, BlockEnd
  <2> QED
    BY <1>1, <1>3, <2>1, <2>2, <2>3 DEF Frontier, FrontierOf
<1> QED
  BY <1>2, <1>3

\* A stream starts with an empty queue at its first frame.
LEMMA StartKeeps ==
    ASSUME StreamInv, NEW from \in 0..LeadOut, NEW to \in 0..LeadOut, from <= to,
           StartStream([begin |-> from, end |-> to])
    PROVE  /\ StreamInv' /\ generation' = generation + 1 /\ generation' \in 0..MaxGeneration
           /\ phase' = "active" /\ queue' = <<>> /\ next' = from
           /\ range' = [begin |-> from, end |-> to]
<1>1. /\ phase' = "active" /\ queue' = <<>> /\ next' = from /\ generation' = generation + 1
      /\ range' = [begin |-> from, end |-> to] /\ generation < MaxGeneration
  BY DEF StartStream, Supersede
<1>2. generation' \in 0..MaxGeneration
  BY <1>1, StreamConstants DEF StreamInv, StreamTypes
<1>3. StreamTypes'
  BY <1>1, <1>2, EmptySeq DEF StreamTypes
<1>4. QueueInOrder'
  BY <1>1, EmptySeq, DiscAssumption DEF QueueInOrder
<1>5. PhaseIsHonest'
  BY <1>1 DEF PhaseIsHonest
<1> QED
  BY <1>1, <1>2, <1>3, <1>4, <1>5 DEF StreamInv

\* A stream that is given up leaves an empty queue.
LEMMA CancelKeeps ==
    ASSUME StreamInv, CancelStream
    PROVE  StreamInv' /\ generation' \in 0..MaxGeneration /\ phase' = "idle" /\ queue' = <<>>
<1>1. /\ phase' = "idle" /\ queue' = <<>> /\ generation' = generation + 1 /\ UNCHANGED <<range, next>>
      /\ generation < MaxGeneration
  BY DEF CancelStream, Supersede
<1>2. generation' \in 0..MaxGeneration
  BY <1>1, StreamConstants DEF StreamInv, StreamTypes
<1>3. StreamTypes'
  BY <1>1, <1>2, EmptySeq DEF StreamInv, StreamTypes
<1>4. QueueInOrder'
  BY <1>1, EmptySeq DEF StreamInv, QueueInOrder
<1>5. PhaseIsHonest'
  BY <1>1 DEF PhaseIsHonest
<1> QED
  BY <1>1, <1>2, <1>3, <1>4, <1>5 DEF StreamInv

\* A block goes to the end of the queue, inside the range.
LEMMA ProduceKeeps ==
    ASSUME StreamInv, NEW n \in 1..MaxBlock, ProduceBlock(n)
    PROVE  StreamInv'
<1> DEFINE b == [generation |-> generation, lba |-> Frontier, frames |-> n]
<1>1. /\ queue' = Append(queue, b) /\ phase = "active" /\ Frontier + n <= range.end
      /\ UNCHANGED <<generation, range, phase, next>>
  BY DEF ProduceBlock
<1>2. /\ StreamTypes /\ QueueInOrder /\ Frontier \in 0..LeadOut /\ range.end \in 0..LeadOut
      /\ LeadOut \in Int /\ MaxBlock \in Int
  BY FrontierType, DiscAssumption, StreamConstants DEF StreamInv, StreamTypes
<1>3. b \in Blocks /\ BlockEnd(b) = Frontier + n /\ b.lba = Frontier
  BY <1>1, <1>2 DEF Blocks, BlockEnd, StreamTypes
<1> HIDE DEF b
<1>4. queue \in Seq(Blocks)
  BY <1>2 DEF StreamTypes
<1>5. /\ queue' \in Seq(Blocks) /\ Len(queue') = Len(queue) + 1 /\ Len(queue) \in Nat
      /\ \A i \in 1..Len(queue) : queue'[i] = queue[i]
      /\ queue'[Len(queue) + 1] = b
  BY <1>1, <1>3, <1>4, AppendProperties, LenProperties
<1>6. StreamTypes'
  BY <1>1, <1>2, <1>5 DEF StreamTypes
<1>7. \A i \in 1..Len(queue') : BlockEnd(queue'[i]) <= range'.end
  <2> SUFFICES ASSUME NEW i \in 1..Len(queue') PROVE BlockEnd(queue'[i]) <= range'.end
    OBVIOUS
  <2>1. i \in 1..Len(queue) \/ i = Len(queue) + 1
    BY <1>5
  <2> QED
    BY <1>1, <1>2, <1>3, <1>5, <2>1 DEF QueueInOrder
<1>8. queue'[1].lba = next'
  <2>1. CASE queue = <<>>
    <3>1. Len(queue) = 0 /\ Frontier = next
      BY <2>1, FrontierType
    <3> QED
      BY <1>1, <1>3, <1>5, <3>1
  <2>2. CASE queue # <<>>
    <3>1. 1 \in 1..Len(queue)
      BY <1>4, <2>2, EmptySeq, LenProperties
    <3> QED
      BY <1>1, <1>2, <1>5, <2>2, <3>1 DEF QueueInOrder
  <2> QED
    BY <2>1, <2>2
<1>9. \A i \in 1..(Len(queue') - 1) : BlockEnd(queue'[i]) = queue'[i + 1].lba
  <2> SUFFICES ASSUME NEW i \in 1..(Len(queue') - 1) PROVE BlockEnd(queue'[i]) = queue'[i + 1].lba
    OBVIOUS
  <2>1. i \in 1..Len(queue) /\ queue'[i] = queue[i]
    BY <1>5
  <2>2. CASE i = Len(queue)
    <3>1. queue # <<>>
      BY <2>1, EmptySeq
    <3>2. BlockEnd(queue[i]) = Frontier
      BY <2>2, <3>1, FrontierType
    <3> QED
      BY <1>3, <1>5, <2>1, <2>2, <3>2
  <2>3. CASE i # Len(queue)
    <3>1. i + 1 \in 1..Len(queue) /\ i \in 1..(Len(queue) - 1)
      BY <1>5, <2>1, <2>3
    <3> QED
      BY <1>2, <1>5, <2>1, <3>1 DEF QueueInOrder
  <2> QED
    BY <2>2, <2>3
<1>10. QueueInOrder'
  BY <1>1, <1>2, <1>7, <1>8, <1>9 DEF QueueInOrder
<1>11. PhaseIsHonest'
  BY <1>1 DEF PhaseIsHonest
<1> QED
  BY <1>6, <1>10, <1>11 DEF StreamInv

\* The first block is taken; where production goes on stays.
LEMMA TakeKeeps ==
    ASSUME StreamInv, TakeBlock
    PROVE  /\ StreamInv' /\ Head(queue) \in Blocks /\ Head(queue).lba = next
           /\ next' = BlockEnd(Head(queue)) /\ queue # <<>>
           /\ UNCHANGED <<generation, range, phase>>
<1>1. /\ queue' = Tail(queue) /\ queue # <<>> /\ next' = BlockEnd(Head(queue))
      /\ UNCHANGED <<generation, range, phase>>
  BY DEF TakeBlock
<1>2. StreamTypes /\ QueueInOrder /\ PhaseIsHonest /\ queue \in Seq(Blocks)
  BY DEF StreamInv, StreamTypes
<1>3. /\ queue' \in Seq(Blocks) /\ Len(queue') = Len(queue) - 1 /\ Len(queue) \in Nat \ {0}
      /\ \A i \in 1..Len(queue') : queue'[i] = queue[i + 1]
      /\ Head(queue) = queue[1] /\ queue[1] \in Blocks
  BY <1>1, <1>2, HeadTailProperties, EmptySeq, LenProperties
<1>4. BlockEnd(queue[1]) <= range.end /\ queue[1].lba = next
  BY <1>1, <1>2, <1>3 DEF QueueInOrder
<1>5. BlockEnd(queue[1]) \in 0..LeadOut
  <2>1. BlockEnd(queue[1]) \in Nat
    BY <1>3, StreamConstants DEF Blocks, BlockEnd
  <2>2. range.end \in 0..LeadOut /\ LeadOut \in Int
    BY <1>2, DiscAssumption DEF StreamTypes
  <2> QED
    BY <1>4, <2>1, <2>2
<1>6. StreamTypes'
  BY <1>1, <1>2, <1>3, <1>5 DEF StreamTypes
<1>7. \A i \in 1..Len(queue') : BlockEnd(queue'[i]) <= range'.end
  <2> SUFFICES ASSUME NEW i \in 1..Len(queue') PROVE BlockEnd(queue'[i]) <= range'.end
    OBVIOUS
  <2>1. i + 1 \in 1..Len(queue) /\ queue'[i] = queue[i + 1]
    BY <1>3
  <2> QED
    BY <1>1, <1>2, <2>1 DEF QueueInOrder
<1>8. ASSUME queue' # <<>> PROVE queue'[1].lba = next'
  <2>1. Len(queue') # 0 /\ Len(queue') \in Nat
    BY <1>3, <1>8, EmptySeq, LenProperties
  <2>2. 1 \in 1..Len(queue') /\ 1 \in 1..(Len(queue) - 1)
    BY <1>3, <2>1
  <2>3. queue'[1] = queue[1 + 1] /\ BlockEnd(queue[1]) = queue[1 + 1].lba
    BY <1>2, <1>3, <2>2 DEF QueueInOrder
  <2> QED
    BY <1>1, <1>3, <2>3
<1>9. \A i \in 1..(Len(queue') - 1) : BlockEnd(queue'[i]) = queue'[i + 1].lba
  <2> SUFFICES ASSUME NEW i \in 1..(Len(queue') - 1) PROVE BlockEnd(queue'[i]) = queue'[i + 1].lba
    OBVIOUS
  <2>1. i \in 1..Len(queue') /\ i + 1 \in 1..Len(queue') /\ i + 1 \in 1..(Len(queue) - 1)
    BY <1>3
  <2> QED
    BY <1>2, <1>3, <2>1 DEF QueueInOrder
<1>10. QueueInOrder'
  BY <1>1, <1>3, <1>4, <1>7, <1>8, <1>9 DEF QueueInOrder
<1>11. Frontier' = Frontier
  <2>1. CASE Len(queue) = 1
    <3>1. queue' = <<>> /\ Frontier = BlockEnd(queue[1])
      BY <1>1, <1>3, <2>1, EmptySeq, FrontierType
    <3> QED
      BY <1>1, <1>3, <3>1 DEF Frontier, FrontierOf
  <2>2. CASE Len(queue) # 1
    <3>1. Len(queue') \in 1..Len(queue') /\ Len(queue') + 1 = Len(queue) /\ queue' # <<>>
      BY <1>3, <2>2, EmptySeq
    <3>2. queue'[Len(queue')] = queue[Len(queue)]
      BY <1>3, <3>1
    <3> QED
      BY <1>1, <3>1, <3>2 DEF Frontier, FrontierOf
  <2> QED
    BY <2>1, <2>2
<1>12. PhaseIsHonest'
  BY <1>1, <1>2, <1>11 DEF PhaseIsHonest
<1> QED
  BY <1>1, <1>3, <1>4, <1>6, <1>10, <1>12 DEF StreamInv

\* The last block was handed over, or a read failed.
LEMMA EndKeeps == StreamInv /\ (CompleteStream \/ FailStream) => StreamInv'
<1>1. ASSUME StreamInv, CompleteStream PROVE StreamInv'
  <2>1. UNCHANGED <<generation, range, queue, next>> /\ phase' = "done" /\ Frontier = range.end
    BY <1>1 DEF CompleteStream
  <2>2. StreamTypes' /\ QueueInOrder'
    BY <1>1, <2>1 DEF StreamInv, StreamTypes, QueueInOrder
  <2>3. PhaseIsHonest'
    BY <2>1 DEF PhaseIsHonest, Frontier
  <2> QED
    BY <2>2, <2>3 DEF StreamInv
<1>2. ASSUME StreamInv, FailStream PROVE StreamInv'
  <2>1. UNCHANGED <<generation, range, next>> /\ phase' = "failed" /\ queue' = <<>>
    BY <1>2 DEF FailStream
  <2>2. StreamTypes' /\ QueueInOrder'
    BY <1>2, <2>1, EmptySeq DEF StreamInv, StreamTypes, QueueInOrder
  <2>3. PhaseIsHonest'
    BY <2>1 DEF PhaseIsHonest
  <2> QED
    BY <2>2, <2>3 DEF StreamInv
<1> QED
  BY <1>1, <1>2

\* The stream is left alone.
LEMMA StreamKept == StreamInv /\ UNCHANGED streamVars => StreamInv'
BY DEF streamVars, StreamInv, StreamTypes, QueueInOrder, PhaseIsHonest, Frontier

-----------------------------------------------------------------------------
(* The invariant.                                                          *)

\* It implies what the runs check.
LEMMA EngineInvImplies == EngineInv => PositionIsPlayable /\ SamplesAreAccounted /\ StreamIsOwned
<1> SUFFICES ASSUME EngineInv PROVE PositionIsPlayable /\ SamplesAreAccounted /\ StreamIsOwned
  OBVIOUS
<1>1. PositionIsPlayable
  BY InvIsPlayable DEF EngineInv, PlayerInv
<1>2. /\ start \in Int /\ next \in Int /\ submitted \in Int /\ offset \in Int
      /\ start * Samples \in Int /\ next * Samples \in Int
  BY Products, EngineConstants, DiscAssumption DEF EngineInv, BlockInv, EngineTypes, StreamInv, StreamTypes
<1>3. offset \in 0..(MaxBlock * Samples)
  <2>1. MaxBlock * Samples \in Nat
    BY StreamConstants, EngineConstants
  <2> QED
    BY <2>1, BlockSamplesType DEF EngineInv, BlockInv
<1>4. TypeOK
  BY <1>3 DEF EngineInv, TypeOK, StreamInv, StreamTypes, PlayerInv, ControllerInv, EngineTypes, StageInv,
              BlockInv, EvidenceInv, Phases
<1>5. ASSUME active
      PROVE  /\ BlockWritten => start * Samples + submitted = next * Samples
             /\ ~BlockWritten => /\ start * Samples + submitted = block.lba * Samples + offset
                                 /\ block \in Blocks
  <2>1. /\ start * Samples + submitted + BlockSamples(block) - offset = next * Samples
        /\ block # NoBlock => BlockEnd(block) = next
        /\ block \in Blocks \cup {NoBlock} /\ offset \in Nat /\ offset <= BlockSamples(block)
    BY <1>5 DEF EngineInv, BlockInv
  <2>2. BlockSamples(block) \in Int
    BY <2>1, BlockSamplesType
  <2>3. CASE BlockWritten
    BY <1>2, <2>1, <2>2, <2>3 DEF BlockWritten
  <2>4. CASE ~BlockWritten
    <3>1. block # NoBlock /\ block \in Blocks
      BY <2>1, <2>4, BlockSamplesType DEF BlockWritten
    <3>2. /\ block.lba * Samples \in Int
          /\ next * Samples = block.lba * Samples + BlockSamples(block)
      <4>1. block.lba \in Int
        BY <3>1, BlockSamplesType
      <4> QED
        BY <2>1, <3>1, <4>1, BlockSamplesType, Products
    <3> QED
      BY <1>2, <2>1, <2>2, <2>4, <3>1, <3>2
  <2> QED
    BY <2>3, <2>4
<1>6. SamplesAligned
  BY <1>5 DEF SamplesAligned
<1>7. DrainedWhenWritten
  <2> SUFFICES ASSUME active, draining PROVE submitted = (discEnd - start) * Samples /\ queue = <<>>
    BY DEF DrainedWhenWritten
  <2>1. phase = "done" /\ queue = <<>> /\ BlockWritten /\ range.end = discEnd /\ discEnd \in Int
    BY DEF EngineInv, BlockInv, OwnedInv, PlayerInv
  <2>2. next = discEnd
    BY <2>1, FrontierType DEF EngineInv, StreamInv, PhaseIsHonest
  <2>3. start * Samples + submitted = discEnd * Samples
    BY <1>5, <2>1, <2>2
  <2> DEFINE d == discEnd - start
  <2>4. d \in Int /\ d + start = discEnd
    BY <1>2, <2>1
  <2> HIDE DEF d
  <2>5. (d + start) * Samples = d * Samples + start * Samples /\ d * Samples \in Int
    BY <1>2, <2>4, Products
  <2>6. submitted = d * Samples
    <3>1. (d + start) * Samples = discEnd * Samples
      BY <2>4
    <3> QED
      BY <1>2, <2>1, <2>3, <2>5, <3>1
  <2> QED
    BY <2>1, <2>6 DEF d
<1>8. StreamIsOwned
  BY DEF EngineInv, StreamIsOwned, EngineMatchesStream, QuiescentIsSilent, OwnedInv, QuietInv, StreamInv, PhaseIsHonest
<1> QED
  BY <1>1, <1>4, <1>6, <1>7, <1>8 DEF SamplesAreAccounted, EngineInv, EvidenceInv

\* The engine starts without a disc and without a stream.
LEMMA EngineInit == Init => EngineInv
<1> SUFFICES ASSUME Init PROVE EngineInv
  OBVIOUS
<1>1. StreamInv
  BY DiscAssumption, StreamConstants, EmptySeq
     DEF Init, StreamInit, StreamInv, StreamTypes, QueueInOrder, PhaseIsHonest
<1>2. PlayerInv
  BY NoDiscInv, DiscAssumption DEF Init, PlayerInv, NoDisc
<1>3. prebuffer \in Nat
  BY EngineConstants DEF Init, StartupBlocks, Smaller
<1>4. EngineTypes
  <2>1. 0 \in 0..LeadOut /\ 0 \in 0..MaxGeneration /\ 0 \in 0..MaxRecoveries
    BY EngineConstants, DiscAssumption, StreamConstants
  <2>2. /\ active = FALSE /\ primed = FALSE /\ draining = FALSE /\ quiescent = FALSE
        /\ start = 0 /\ readerFailed = FALSE /\ owner = 0 /\ recoveries = 0 /\ readBlock \in ReadBlocks
    BY DEF Init
  <2> QED
    BY <1>3, <2>1, <2>2 DEF EngineTypes
<1>5. StageInv /\ OwnedInv
  BY EngineConstants DEF Init, StageInv, OwnedInv, StreamInit
<1>6. BlockInv
  <2>1. LeadOut * Samples \in Nat
    BY EngineConstants, DiscAssumption
  <2> QED
    BY <2>1, BlockSamplesType, EngineConstants DEF Init, BlockInv
<1>7. PositionIsHeard /\ EvidenceInv /\ QuietInv
  BY EmptySeq DEF Init, PositionIsHeard, EvidenceInv, EvidenceOfPosition, QuietInv
<1> QED
  BY <1>1, <1>2, <1>4, <1>5, <1>6, <1>7 DEF EngineInv

-----------------------------------------------------------------------------
(* Commands, and the ends of a stream.                                     *)

\* What is left when the engine forgets its stream.
LEMMA Forgotten ==
    ASSUME ForgetStream, pending' = 0, active' => next' = start' /\ start' \in Int
    PROVE  BlockInv'
<1>1. block' = NoBlock /\ offset' = 0 /\ submitted' = 0 /\ draining' = FALSE
  BY DEF ForgetStream
<1>2. LeadOut * Samples \in Nat /\ BlockSamples(NoBlock) = 0 /\ AlsaBuffer \in Nat
  BY EngineConstants, DiscAssumption, BlockSamplesType
<1>3. ASSUME active' PROVE start' * Samples + submitted' + BlockSamples(block') - offset' = next' * Samples
  <2>1. start' * Samples \in Int /\ start' = next'
    BY <1>3, Products
  <2> QED
    BY <1>1, <1>2, <2>1
<1> QED
  BY <1>1, <1>2, <1>3 DEF BlockInv, BlockSamples

\* A stream is begun at the position, for a controller that plays.
LEMMA BeginKeeps ==
    ASSUME EngineInv, PlayerInv', ctl'.playback = "playing", at' = "loop", writes' \in 0..MaxWrites,
           ForgetStream, BeginStream(ctl'.position, discEnd'), pending' = 0, quiescent' = FALSE,
           readerFailed' = readerFailed, prebuffer' \in Nat, recoveries' \in 0..MaxRecoveries,
           readBlock' \in ReadBlocks
    PROVE  EngineInv'
<1> DEFINE p == ctl'.position
<1>1. /\ p \in 0..LeadOut /\ discEnd' \in 0..LeadOut /\ p < discEnd' /\ p \in Int /\ p <= discEnd'
  BY DiscAssumption DEF PlayerInv, ControllerInv, ControllerStates, InRange
<1>2. /\ StreamInv' /\ generation' \in 0..MaxGeneration /\ phase' = "active" /\ queue' = <<>>
      /\ next' = p /\ range' = [begin |-> p, end |-> discEnd']
      /\ owner' = generation' /\ start' = p /\ active' = TRUE
  <2>1. StartStream([begin |-> p, end |-> discEnd'])
    BY DEF BeginStream
  <2>2. owner' = generation' /\ start' = p /\ active' = TRUE
    BY DEF BeginStream
  <2> QED
    BY <1>1, <2>1, <2>2, StartKeeps DEF EngineInv
<1>3. /\ submitted' = 0 /\ primed' = FALSE /\ draining' = FALSE /\ evidence' = <<>> /\ current' = <<>>
      /\ offset' = 0 /\ block' = NoBlock
  BY DEF ForgetStream
<1> HIDE DEF p
<1>4. EngineTypes'
  BY <1>1, <1>2, <1>3 DEF EngineInv, EngineTypes
<1>5. StageInv' /\ OwnedInv'
  BY <1>1, <1>2 DEF StageInv, OwnedInv
<1>6. BlockInv'
  BY <1>1, <1>2, Forgotten
<1>7. PositionIsHeard'
  <2>1. Played' = 0 /\ ctl'.position = p
    BY <1>3 DEF Played, p
  <2>2. p * Samples \in Int /\ p \in Int
    BY <1>1, Products
  <2> QED
    BY <1>2, <2>1, <2>2 DEF PositionIsHeard
<1>8. EvidenceInv' /\ QuietInv'
  BY <1>2, <1>3, EmptySeq DEF EvidenceInv, EvidenceOfPosition, QuietInv
<1> QED
  BY <1>2, <1>4, <1>5, <1>6, <1>7, <1>8 DEF EngineInv

\* synchronize(), after the controller moved.
LEMMA SynchronizeKeeps ==
    ASSUME EngineInv, PlayerInv', at' = "loop", UNCHANGED <<writes, readerFailed>>,
           prebuffer' \in Nat, readBlock' \in ReadBlocks, Synchronize(ctl')
    PROVE  EngineInv'
<1>1. /\ recoveries' = 0 /\ 0 \in 0..MaxRecoveries /\ pending' = 0 /\ ForgetStream
      /\ writes' \in 0..MaxWrites
  BY EngineConstants DEF Synchronize, EngineInv, StageInv
<1>2. CASE ctl'.playback = "playing"
  <2>1. BeginStream(ctl'.position, discEnd') /\ quiescent' = FALSE
    BY <1>2 DEF Synchronize
  <2>2. primed' \in BOOLEAN
    BY <1>1 DEF ForgetStream
  <2> QED
    BY <1>1, <1>2, <2>1, <2>2, BeginKeeps
<1>3. CASE ctl'.playback # "playing"
  <2>1. /\ CancelStream /\ active' = FALSE /\ quiescent' = (ctl'.playback = "stopped")
        /\ UNCHANGED <<owner, start>>
    BY <1>3 DEF Synchronize
  <2>2. StreamInv' /\ phase' = "idle" /\ queue' = <<>>
    BY <2>1, CancelKeeps DEF EngineInv
  <2>3. /\ submitted' = 0 /\ primed' = FALSE /\ draining' = FALSE /\ evidence' = <<>> /\ current' = <<>>
        /\ block' = NoBlock
    BY <1>1 DEF ForgetStream
  <2>4. quiescent' \in BOOLEAN
    BY <2>1
  <2>5. EngineTypes'
    BY <1>1, <2>1, <2>3, <2>4 DEF EngineInv, EngineTypes
  <2>6. StageInv' /\ OwnedInv'
    BY <2>1, <2>2 DEF EngineInv, StageInv, OwnedInv
  <2>7. BlockInv'
    BY <1>1, <2>1, Forgotten
  <2>8. PositionIsHeard' /\ EvidenceInv' /\ QuietInv'
    BY <1>1, <2>1, <2>3, EmptySeq DEF PositionIsHeard, EvidenceInv, EvidenceOfPosition, QuietInv
  <2> QED
    BY <2>2, <2>5, <2>6, <2>7, <2>8 DEF EngineInv
<1> QED
  BY <1>2, <1>3

\* synchronize() throws when it resets the output, and the session goes on or
\* ends.
LEMMA SynchronizeFailsKeeps ==
    ASSUME EngineInv, PlayerInv', at' \in {"loop", "gone"}, UNCHANGED <<writes, readerFailed>>,
           prebuffer' \in Nat, readBlock' \in ReadBlocks, SynchronizeFails
    PROVE  EngineInv'
<1>1. /\ recoveries' = 0 /\ quiescent' = FALSE /\ active' = FALSE /\ CancelStream /\ pending' \in {0, pending}
      /\ UNCHANGED <<block, offset, submitted, primed, draining, evidence, current, owner, start>>
      /\ 0 \in 0..MaxRecoveries
  BY EngineConstants DEF SynchronizeFails
<1>2. StreamInv' /\ phase' = "idle"
  BY <1>1, CancelKeeps DEF EngineInv
<1>3. EngineTypes' /\ StageInv' /\ OwnedInv'
  BY <1>1, <1>2 DEF EngineInv, EngineTypes, StageInv, OwnedInv
<1>4. BlockInv'
  BY <1>1, EngineConstants DEF EngineInv, BlockInv, BlockSamples
<1>5. PositionIsHeard' /\ EvidenceInv' /\ QuietInv'
  BY <1>1 DEF EngineInv, PositionIsHeard, EvidenceInv, EvidenceOfPosition, QuietInv
<1> QED
  BY <1>2, <1>3, <1>4, <1>5 DEF EngineInv

\* Every error path ends the stream.
LEMMA StopOnErrorKeeps ==
    ASSUME EngineInv, active, NEW failed \in BOOLEAN, StopOnError(failed), recoveries' \in 0..MaxRecoveries
    PROVE  EngineInv'
<1>1. /\ ctl' = Stop(ctl) /\ active' = FALSE /\ readerFailed' = (readerFailed \/ failed)
      /\ evidence' = <<>> /\ current' = <<>> /\ block' = NoBlock /\ offset' = 0
      /\ CancelStream /\ at' = "loop" /\ writes' = 0 /\ pending' \in {0, pending}
      /\ UNCHANGED <<primed, draining, quiescent, start, discEnd, owner, submitted, prebuffer, readBlock>>
  BY DEF StopOnError
<1>2. StreamInv' /\ phase' = "idle"
  BY <1>1, CancelKeeps DEF EngineInv
<1>3. PlayerInv'
  BY <1>1, StopKeeps DEF EngineInv, PlayerInv
<1>4. readerFailed' \in BOOLEAN
  BY <1>1
<1>5. EngineTypes'
  BY <1>1, <1>4 DEF EngineInv, EngineTypes
<1>6. StageInv' /\ OwnedInv'
  BY <1>1, <1>2, EngineConstants DEF StageInv, OwnedInv
<1>7. BlockInv'
  BY <1>1, BlockSamplesType, EngineConstants DEF EngineInv, BlockInv, BlockSamples
<1>8. PositionIsHeard' /\ EvidenceInv' /\ QuietInv'
  BY <1>1, EmptySeq DEF EngineInv, PositionIsHeard, EvidenceInv, EvidenceOfPosition, QuietInv
<1> QED
  BY <1>2, <1>3, <1>5, <1>6, <1>7, <1>8 DEF EngineInv

\* The session moves the controller to a state of the range it has, and
\* synchronizes; whatever is thrown is caught, or ends the session.
LEMMA SynchronizedKeeps ==
    ASSUME EngineInv, at = "loop", NEW c, ControllerInv(c),
           discEnd' \in 0..LeadOut, c.begin < c.end => discEnd' = c.end,
           UNCHANGED <<writes, readerFailed>>, prebuffer' \in Nat, readBlock' \in ReadBlocks,
           SynchronizeCaught(c) \/ SynchronizeUncaught(c)
    PROVE  EngineInv'
<1>1. CASE ctl' = c /\ at' = at /\ (Synchronize(c) \/ SynchronizeFails)
  <2>1. PlayerInv'
    BY <1>1 DEF PlayerInv
  <2>2. at' = "loop" /\ (Synchronize(ctl') \/ SynchronizeFails)
    BY <1>1
  <2> QED
    BY <2>1, <2>2, SynchronizeKeeps, SynchronizeFailsKeeps
<1>2. CASE SessionEnds(c)
  <2>1. ctl' = Stop(c) /\ at' = "gone" /\ SynchronizeFails
    BY <1>2 DEF SessionEnds
  <2>2. PlayerInv'
    BY <2>1, StopKeeps DEF PlayerInv
  <2> QED
    BY <2>1, <2>2, SynchronizeFailsKeeps
<1> QED
  BY <1>1, <1>2 DEF SynchronizeCaught, SynchronizeUncaught

\* A command: the controller keeps its invariant and its range.
LEMMA CommandKeeps ==
    ASSUME EngineInv, NEW c, ControllerInv(c), c.begin = ctl.begin, c.end = ctl.end, Command(c)
    PROVE  EngineInv'
<1>1. /\ at = "loop" /\ UNCHANGED <<discEnd, writes, readerFailed, prebuffer, readBlock>>
      /\ SynchronizeCaught(c) \/ SynchronizeUncaught(c)
  BY DEF Command, UserMayAct
<1>2. /\ discEnd' \in 0..LeadOut /\ (c.begin < c.end => discEnd' = c.end)
      /\ prebuffer' \in Nat /\ readBlock' \in ReadBlocks
  BY <1>1 DEF EngineInv, PlayerInv, EngineTypes
<1> QED
  BY <1>1, <1>2, SynchronizedKeeps

-----------------------------------------------------------------------------
(* The steps of a tick.                                                    *)

\* A part of a block is written, after which the block ends where the queue
\* goes on, as it did before.
LEMMA WriteKeeps ==
    ASSUME EngineInv, at = "write", NEW b \in Blocks, NEW done \in Nat, done <= BlockSamples(b),
           NEW n \in Nat, Write(b, done, n), StreamInv', UNCHANGED <<generation, range, phase>>,
           start * Samples + submitted + BlockSamples(b) - done = next' * Samples, BlockEnd(b) = next'
    PROVE  EngineInv'
<1> DEFINE e == [from |-> submitted, to |-> submitted + n, lba |-> b.lba, frames |-> b.frames]
<1>1. /\ n <= Smaller(BlockSamples(b) - done, AlsaBuffer - pending)
      /\ block' = b /\ offset' = done + n /\ submitted' = submitted + n /\ pending' = pending + n
      /\ evidence' = IF n = 0 THEN evidence ELSE Append(evidence, e)
      /\ writes' = writes + 1 /\ at' = IF n = 0 \/ writes' = MaxWrites THEN "account" ELSE "write"
      /\ UNCHANGED <<ctl, active, primed, draining, quiescent, start, discEnd, readerFailed, owner,
                     current, prebuffer, recoveries, readBlock>>
  BY DEF Write
<1>2. /\ active = TRUE /\ ~draining /\ writes \in 0..MaxWrites /\ writes < MaxWrites /\ MaxWrites \in Nat
      /\ submitted \in 0..(LeadOut * Samples) /\ pending \in 0..AlsaBuffer /\ AlsaBuffer \in Nat
      /\ pending <= submitted
  BY EngineConstants DEF EngineInv, StageInv, BlockInv, EngineTypes
<1>3. /\ b.lba \in 0..LeadOut /\ b.frames \in 1..MaxBlock /\ b # NoBlock /\ BlockSamples(b) \in Nat
      /\ BlockEnd(b) * Samples = b.lba * Samples + BlockSamples(b)
      /\ b.lba \in Int /\ b.frames \in Int
  BY BlockSamplesType
<1>4. /\ start \in Int /\ next' \in Int /\ LeadOut \in Int /\ 0 <= start /\ next' <= LeadOut
  BY DiscAssumption DEF EngineInv, EngineTypes, StreamInv, StreamTypes
<1>5. /\ start * Samples \in Int /\ 0 <= start * Samples
      /\ next' * Samples \in Int /\ next' * Samples <= LeadOut * Samples /\ LeadOut * Samples \in Int
      /\ b.lba * Samples \in Int
  <2>1. 0 * Samples = 0 /\ 0 \in Int
    BY EngineConstants
  <2> QED
    BY <1>3, <1>4, <2>1, Products
<1>6. /\ n <= BlockSamples(b) - done /\ n <= AlsaBuffer - pending
  BY <1>1, <1>2, <1>3 DEF Smaller
<1>7. submitted' \in 0..(LeadOut * Samples) /\ pending' \in 0..AlsaBuffer /\ offset' \in Nat
  BY <1>1, <1>2, <1>3, <1>5, <1>6
<1>8. PlayerInv' /\ EngineTypes' /\ OwnedInv'
  BY <1>1 DEF EngineInv, PlayerInv, EngineTypes, OwnedInv
<1>9. StageInv'
  BY <1>1, <1>2 DEF StageInv
<1>10. BlockInv'
  BY SMTT(30), <1>1, <1>2, <1>3, <1>5, <1>6, <1>7 DEF BlockInv, BlockSamples
<1>11. Played' = Played
  BY <1>1, <1>2 DEF Played
<1>12. PositionIsHeard'
  BY <1>1, <1>11 DEF EngineInv, PositionIsHeard
<1>13. Placed(e, start, submitted')
  <2>1. start * Samples + submitted = b.lba * Samples + done
    BY <1>2, <1>3, <1>5
  <2>2. /\ e.from = submitted /\ e.to = submitted + n /\ e.lba = b.lba /\ e.frames = b.frames
        /\ submitted' = submitted + n
    BY <1>1
  <2>3. (b.lba + b.frames) * Samples = b.lba * Samples + BlockSamples(b)
    BY <1>3 DEF BlockEnd
  <2>4. /\ b.lba * Samples <= start * Samples + submitted
        /\ start * Samples + (submitted + n) <= b.lba * Samples + BlockSamples(b)
    BY <1>2, <1>3, <1>5, <1>6, <2>1
  <2> HIDE DEF e
  <2> QED
    BY <1>2, <2>2, <2>3, <2>4 DEF Placed
<1>14. e \in Evidences
  BY <1>2, <1>3 DEF Evidences
<1> HIDE DEF e
<1>15. ASSUME NEW i \in 1..Len(evidence) PROVE Placed(evidence[i], start', submitted')
  <2>1. Placed(evidence[i], start, submitted) /\ evidence[i] \in Evidences
    BY <1>2 DEF EngineInv, EvidenceInv
  <2>2. evidence[i].to \in Nat
    BY <2>1 DEF Evidences
  <2> QED
    BY <1>1, <1>2, <2>1, <2>2 DEF Placed
<1>16. /\ evidence' \in Seq(Evidences)
       /\ \A i \in 1..Len(evidence') : Placed(evidence'[i], start', submitted')
  <2>1. evidence \in Seq(Evidences)
    BY DEF EngineInv, EvidenceInv
  <2>2. CASE n = 0
    BY <1>1, <1>15, <2>1, <2>2
  <2>3. CASE n # 0
    <3>1. /\ evidence' \in Seq(Evidences) /\ Len(evidence') = Len(evidence) + 1 /\ Len(evidence) \in Nat
          /\ \A i \in 1..Len(evidence) : evidence'[i] = evidence[i]
          /\ evidence'[Len(evidence) + 1] = e
      BY <1>1, <1>14, <2>1, <2>3, AppendProperties, LenProperties
    <3>2. ASSUME NEW i \in 1..Len(evidence') PROVE Placed(evidence'[i], start', submitted')
      <4>1. i \in 1..Len(evidence) \/ i = Len(evidence) + 1
        BY <3>1
      <4> QED
        BY <1>1, <1>13, <1>15, <3>1, <4>1
    <3> QED
      BY <3>1, <3>2
  <2> QED
    BY <2>2, <2>3
<1>17. EvidenceInv'
  BY <1>1, <1>16 DEF EngineInv, EvidenceInv, EvidenceOfPosition
<1>18. QuietInv'
  BY <1>1, <1>2 DEF EngineInv, QuietInv
<1> QED
  BY <1>8, <1>9, <1>10, <1>12, <1>17, <1>18 DEF EngineInv

\* The rest of the block in hand.
LEMMA WriteRestKeeps == ASSUME EngineInv, NEW n \in Nat, WriteRest(n) PROVE EngineInv'
<1>1. at = "write" /\ ~BlockWritten /\ Write(block, offset, n) /\ UNCHANGED streamVars
  BY DEF WriteRest
<1>2. /\ active /\ block \in Blocks \cup {NoBlock} /\ offset \in Nat /\ offset <= BlockSamples(block)
      /\ start * Samples + submitted + BlockSamples(block) - offset = next * Samples
      /\ block # NoBlock => BlockEnd(block) = next
  BY <1>1 DEF EngineInv, StageInv, BlockInv
<1>3. block \in Blocks /\ block # NoBlock
  BY <1>1, <1>2, BlockSamplesType DEF BlockWritten
<1>4. StreamInv' /\ UNCHANGED <<generation, range, phase, next>>
  BY <1>1, StreamKept DEF EngineInv, streamVars
<1> QED
  BY <1>1, <1>2, <1>3, <1>4, WriteKeeps

\* The next block of the queue.
LEMMA WriteNextKeeps == ASSUME EngineInv, NEW n \in Nat, WriteNext(n) PROVE EngineInv'
<1> DEFINE b == Head(queue)
<1>1. at = "write" /\ BlockWritten /\ TakeBlock /\ Write(b, 0, n)
  BY DEF WriteNext
<1>2. /\ StreamInv' /\ b \in Blocks /\ b.lba = next /\ next' = BlockEnd(b)
      /\ UNCHANGED <<generation, range, phase>>
  BY <1>1, TakeKeeps DEF EngineInv
<1> HIDE DEF b
<1>3. /\ active /\ block \in Blocks \cup {NoBlock} /\ offset \in Nat /\ offset = BlockSamples(block)
      /\ start * Samples + submitted + BlockSamples(block) - offset = next * Samples
  BY <1>1 DEF EngineInv, StageInv, BlockInv, BlockWritten
<1>4. /\ start \in Int /\ submitted \in Int /\ next \in Int
      /\ start * Samples \in Int /\ next * Samples \in Int
  BY Products, EngineConstants, DiscAssumption DEF EngineInv, EngineTypes, BlockInv, StreamInv, StreamTypes
<1>5. BlockSamples(b) \in Nat /\ BlockEnd(b) * Samples = next * Samples + BlockSamples(b)
  BY <1>2, BlockSamplesType
<1>6. start * Samples + submitted + BlockSamples(b) - 0 = next' * Samples
  BY <1>2, <1>3, <1>4, <1>5
<1> QED
  BY <1>1, <1>2, <1>5, <1>6, WriteKeeps

\* The queue is empty: nothing is in hand.
LEMMA QueueEmptyKeeps == ASSUME EngineInv, QueueEmpty PROVE EngineInv'
<1>1. /\ at = "write" /\ BlockWritten /\ block' = NoBlock /\ offset' = 0 /\ at' = "account"
      /\ UNCHANGED <<streamVars, ctl, writes, active, primed, draining, quiescent, start, discEnd,
                     readerFailed, owner, submitted, evidence, current, prebuffer, recoveries, readBlock, pending>>
  BY DEF QueueEmpty
<1>2. active /\ ~draining /\ active = TRUE
  BY <1>1 DEF EngineInv, StageInv, EngineTypes
<1>3. StreamInv' /\ UNCHANGED <<generation, range, phase, queue, next>>
  BY <1>1, StreamKept DEF EngineInv, streamVars
<1>4. PlayerInv' /\ EngineTypes' /\ StageInv' /\ OwnedInv'
  BY <1>1, <1>2, <1>3 DEF EngineInv, PlayerInv, EngineTypes, StageInv, OwnedInv
<1>5. BlockInv'
  <2>1. /\ start * Samples + submitted + BlockSamples(block) - offset = next * Samples
        /\ offset = BlockSamples(block) /\ offset \in Nat
    BY <1>1, <1>2 DEF EngineInv, BlockInv, BlockWritten
  <2>2. BlockSamples(NoBlock) = 0 /\ start * Samples \in Int /\ submitted \in Int
    BY BlockSamplesType, Products, EngineConstants, DiscAssumption DEF EngineInv, EngineTypes, BlockInv
  <2>3. start * Samples + submitted + BlockSamples(NoBlock) - 0 = next * Samples
    BY <2>1, <2>2
  <2> QED
    BY <1>1, <1>2, <1>3, <2>2, <2>3 DEF EngineInv, BlockInv, BlockSamples
<1>6. PositionIsHeard' /\ EvidenceInv' /\ QuietInv'
  BY <1>1, <1>2 DEF EngineInv, PositionIsHeard, EvidenceInv, EvidenceOfPosition, QuietInv, Played
<1> QED
  BY <1>3, <1>4, <1>5, <1>6 DEF EngineInv

\* The position that was reached when so many samples were heard is ahead of
\* the published one and inside the range, so it is published as it is.
LEMMA HeardPosition ==
    ASSUME EngineInv, active
    PROVE  /\ Played \in Nat /\ Played <= submitted
           /\ start \in Int /\ Played \div Samples \in Nat /\ discEnd \in Int
           /\ PositionPlayed \in Int /\ PositionPlayed = Smaller(discEnd - 1, start + Played \div Samples)
           /\ start <= PositionPlayed
           /\ PositionPlayed * Samples <= start * Samples + Played
           /\ start * Samples + Played < (start + Played \div Samples + 1) * Samples
           /\ start * Samples + submitted <= discEnd * Samples
           /\ PlaybackPosition(ctl, PositionPlayed).position = PositionPlayed
<1> DEFINE q == Played \div Samples
<1>1. /\ submitted \in Nat /\ pending \in Nat /\ pending <= submitted /\ start \in Nat /\ discEnd \in Nat
      /\ start < discEnd /\ ctl.playback = "playing" /\ range.end = discEnd /\ next \in Int /\ next <= discEnd
      /\ start * Samples + submitted + BlockSamples(block) - offset = next * Samples
      /\ offset \in Nat /\ offset <= BlockSamples(block)
  <2>1. LeadOut * Samples \in Int /\ AlsaBuffer \in Int /\ LeadOut \in Int
    BY EngineConstants, DiscAssumption
  <2> QED
    BY <2>1 DEF EngineInv, BlockInv, EngineTypes, PlayerInv, OwnedInv, StreamInv, StreamTypes, QueueInOrder
<1>2. Played \in Nat /\ Played <= submitted
  BY <1>1 DEF Played
<1>3. q \in Nat /\ q * Samples <= Played /\ Played < (q + 1) * Samples
  BY <1>2, WholeFrames
<1> HIDE DEF q
<1>4. PositionPlayed = Smaller(discEnd - 1, start + q)
  BY DEF PositionPlayed, q
<1> DEFINE p == PositionPlayed
<1>5. p \in Int /\ start <= p /\ p <= start + q /\ p < discEnd
  BY <1>1, <1>3, <1>4 DEF Smaller
<1> HIDE DEF p
<1>6. /\ (start + q) * Samples = start * Samples + q * Samples
      /\ (start + (q + 1)) * Samples = start * Samples + (q + 1) * Samples
      /\ start * Samples \in Int /\ q * Samples \in Int /\ (q + 1) * Samples \in Int
      /\ start + (q + 1) = start + q + 1
  BY <1>1, <1>3, Products
<1>7. p * Samples <= (start + q) * Samples /\ p * Samples \in Int
  <2>1. start + q \in Int
    BY <1>1, <1>3
  <2> QED
    BY <1>5, <2>1, Products
<1>8. p * Samples <= start * Samples + Played /\ start * Samples + Played < (start + q + 1) * Samples
  BY <1>2, <1>3, <1>6, <1>7
<1>9. start * Samples + submitted <= discEnd * Samples
  <2>0. discEnd \in Int /\ next \in Int /\ next <= discEnd
    BY <1>1
  <2>1. next * Samples <= discEnd * Samples /\ next * Samples \in Int /\ discEnd * Samples \in Int
    BY <2>0, Products
  <2>2. BlockSamples(block) \in Int
    BY BlockSamplesType DEF EngineInv, BlockInv
  <2> QED
    BY <1>1, <1>6, <2>1, <2>2
<1>10. ctl.position \in Int /\ ctl.position < discEnd /\ ctl.end = discEnd
  <2>1. /\ ctl.begin \in Int /\ ctl.end \in Int /\ ctl.position \in Int
        /\ ctl.begin <= ctl.position /\ ctl.position < ctl.end
    BY <1>1 DEF EngineInv, PlayerInv, ControllerInv, ControllerStates, InRange
  <2> QED
    BY <2>1 DEF EngineInv, PlayerInv
<1>11. ctl.position <= start + q
  <2>1. ctl.position * Samples <= start * Samples + Played
    BY DEF EngineInv, PositionIsHeard
  <2>0. start + q + 1 \in Int
    BY <1>1, <1>3
  <2>2. start + q + 1 \in Int /\ ctl.position * Samples \in Int /\ (start + q + 1) * Samples \in Int
    BY <1>10, <2>0, Products
  <2>3. ctl.position * Samples < (start + q + 1) * Samples
    BY <1>2, <1>6, <1>8, <2>1, <2>2
  <2>4. ctl.position < start + q + 1
    BY <1>10, <2>2, <2>3, Products
  <2> QED
    BY <1>1, <1>3, <1>10, <2>4
<1>12. ctl.position <= p
  BY <1>1, <1>3, <1>4, <1>10, <1>11 DEF Smaller, p
<1>13. PlaybackPosition(ctl, p).position = p
  BY <1>1, <1>5, <1>10, <1>12, ProgressKeeps DEF EngineInv, PlayerInv
<1> QED
  BY <1>1, <1>2, <1>3, <1>4, <1>5, <1>8, <1>9, <1>13 DEF p, q

\* Progress leaves the range of the controller alone.
LEMMA ProgressOfEngine ==
    ASSUME EngineInv, NEW p \in Int, ctl' = PlaybackPosition(ctl, p), discEnd' = discEnd
    PROVE  PlayerInv' /\ ctl'.playback = ctl.playback
<1>1. /\ ControllerInv(ctl') /\ ctl'.begin = ctl.begin /\ ctl'.end = ctl.end /\ ctl'.playback = ctl.playback
  BY ProgressKeeps DEF EngineInv, PlayerInv
<1> QED
  BY <1>1 DEF EngineInv, PlayerInv

\* The position that was heard is published with its evidence, and the end of
\* the stream is seen when its last sample is written.
LEMMA AccountKeeps == ASSUME EngineInv, Account PROVE EngineInv'
<1>1. /\ at = "account" /\ DropPlayed(Played)
      /\ current' = IF evidence' # <<>> /\ Head(evidence').from <= Played THEN <<Head(evidence')>> ELSE <<>>
      /\ ctl' = PlaybackPosition(ctl, PositionPlayed) /\ draining' = AllWritten
      /\ at' = "loop" /\ writes' = 0
      /\ UNCHANGED <<streamVars, active, primed, quiescent, start, discEnd, readerFailed, owner, block,
                     offset, submitted, prebuffer, recoveries, readBlock, pending>>
  BY DEF Account
<1>2. active = TRUE
  BY <1>1 DEF EngineInv, StageInv, EngineTypes
<1>3. StreamInv' /\ UNCHANGED <<generation, range, phase, queue, next>>
  BY <1>1, StreamKept DEF EngineInv, streamVars
<1>4. PlayerInv' /\ ctl'.playback = ctl.playback /\ ctl'.position = PositionPlayed
  BY <1>1, <1>2, HeardPosition, ProgressOfEngine
<1>5. draining' \in BOOLEAN /\ (draining' => phase = "done" /\ queue = <<>> /\ BlockWritten)
  BY <1>1 DEF AllWritten
<1>6. EngineTypes' /\ StageInv' /\ OwnedInv'
  BY <1>1, <1>2, <1>3, <1>4, <1>5, EngineConstants DEF EngineInv, EngineTypes, StageInv, OwnedInv
<1>7. BlockInv'
  BY <1>1, <1>2, <1>3, <1>5 DEF EngineInv, BlockInv, BlockWritten, BlockSamples
<1>8. Played' = Played
  BY <1>1 DEF Played
<1>9. PositionIsHeard'
  BY <1>1, <1>2, <1>4, <1>8, HeardPosition DEF PositionIsHeard
<1>10. PICK k \in 1..(Len(evidence) + 1) : /\ k <= Len(evidence) => evidence[k].to > Played
                                           /\ evidence' = SubSeq(evidence, k, Len(evidence))
  BY <1>1 DEF DropPlayed
<1>11. evidence \in Seq(Evidences) /\ Len(evidence) \in Nat /\ \A i \in 1..Len(evidence) : evidence[i] \in Evidences
  BY LenProperties DEF EngineInv, EvidenceInv
<1>12. /\ evidence' \in Seq(Evidences)
       /\ Len(evidence') = IF k <= Len(evidence) THEN Len(evidence) - k + 1 ELSE 0
       /\ \A i \in 1..(Len(evidence) - k + 1) : evidence'[i] = evidence[k + i - 1]
  <2>1. k \in Int /\ Len(evidence) \in Int /\ \A i \in k..Len(evidence) : evidence[i] \in Evidences
    BY <1>11
  <2> QED
    BY <1>10, <2>1, SubSeqProperties
<1>13. ASSUME NEW i \in 1..Len(evidence') PROVE Placed(evidence'[i], start', submitted')
  <2>1. i \in 1..(Len(evidence) - k + 1) /\ k + i - 1 \in 1..Len(evidence)
    BY <1>11, <1>12
  <2> QED
    BY <1>1, <1>2, <1>12, <2>1 DEF EngineInv, EvidenceInv
<1>14. ASSUME evidence' # <<>>, Head(evidence').from <= Played
       PROVE  /\ Head(evidence') \in Evidences
              /\ Head(evidence').lba <= ctl'.position
              /\ ctl'.position < Head(evidence').lba + Head(evidence').frames
  <2> DEFINE e == Head(evidence')
             q == Played \div Samples
  <2>1. Len(evidence') # 0 /\ Len(evidence') \in Nat
    BY <1>12, <1>14, EmptySeq, LenProperties
  <2>2. k <= Len(evidence) /\ 1 \in 1..(Len(evidence) - k + 1) /\ 1 \in 1..Len(evidence')
    BY <1>11, <1>12, <2>1
  <2>3. evidence'[1] = evidence[k + 1 - 1] /\ k + 1 - 1 = k
    BY <1>12, <2>2
  <2>4. e = evidence[k] /\ e = evidence'[1]
    BY <1>12, <1>14, <2>3, HeadTailProperties
  <2>5. e \in Evidences /\ Placed(e, start, submitted) /\ e.to > Played /\ e.from <= Played
    <3>1. Placed(evidence'[1], start', submitted') /\ start' = start /\ submitted' = submitted
      BY <1>1, <1>13, <2>2
    <3>2. evidence[k] \in Evidences /\ evidence[k].to > Played
      BY <1>10, <1>11, <2>2
    <3>3. e.from <= Played
      BY <1>14
    <3> HIDE DEF e
    <3> QED
      BY <2>4, <3>1, <3>2, <3>3
  <2> HIDE DEF e
  <2>6. e.from \in Int /\ e.to \in Int /\ e.lba \in Int /\ e.frames \in Int
    BY <2>5, DiscAssumption, StreamConstants DEF Evidences
  <2>7. /\ Played \in Int /\ start \in Int /\ q \in Int /\ discEnd \in Int /\ submitted \in Int
        /\ PositionPlayed = Smaller(discEnd - 1, start + q)
        /\ start * Samples + Played < (start + q + 1) * Samples
        /\ start * Samples + submitted <= discEnd * Samples
    <3>1. submitted \in Int
      BY EngineConstants, DiscAssumption DEF EngineInv, BlockInv
    <3> QED
      BY <1>2, <3>1, HeardPosition
  <2>8. q * Samples <= Played
    BY <1>2, HeardPosition, WholeFrames
  <2> HIDE DEF q
  <2>9. start + q \in Int /\ start + q + 1 \in Int /\ e.lba + e.frames \in Int
    BY SMTT(30), <2>6, <2>7
  <2> DEFINE L == e.lba * Samples
             E == (e.lba + e.frames) * Samples
             S == start * Samples
             Q == (start + q) * Samples
             R == (start + q + 1) * Samples
             D == discEnd * Samples
  <2>10. L \in Int /\ E \in Int /\ S \in Int /\ Q \in Int /\ R \in Int /\ D \in Int
    BY <2>6, <2>7, <2>9, Products
  <2>11. Q <= S + Played
    <3>1. (start + q) * Samples = start * Samples + q * Samples /\ q * Samples \in Int
      BY <2>7, Products
    <3> QED
      BY SMTT(30), <2>7, <2>8, <2>10, <3>1
  <2>12. /\ L <= S + e.from /\ S + e.to <= E /\ e.to <= submitted /\ S + Played < R
         /\ S + submitted <= D
    BY <2>5, <2>7 DEF Placed
  <2>13. L < R /\ Q < E /\ Q < D
    <3>1. Played \in Int /\ submitted \in Int /\ e.from \in Int /\ e.to \in Int
      BY <2>6, <2>7
    <3>2. e.from <= Played /\ Played < e.to
      BY <2>5, <3>1
    <3> HIDE DEF L, E, S, Q, R, D
    <3>3. L < R
      BY <3>1, <3>2, <2>10, <2>12
    <3>4. Q < E
      BY <3>1, <3>2, <2>10, <2>11, <2>12
    <3>5. Q < D
      BY <3>1, <3>2, <2>10, <2>11, <2>12
    <3> QED
      BY <3>3, <3>4, <3>5
  <2>14. e.lba < start + q + 1 /\ start + q < e.lba + e.frames /\ start + q < discEnd
    BY <2>6, <2>7, <2>9, <2>13, Products
  <2>15. PositionPlayed = start + q
    BY <2>7, <2>14 DEF Smaller
  <2> QED
    BY SMTT(30), <1>4, <2>5, <2>6, <2>7, <2>14, <2>15 DEF e
<1>15. current' \in Seq(Evidences) /\ Len(current') <= 1 /\ EvidenceOfPosition'
  <2>1. CASE evidence' # <<>> /\ Head(evidence').from <= Played
    <3> DEFINE e == Head(evidence')
    <3>1. current' = <<e>> /\ e \in Evidences
      BY <1>1, <1>14, <2>1
    <3> HIDE DEF e
    <3>2. <<e>> \in Seq(Evidences) /\ Len(<<e>>) = 1 /\ <<e>>[1] = e
      BY <3>1
    <3> QED
      BY <1>14, <2>1, <3>1, <3>2 DEF e, EvidenceOfPosition
  <2>2. CASE ~(evidence' # <<>> /\ Head(evidence').from <= Played)
    BY <1>1, <2>2, EmptySeq DEF EvidenceOfPosition
  <2> QED
    BY <2>1, <2>2
<1>16. EvidenceInv'
  BY <1>12, <1>13, <1>15 DEF EvidenceInv
<1>17. QuietInv'
  BY <1>1, <1>2 DEF EngineInv, QuietInv
<1> QED
  BY <1>3, <1>4, <1>6, <1>7, <1>9, <1>16, <1>17 DEF EngineInv

\* Steps that leave the stream, the sound and the controller alone.
LEMMA QuietStepKeeps ==
    ASSUME EngineInv, EngineTypes', StageInv',
           UNCHANGED <<streamVars, ctl, active, draining, quiescent, start, discEnd, owner, block, offset,
                       submitted, evidence, current, pending>>
    PROVE  EngineInv'
<1>1. StreamInv' /\ UNCHANGED <<generation, range, phase, queue, next>>
  BY StreamKept DEF EngineInv, streamVars
<1>2. PlayerInv' /\ OwnedInv' /\ QuietInv'
  BY <1>1 DEF EngineInv, PlayerInv, OwnedInv, QuietInv
<1>3. BlockInv'
  BY <1>1 DEF EngineInv, BlockInv, BlockWritten, BlockSamples
<1>4. PositionIsHeard' /\ EvidenceInv'
  BY DEF EngineInv, PositionIsHeard, EvidenceInv, EvidenceOfPosition, Played
<1> QED
  BY <1>1, <1>2, <1>3, <1>4 DEF EngineInv

\* A tick begins to write, a failure is handed on, another block size is set.
LEMMA QuietSteps ==
    ASSUME EngineInv, TickBegins \/ TakeReaderFailure \/ \E b \in ReadBlocks : ApplyReadPolicy(b)
    PROVE  EngineInv'
<1>1. CASE TickBegins
  <2>1. /\ at = "loop" /\ active /\ ~draining /\ primed' = TRUE /\ at' = "write" /\ writes' = 0
        /\ UNCHANGED <<streamVars, ctl, active, draining, quiescent, start, discEnd, readerFailed, owner,
                       block, offset, submitted, evidence, current, prebuffer, recoveries, readBlock, pending>>
    BY <1>1 DEF TickBegins, Ticking
  <2>2. EngineTypes' /\ StageInv'
    BY <2>1, EngineConstants DEF EngineInv, EngineTypes, StageInv
  <2> QED
    BY <2>1, <2>2, QuietStepKeeps
<1>2. CASE TakeReaderFailure
  <2>1. /\ readerFailed' = FALSE
        /\ UNCHANGED <<streamVars, ctl, at, writes, active, primed, draining, quiescent, start, discEnd,
                       owner, block, offset, submitted, evidence, current, prebuffer, recoveries, readBlock, pending>>
    BY <1>2 DEF TakeReaderFailure
  <2>2. EngineTypes' /\ StageInv'
    BY <2>1 DEF EngineInv, EngineTypes, StageInv
  <2> QED
    BY <2>1, <2>2, QuietStepKeeps
<1>3. ASSUME NEW b \in ReadBlocks, ApplyReadPolicy(b) PROVE EngineInv'
  <2>1. /\ readBlock' = b /\ prebuffer' = PrebufferTarget(b)
        /\ UNCHANGED <<streamVars, ctl, at, writes, active, primed, draining, quiescent, start, discEnd,
                       readerFailed, owner, block, offset, submitted, evidence, current, recoveries, pending>>
    BY <1>3 DEF ApplyReadPolicy
  <2>2. PrebufferTarget(b) \in Nat
    BY EngineConstants DEF PrebufferTarget, StartupBlocks, Smaller
  <2>3. EngineTypes' /\ StageInv'
    BY <2>1, <2>2 DEF EngineInv, EngineTypes, StageInv
  <2> QED
    BY <2>1, <2>3, QuietStepKeeps
<1> QED
  BY <1>1, <1>2, <1>3

\* Every error path of a tick.
LEMMA ErrorsKeep ==
    ASSUME EngineInv, TickSeesError \/ TickSeesStall \/ OutputFails \/ FinishFails \/ UnderrunStops
    PROVE  EngineInv'
<1>1. active
  BY DEF TickSeesError, TickSeesStall, OutputFails, FinishFails, UnderrunStops, Underrun, OutputCalled, Ticking,
         EngineInv, StageInv
<1>2. recoveries' \in 0..MaxRecoveries
  <2>1. recoveries' = recoveries \/ recoveries' = 0
    BY DEF TickSeesError, TickSeesStall, OutputFails, FinishFails, UnderrunStops
  <2>2. recoveries \in 0..MaxRecoveries /\ 0 \in 0..MaxRecoveries
    BY EngineConstants DEF EngineInv, EngineTypes
  <2> QED
    BY <2>1, <2>2
<1>3. StopOnError(TRUE) \/ StopOnError(FALSE)
  BY DEF TickSeesError, TickSeesStall, OutputFails, FinishFails, UnderrunStops
<1> QED
  BY <1>1, <1>2, <1>3, StopOnErrorKeeps

\* The last sample is heard: finished() and synchronize().
LEMMA FinishKeeps == ASSUME EngineInv, TickFinishes PROVE EngineInv'
<1>1. /\ at = "loop" /\ ctl' = Stop(ctl) /\ UNCHANGED <<discEnd, at, writes, readerFailed, prebuffer, readBlock>>
      /\ Synchronize(ctl')
  BY DEF TickFinishes, Ticking
<1>2. PlayerInv'
  BY <1>1, StopKeeps DEF EngineInv, PlayerInv
<1>3. at' = "loop" /\ prebuffer' \in Nat /\ readBlock' \in ReadBlocks
  BY <1>1 DEF EngineInv, EngineTypes
<1> QED
  BY <1>1, <1>2, <1>3, SynchronizeKeeps

\* What an underrun resumes with: the frame that was cut, a stream that is
\* still owned, and one recovery more.
LEMMA Recovers ==
    ASSUME EngineInv, UnderrunRecovers
    PROVE  /\ EngineInv'
           /\ start' \in Int /\ start \in Int /\ submitted \in Nat
           /\ start' = start + submitted \div Samples
<1>1. /\ OutputCalled /\ pending = 0 /\ submitted > 0 /\ ~draining
      /\ submitted < (discEnd - start) * Samples /\ recoveries < MaxRecoveries
      /\ ctl' = PlaybackPosition(ctl, ResumeAt) /\ pending' = 0 /\ ForgetStream
      /\ BeginStream(ctl'.position, discEnd) /\ prebuffer' = PrebufferRaised /\ recoveries' = recoveries + 1
      /\ at' = "loop" /\ writes' = 0 /\ UNCHANGED <<quiescent, discEnd, readerFailed, readBlock>>
  BY DEF UnderrunRecovers, Underrun, Recoverable
<1>2. active /\ quiescent = FALSE
  BY <1>1 DEF OutputCalled, Ticking, EngineInv, StageInv, EngineTypes, QuietInv
<1>3. ctl.playback = "playing" /\ start < discEnd /\ start \in Int /\ discEnd \in Int /\ submitted \in Nat
  <2>1. LeadOut \in Int /\ LeadOut * Samples \in Int
    BY EngineConstants, DiscAssumption
  <2> QED
    BY <1>2, <2>1 DEF EngineInv, OwnedInv, EngineTypes, PlayerInv, BlockInv
<1>4. Played = submitted
  BY <1>1, <1>3 DEF Played
<1>5. ResumeAt = PositionPlayed
  BY <1>4 DEF ResumeAt, PositionPlayed
<1>6. PositionPlayed \in Int /\ PositionPlayed = Smaller(discEnd - 1, start + submitted \div Samples)
      /\ PlaybackPosition(ctl, PositionPlayed).position = PositionPlayed /\ submitted \div Samples \in Int
  BY <1>2, <1>4, HeardPosition
<1>7. PlayerInv' /\ ctl'.playback = "playing" /\ ctl'.position = PositionPlayed
  BY <1>1, <1>3, <1>5, <1>6, ProgressOfEngine
<1>8. prebuffer' \in Nat /\ recoveries' \in 0..MaxRecoveries
  <2>1. /\ prebuffer \in Nat /\ recoveries \in 0..MaxRecoveries /\ readBlock \in Nat \ {0}
        /\ Capacity \in Nat /\ PrebufferStep \in Nat /\ MaxRecoveries \in Nat
    BY EngineConstants DEF EngineInv, EngineTypes
  <2>2. Capacity \div readBlock \in Nat
    BY <2>1
  <2> QED
    BY <1>1, <2>1, <2>2 DEF PrebufferRaised, CapacityBlocks, Smaller
<1>9. writes' \in 0..MaxWrites /\ primed' \in BOOLEAN
  <2>1. 0 \in 0..MaxWrites /\ primed' = FALSE
    BY <1>1, EngineConstants DEF ForgetStream
  <2> QED
    BY <1>1, <2>1
<1>10. EngineInv'
  <2>1. readBlock' \in ReadBlocks /\ quiescent' = FALSE
    BY <1>1, <1>2 DEF EngineInv, EngineTypes
  <2> QED
    BY <1>1, <1>7, <1>8, <1>9, <2>1, BeginKeeps
<1>11. submitted \div Samples < discEnd - start
  <2> DEFINE q == submitted \div Samples
             d == discEnd - start
  <2>1. q * Samples <= submitted /\ q \in Int /\ d \in Int
    BY <1>3, <1>6, WholeFrames
  <2>2. submitted < d * Samples
    BY <1>1
  <2> HIDE DEF q, d
  <2>3. q * Samples \in Int /\ d * Samples \in Int
    BY <2>1, Products
  <2>4. q * Samples < d * Samples
    BY <1>3, <2>1, <2>2, <2>3
  <2>5. q < d
    BY <2>1, <2>4, Products
  <2> QED
    BY <2>5 DEF q, d
<1>12. start' = start + submitted \div Samples /\ start' \in Int
  <2>1. start' = PositionPlayed
    BY <1>1, <1>7 DEF BeginStream
  <2> QED
    BY <1>3, <1>6, <1>11, <2>1 DEF Smaller
<1> QED
  BY <1>3, <1>10, <1>12

-----------------------------------------------------------------------------
(* The reader, the sound card and the session.                             *)

\* The reader goes on with the stream the engine plays.
LEMMA ReaderKeeps ==
    ASSUME EngineInv, Reader \/ ReaderFails
    PROVE  EngineInv'
<1>1. /\ StreamInv' /\ UNCHANGED <<generation, range, next>> /\ phase = "active"
      /\ phase' \in {"active", "done", "failed"} /\ UNCHANGED <<ctl, engineVars, pending>>
  <2>1. CASE Frontier < range.end /\ ReaderProduces
    <3> DEFINE n == Smaller(readBlock, range.end - Frontier)
    <3>1. /\ readBlock \in 1..MaxBlock /\ range.end \in Int /\ Frontier \in Int /\ MaxBlock \in Int
      BY EngineConstants, StreamConstants, FrontierType, DiscAssumption
         DEF EngineInv, EngineTypes, StreamInv, StreamTypes
    <3>2. n \in 1..MaxBlock
      BY <2>1, <3>1 DEF Smaller
    <3>3. ProduceBlock(n) /\ UNCHANGED <<ctl, engineVars, pending>>
      BY <2>1 DEF ReaderProduces
    <3> HIDE DEF n
    <3>4. StreamInv'
      BY <3>2, <3>3, ProduceKeeps DEF EngineInv
    <3> QED
      BY <3>3, <3>4 DEF ProduceBlock
  <2>2. CASE ReaderCompletes
    BY <2>2, EndKeeps DEF ReaderCompletes, CompleteStream, EngineInv
  <2>3. CASE ReaderFails
    BY <2>3, EndKeeps DEF ReaderFails, FailStream, EngineInv
  <2> QED
    BY <2>1, <2>2, <2>3 DEF Reader
<1>2. active /\ ~draining
  BY <1>1 DEF EngineInv, OwnedInv, BlockInv
<1>3. PlayerInv' /\ EngineTypes' /\ StageInv' /\ OwnedInv' /\ QuietInv'
  BY <1>1, <1>2 DEF EngineInv, PlayerInv, EngineTypes, StageInv, OwnedInv, QuietInv, engineVars
<1>4. BlockInv'
  BY <1>1, <1>2 DEF EngineInv, BlockInv, BlockSamples, engineVars
<1>5. PositionIsHeard' /\ EvidenceInv'
  BY <1>1 DEF EngineInv, PositionIsHeard, EvidenceInv, EvidenceOfPosition, Played, engineVars
<1> QED
  BY <1>1, <1>3, <1>4, <1>5 DEF EngineInv

\* The sound card plays a sample: more was heard.
LEMMA AlsaKeeps == ASSUME EngineInv, AlsaPlays PROVE EngineInv'
<1>1. pending > 0 /\ pending' = pending - 1 /\ UNCHANGED <<streamVars, ctl, engineVars>>
  BY DEF AlsaPlays
<1>2. StreamInv' /\ UNCHANGED <<generation, range, phase, queue, next>>
  BY <1>1, StreamKept DEF EngineInv, streamVars
<1>3. /\ pending \in 0..AlsaBuffer /\ AlsaBuffer \in Nat /\ submitted \in 0..(LeadOut * Samples)
      /\ LeadOut * Samples \in Int
  BY EngineConstants, DiscAssumption DEF EngineInv, BlockInv
<1>4. PlayerInv' /\ EngineTypes' /\ StageInv' /\ OwnedInv'
  BY <1>1, <1>2 DEF EngineInv, PlayerInv, EngineTypes, StageInv, OwnedInv, engineVars
<1>5. BlockInv'
  BY <1>1, <1>2, <1>3 DEF EngineInv, BlockInv, BlockSamples, BlockWritten, engineVars
<1>6. PositionIsHeard'
  <2> SUFFICES ASSUME active
               PROVE  start <= ctl.position /\ ctl.position * Samples <= start * Samples + Played'
    BY <1>1 DEF PositionIsHeard, engineVars
  <2>1. start <= ctl.position /\ ctl.position * Samples <= start * Samples + Played
    BY DEF EngineInv, PositionIsHeard
  <2>2. Played' = Played + 1 /\ Played \in Int
    BY <1>1, <1>3 DEF Played, engineVars
  <2>3. ctl.position \in Int /\ start \in Int
    BY DiscAssumption DEF EngineInv, PlayerInv, ControllerInv, ControllerStates, EngineTypes
  <2>4. ctl.position * Samples \in Int /\ start * Samples \in Int
    BY <2>3, Products
  <2> QED
    BY <2>1, <2>2, <2>4
<1>7. EvidenceInv'
  BY <1>1 DEF EngineInv, EvidenceInv, EvidenceOfPosition, engineVars
<1>8. QuietInv'
  BY <1>1, <1>3 DEF EngineInv, QuietInv, engineVars
<1> QED
  BY <1>2, <1>4, <1>5, <1>6, <1>7, <1>8 DEF EngineInv

\* The operations of the controller leave its range alone.
LEMMA OperationsKeepRange ==
    ASSUME NEW c, ControllerInv(c)
    PROVE  /\ \A d \in {Play(c), Pause(c), Stop(c), SkipNext(c), SkipPrevious(c)} : d.begin = c.begin /\ d.end = c.end
           /\ \A i \in Tracks : SelectTrack(c, i).begin = c.begin /\ SelectTrack(c, i).end = c.end
<1>0. c \in ControllerStates
  BY DEF ControllerInv
<1>1. \A i : Select(c, i).begin = c.begin /\ Select(c, i).end = c.end
  BY <1>0 DEF Select, ControllerStates
<1>2. Play(c).begin = c.begin /\ Play(c).end = c.end /\ Pause(c).begin = c.begin /\ Pause(c).end = c.end
  BY <1>0 DEF Play, Pause, ControllerStates
<1> QED
  BY <1>1, <1>2, StopKeeps DEF SkipNext, SkipPrevious, PreviousTrack, SelectTrack

\* A command, a disc that goes in, one that comes out, and a device that goes.
LEMMA SessionKeeps ==
    ASSUME EngineInv, Commands \/ (\E b, e \in 0..LeadOut : Insert(b, e)) \/ Remove \/ InvalidateDevice
    PROVE  EngineInv'
<1>0. ControllerInv(ctl)
  BY DEF EngineInv, PlayerInv
<1>1. CASE Command(Play(ctl)) \/ Command(Pause(ctl)) \/ Command(Stop(ctl)) \/ Command(SkipNext(ctl))
           \/ Command(SkipPrevious(ctl))
  BY <1>0, <1>1, OperationsKeepRange, PlayKeeps, PauseKeeps, StopKeeps, SkipNextKeeps, SkipPreviousKeeps, CommandKeeps
<1>2. ASSUME NEW i \in Tracks, Command(SelectTrack(ctl, i)) PROVE EngineInv'
  BY <1>0, <1>2, OperationsKeepRange, SelectTrackKeeps, CommandKeeps
<1>3. ASSUME NEW f \in SeekSteps, Command(SeekRelative(ctl, f)) PROVE EngineInv'
  <2>1. f \in Int
    BY TocAssumption
  <2> QED
    BY <1>0, <1>3, <2>1, SeekKeeps, CommandKeeps
<1>4. ASSUME NEW b \in 0..LeadOut, NEW e \in 0..LeadOut, Insert(b, e) PROVE EngineInv'
  <2> DEFINE disc == SetPlaybackRange(LoadDisc(ctl), b, e)
  <2>1. /\ at = "loop" /\ Starts[1] <= b /\ b <= e /\ discEnd' = (IF b < e THEN e ELSE LeadOut)
        /\ UNCHANGED <<writes, readerFailed, prebuffer, readBlock>>
        /\ SynchronizeUncaught(disc) \/ SynchronizeUncaught(Play(disc))
    <3>1. b \in Int /\ e \in Int
      BY DiscAssumption
    <3> QED
      BY <1>4, <3>1 DEF Insert, UserMayAct
  <2>2. ControllerInv(disc) /\ disc.begin = b /\ disc.end = e
    BY <1>0, <2>1, LoadKeeps
  <2> HIDE DEF disc
  <2>3. ControllerInv(Play(disc)) /\ Play(disc).begin = b /\ Play(disc).end = e
    BY <2>2, PlayKeeps, OperationsKeepRange
  <2>4. /\ discEnd' \in 0..LeadOut /\ (b < e => discEnd' = e)
        /\ prebuffer' \in Nat /\ readBlock' \in ReadBlocks
    BY <2>1, DiscAssumption DEF EngineInv, EngineTypes
  <2> QED
    BY <2>1, <2>2, <2>3, <2>4, SynchronizedKeeps
<1>5. ControllerInv(NoDisc) /\ NoDisc.begin = 0 /\ NoDisc.end = 0
  BY NoDiscInv DEF NoDisc
<1>6. CASE Remove
  <2>1. /\ at = "loop" /\ discEnd' \in {0, discEnd} /\ SynchronizeUncaught(NoDisc)
        /\ UNCHANGED <<writes, readerFailed, prebuffer, readBlock>>
    BY <1>6 DEF Remove, UserMayAct
  <2>2. discEnd' \in 0..LeadOut /\ prebuffer' \in Nat /\ readBlock' \in ReadBlocks
    BY <2>1, DiscAssumption DEF EngineInv, PlayerInv, EngineTypes
  <2> QED
    BY <1>5, <2>1, <2>2, SynchronizedKeeps
<1>7. CASE InvalidateDevice
  <2>1. /\ at = "loop" /\ discEnd' = 0 /\ SynchronizeCaught(NoDisc) /\ UNCHANGED <<writes, readerFailed>>
        /\ readBlock' \in ReadBlocks /\ prebuffer' = PrebufferTarget(readBlock')
    BY <1>7 DEF InvalidateDevice, UserMayAct
  <2>2. discEnd' \in 0..LeadOut
    BY <2>1, DiscAssumption
  <2>3. prebuffer' \in Nat
    <3> DEFINE b == readBlock'
    <3>1. b \in Nat \ {0} /\ prebuffer' = StartupBlocks(b)
      BY <2>1, EngineConstants DEF PrebufferTarget
    <3> HIDE DEF b
    <3>2. Capacity \div b \in Nat /\ (Startup + b - 1) \div b \in Nat
      BY <3>1, EngineConstants
    <3> QED
      BY <3>1, <3>2 DEF StartupBlocks, Smaller
  <2> QED
    BY <1>5, <2>1, <2>2, <2>3, SynchronizedKeeps
<1> QED
  BY <1>1, <1>2, <1>3, <1>4, <1>6, <1>7 DEF Commands

\* Every step keeps the invariant.
LEMMA EngineStep == EngineInv /\ [Next]_vars => EngineInv'
<1> SUFFICES ASSUME EngineInv, [Next]_vars PROVE EngineInv'
  OBVIOUS
<1>1. \A n \in 0..(Capacity * Samples) : n \in Nat
  BY EngineConstants
<1>2. ASSUME Tick PROVE EngineInv'
  BY <1>1, <1>2, ErrorsKeep, QuietSteps, WriteRestKeeps, WriteNextKeeps, QueueEmptyKeeps, AccountKeeps,
     FinishKeeps, Recovers DEF Tick
<1>3. CASE UNCHANGED vars
  <2>1. EngineTypes' /\ StageInv'
    BY <1>3 DEF vars, engineVars, EngineInv, EngineTypes, StageInv
  <2> QED
    BY <1>3, <2>1, QuietStepKeeps DEF vars, engineVars
<1> QED
  BY <1>2, <1>3, ErrorsKeep, QuietSteps, ReaderKeeps, AlsaKeeps, SessionKeeps DEF Next

\* EngineInv is an invariant of the engine.
LEMMA EngineInvariant == Spec => []EngineInv
BY EngineInit, EngineStep, PTL DEF Spec

-----------------------------------------------------------------------------
(* The theorems.                                                           *)

\* The controller driven by the engine, by commands and by discs that come
\* and go publishes a position inside the track it shows, which can be
\* played, and seeks to the nearest playable frame.
THEOREM PositionIsPlayableAlways == Spec => []PositionIsPlayable
<1>1. EngineInv => PositionIsPlayable
  BY EngineInvImplies
<1> QED
  BY <1>1, EngineInvariant, PTL

\* The sample count and the PCM stay aligned, a stream is drained only when
\* every sample up to its end was written, and the published position and its
\* evidence are those of a sample that was heard.
THEOREM SamplesAreAccountedAlways == Spec => []SamplesAreAccounted
<1>1. EngineInv => SamplesAreAccounted
  BY EngineInvImplies
<1> QED
  BY <1>1, EngineInvariant, PTL

\* There is a stream only while the engine plays it, and a quiescent engine
\* leaves neither sound, nor a block, nor a stream behind: after every command,
\* end, error and device that went, whether the output could be reset or not.
THEOREM StreamIsOwnedAlways == Spec => []StreamIsOwned
<1>1. EngineInv => StreamIsOwned
  BY EngineInvImplies
<1> QED
  BY <1>1, EngineInvariant, PTL

\* Only a recovery counts as one.
LEMMA OnlyRecoveriesCount ==
    ASSUME EngineInv, [Next]_vars, recoveries' = recoveries + 1
    PROVE  UnderrunRecovers
<1>1. recoveries \in Nat
  BY EngineConstants DEF EngineInv, EngineTypes
<1>2. recoveries' # recoveries /\ recoveries' # 0
  BY <1>1
<1>3. ~(Commands \/ (\E b, e \in 0..LeadOut : Insert(b, e)) \/ Remove \/ InvalidateDevice)
  <2>1. \A c : ~SynchronizeCaught(c) /\ ~SynchronizeUncaught(c)
    BY <1>2 DEF SynchronizeCaught, SynchronizeUncaught, SessionEnds, Synchronize, SynchronizeFails
  <2> QED
    BY <2>1 DEF Commands, Command, Insert, Remove, InvalidateDevice
<1>4. ~(TickSeesError \/ TickSeesStall \/ OutputFails \/ FinishFails \/ UnderrunStops \/ TickFinishes)
  BY <1>2 DEF TickSeesError, TickSeesStall, OutputFails, FinishFails, UnderrunStops, TickFinishes, Synchronize
<1>5. ~(TickBegins \/ TakeReaderFailure \/ \E b \in ReadBlocks : ApplyReadPolicy(b))
  BY <1>2 DEF TickBegins, TakeReaderFailure, ApplyReadPolicy
<1>6. ~(\E n \in 0..(Capacity * Samples) : WriteRest(n) \/ WriteNext(n)) /\ ~QueueEmpty /\ ~Account
  BY <1>2 DEF WriteRest, WriteNext, Write, QueueEmpty, Account
<1>7. ~(Reader \/ ReaderFails \/ AlsaPlays \/ UNCHANGED vars)
  BY <1>2 DEF Reader, ReaderProduces, ReaderCompletes, ReaderFails, AlsaPlays, engineVars, vars
<1> QED
  BY <1>3, <1>4, <1>5, <1>6, <1>7 DEF Next, Tick

\* Recovering from an underrun skips no sample, and repeats less than one CD
\* frame.
THEOREM RecoveryIsSeamlessAlways == Spec => RecoveryIsSeamless
<1>1. ASSUME EngineInv, [Next]_vars, recoveries' = recoveries + 1
      PROVE  /\ start' * Samples <= start * Samples + submitted
             /\ start * Samples + submitted < (start' + 1) * Samples
  <2> DEFINE q == submitted \div Samples
  <2>1. start' = start + q /\ start \in Int /\ submitted \in Nat
    BY <1>1, OnlyRecoveriesCount, Recovers
  <2>2. q \in Nat /\ q * Samples <= submitted /\ submitted < (q + 1) * Samples
    BY <2>1, WholeFrames
  <2> HIDE DEF q
  <2>3. /\ (start + q) * Samples = start * Samples + q * Samples
        /\ start * Samples \in Int /\ q * Samples \in Int
    <3>1. q \in Int
      BY <2>2
    <3> QED
      BY <2>1, <3>1, Products
  <2>4. /\ (start + (q + 1)) * Samples = start * Samples + (q + 1) * Samples /\ q + 1 \in Int
        /\ (q + 1) * Samples \in Int
    <3>1. q + 1 \in Int
      BY <2>2
    <3> QED
      BY <2>1, <3>1, Products
  <2>5. start' + 1 = start + (q + 1)
    BY <2>1, <2>2
  <2> QED
    BY <2>1, <2>2, <2>3, <2>4, <2>5
<1>2. EngineInv /\ [Next]_vars =>
        [recoveries' = recoveries + 1 =>
           /\ start' * Samples <= start * Samples + submitted
           /\ start * Samples + submitted < (start' + 1) * Samples]_vars
  BY <1>1
<1> QED
  BY <1>2, EngineInvariant, PTL DEF Spec, RecoveryIsSeamless
=============================================================================
