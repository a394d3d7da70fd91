-------------------------- MODULE PcmWorkerProofs --------------------------
(***************************************************************************)
(* Theorems about PcmWorker for every disc, buffer and bound.              *)
(***************************************************************************)
EXTENDS PcmWorker, SequenceTheorems, TLAPS

-----------------------------------------------------------------------------
(* Type correctness.                                                       *)

\* The labels at which the locals of a stream are in scope.
StreamLabels == {"begin", "request", "call", "retired", "open", "opened", "positioned", "seek",
                 "loop", "read", "push", "finish"}

(***************************************************************************)
(* TypeOK is inductive once the locals of run() are known to be in scope:  *)
(* a stream's position stays within its end, and a read is only asked for  *)
(* before it; so no queued block lies beyond the lead-out.                 *)
(***************************************************************************)
ScopeInv ==
    /\ pc \in StreamLabels => loc.block \in ReadBlocks /\ loc.pos <= loc.end
    /\ pc \in {"request", "call"} /\ op = "read" => loc.pos < loc.end
    /\ pc \in {"read", "push"} => loc.pos < loc.end
    /\ pc \in {"request", "call"} => op # "none"
    /\ pc = "read" => result \in Statuses \cup {"bad"}
    /\ pc \in {"close", "closing"} => after # "top"

QueueInside ==
    /\ ~closing => generation <= MaxGeneration
    /\ \A i \in 1..Len(queue) : BlockEnd(queue[i]) <= LeadOut

RangeOrdered == begin <= end

StreamInv == StreamTypes /\ QueueInside /\ RangeOrdered
ThreadInv == ThreadTypes /\ ScopeInv

TypeInv == StreamInv /\ DeviceTypes /\ DiscTypes /\ DiagTypes /\ ThreadInv

\* The value that stands for no locals is one of theirs.
LEMMA NoLocalsType == NoLocals \in Locals
BY WorkerConstants DEF NoLocals, Locals

\* The queue of a stream that was just started, retired or failed.
LEMMA EmptyQueue ==
    ASSUME NEW q, q = <<>>
    PROVE  q \in Seq(Blocks) /\ \A i \in 1..Len(q) : BlockEnd(q[i]) <= LeadOut
<1>1. q \in Seq(Blocks) /\ Len(q) = 0
  BY EmptySeq
<1>2. 1..Len(q) = {}
  BY <1>1
<1> QED
  BY <1>1, <1>2

\* capacity_blocks_ is at most the capacity in frames.
LEMMA CapacityBlocksType == \A block \in ReadBlocks : CapacityBlocks(block) \in 0..Capacity
BY WorkerConstants DEF CapacityBlocks

\* A read that is asked for lies within its stream and the disc.
LEMMA ReadFramesType ==
    ASSUME TypeInv, pc \in StreamLabels, loc.pos < loc.end
    PROVE  /\ ReadFrames \in 1..Capacity
           /\ loc.pos + ReadFrames <= loc.end
           /\ loc.pos \in 0..LeadOut /\ loc.end \in 0..LeadOut
           /\ FramesOf(loc.pos, ReadFrames) \subseteq 0..LeadOut
<1>1. /\ loc.block \in ReadBlocks /\ loc.pos \in 0..LeadOut /\ loc.end \in 0..LeadOut
      /\ loc.block \in 1..Capacity /\ LeadOut \in Nat /\ Capacity \in Nat
  BY WorkerConstants DEF TypeInv, ThreadInv, ThreadTypes, ScopeInv, Locals
<1>2. ReadFrames \in 1..Capacity /\ loc.pos + ReadFrames <= loc.end
  BY <1>1 DEF ReadFrames, MinOf
<1> QED
  BY <1>1, <1>2 DEF FramesOf

\* A bounded sequence keeps its element type.
LEMMA BoundedType ==
    ASSUME NEW S, NEW s \in Seq(S), NEW x \in S, NEW capacity \in Nat \ {0}
    PROVE  Bounded(s, x, capacity) \in Seq(S)
<1>1. CASE Len(s) = capacity
  <2>1. s # <<>>
    BY <1>1, EmptySeq
  <2> QED
    BY <2>1, <1>1, HeadTailProperties, AppendProperties DEF Bounded
<1>2. CASE Len(s) # capacity
  BY <1>2, AppendProperties DEF Bounded
<1> QED
  BY <1>1, <1>2

Maps == [complete : BOOLEAN, revision : Nat, frames : SUBSET (0..LeadOut)]

\* The two ways a disc map is written.
LEMMA MapUpdates ==
    ASSUME NEW m \in Maps, NEW r \in Nat, NEW f \in SUBSET (0..LeadOut)
    PROVE  /\ [m EXCEPT !.revision = r, !.frames = f] \in Maps
           /\ [m EXCEPT !.revision = r, !.complete = FALSE] \in Maps
           /\ [m EXCEPT !.complete = FALSE, !.revision = r] \in Maps
BY DEF Maps

\* DiscReadMap::observe yields a disc map.
LEMMA MapObservationsType ==
    ASSUME NEW m \in Maps, NEW disc, NEW lba, NEW n, FramesOf(lba, n) \subseteq 0..LeadOut
    PROVE  MapObservations(m, disc, lba, n) \subseteq Maps
<1>1. m.complete \in BOOLEAN /\ m.revision \in Nat /\ m.frames \in SUBSET (0..LeadOut)
  BY DEF Maps
<1> DEFINE known == [m EXCEPT !.revision = @ + 1, !.frames = @ \cup FramesOf(lba, n)]
           full == [m EXCEPT !.revision = @ + 1, !.complete = FALSE]
<1>2. m.revision + 1 \in Nat /\ m.frames \cup FramesOf(lba, n) \in SUBSET (0..LeadOut)
  BY <1>1
<1>3. known \in Maps /\ full \in Maps
  BY <1>2, MapUpdates
<1> HIDE DEF known, full
<1>4. MapObservations(m, disc, lba, n) \subseteq {m, known, full}
  BY DEF MapObservations, known, full
<1> QED
  BY <1>3, <1>4

\* A read that is accounted for leaves diagnostics of their type.
LEMMA ObservedType ==
    ASSUME NEW d \in Diagnostics, NEW gen \in 0..MaxGeneration, NEW lba \in 0..LeadOut, NEW frames,
           FramesOf(lba, frames) \subseteq 0..LeadOut, NEW res \in Statuses \cup {"bad"}
    PROVE  Observed(d, gen, lba, frames, res) \in Diagnostics
<1> DEFINE entry == [generation |-> gen, seq |-> d.calls + 1, lba |-> lba, status |-> StatusOf(res)]
<1>1. /\ d.calls \in Nat /\ d.failed \in Nat /\ d.evicted \in Nat /\ d.dropped \in Nat
      /\ d.warning \in Nat /\ d.history \in Seq(Evidence) /\ d.events \in Seq(Evidence)
      /\ d.coverage \in SUBSET (0..LeadOut)
  BY DEF Diagnostics
<1>2. StatusOf(res) \in Statuses /\ d.calls + 1 \in Nat \ {0} /\ gen \in 0..(MaxGeneration + 1)
  <2>1. StatusOf(res) \in Statuses
    BY Zenon DEF StatusOf, Statuses
  <2>2. d.calls + 1 \in Nat \ {0}
    BY <1>1
  <2>3. gen \in 0..(MaxGeneration + 1)
    BY WorkerConstants
  <2> QED
    BY <2>1, <2>2, <2>3
<1>3. entry \in Evidence
  BY <1>2 DEF Evidence
<1>4. /\ Bounded(d.history, entry, HistoryCapacity) \in Seq(Evidence)
      /\ Bounded(d.events, entry, EventCapacity) \in Seq(Evidence)
  BY <1>1, <1>3, BoundedType, WorkerConstants
<1>5. /\ d.failed + (IF res = "bad" THEN 1 ELSE 0) \in Nat
      /\ d.evicted + (IF Len(d.history) = HistoryCapacity THEN 1 ELSE 0) \in Nat
      /\ d.dropped + (IF Len(d.events) = EventCapacity THEN 1 ELSE 0) \in Nat
  BY SMTT(30), <1>1
<1>6. (IF entry.status = "uncertain" THEN entry.seq ELSE d.warning) \in Nat
  BY <1>1, <1>2
<1>7. (IF res = "bad" THEN d.coverage ELSE d.coverage \cup FramesOf(lba, frames)) \in SUBSET (0..LeadOut)
  BY <1>1
<1> QED
  BY <1>2, <1>4, <1>5, <1>6, <1>7 DEF Observed, Diagnostics

\* The type invariant holds for a worker that was just made.
LEMMA TypeInit == Init => TypeInv
<1> SUFFICES ASSUME Init PROVE TypeInv
  OBVIOUS
<1> USE WorkerConstants DEF Init
<1>1. StreamInv
  <2>1. queue \in Seq(Blocks) /\ \A i \in 1..Len(queue) : BlockEnd(queue[i]) <= LeadOut
    BY EmptyQueue
  <2>2. /\ generation \in 0..(MaxGeneration + 1) /\ generation <= MaxGeneration
        /\ begin <= end /\ begin \in 0..LeadOut /\ end \in 0..LeadOut /\ next \in 0..LeadOut
        /\ active \in BOOLEAN /\ done \in BOOLEAN /\ error \in BOOLEAN
    <3>1. /\ generation \in 0..(MaxGeneration + 1) /\ generation <= MaxGeneration
          /\ begin <= end /\ begin \in 0..LeadOut /\ end \in 0..LeadOut /\ next \in 0..LeadOut
      OBVIOUS
    <3>2. active \in BOOLEAN /\ done \in BOOLEAN /\ error \in BOOLEAN
      OBVIOUS
    <3> QED
      BY <3>1, <3>2
  <2> QED
    BY <2>1, <2>2 DEF StreamInv, StreamTypes, QueueInside, RangeOrdered
<1>2. DeviceTypes
  BY DEF DeviceTypes
<1>3. DiscTypes
  BY DEF DiscTypes, EmptyMap
<1>4. DiagTypes
  BY DEF DiagTypes, EmptyDiag, Diagnostics
<1>5. ThreadInv
  BY NoLocalsType DEF ThreadInv, ThreadTypes, ScopeInv, StreamLabels, Labels
<1> QED
  BY <1>1, <1>2, <1>3, <1>4, <1>5 DEF TypeInv

\* A part of the state that a step leaves alone keeps its type.
LEMMA Untouched ==
    TypeInv =>
      /\ UNCHANGED <<streamState, closing>> => StreamInv'
      /\ UNCHANGED <<deviceState, configState, drive, seenReleased>> => DeviceTypes'
      /\ UNCHANGED discState => DiscTypes'
      /\ UNCHANGED diagState => DiagTypes'
      /\ UNCHANGED threadState => ThreadInv'
<1> SUFFICES ASSUME TypeInv PROVE
      /\ UNCHANGED <<streamState, closing>> => StreamInv'
      /\ UNCHANGED <<deviceState, configState, drive, seenReleased>> => DeviceTypes'
      /\ UNCHANGED discState => DiscTypes'
      /\ UNCHANGED diagState => DiagTypes'
      /\ UNCHANGED threadState => ThreadInv'
  OBVIOUS
<1>1. UNCHANGED <<streamState, closing>> => StreamInv'
  BY DEF TypeInv, StreamInv, StreamTypes, QueueInside, RangeOrdered, streamState
<1>2. UNCHANGED <<deviceState, configState, drive, seenReleased>> => DeviceTypes'
  BY DEF TypeInv, DeviceTypes, deviceState, configState
<1>3. UNCHANGED discState => DiscTypes'
  BY DEF TypeInv, DiscTypes, discState
<1>4. UNCHANGED diagState => DiagTypes'
  BY DEF TypeInv, DiagTypes, diagState
<1>5. UNCHANGED threadState => ThreadInv'
  BY DEF TypeInv, ThreadInv, ThreadTypes, ScopeInv, threadState, callState
<1> QED
  BY <1>1, <1>2, <1>3, <1>4, <1>5

\* What a notification and a new iteration of run() leave of the thread.
LEMMA WakesTypes == TypeInv /\ Wakes => ThreadInv'
BY DEF Wakes, Notify, TypeInv, ThreadInv, ThreadTypes, ScopeInv, callState

\* The thread returns to its loop without locals.
LEMMA ToTopTypes == ThreadInv /\ ToTop => ThreadInv'
<1> SUFFICES ASSUME ThreadInv, ToTop PROVE ThreadInv'
  OBVIOUS
<1>1. ThreadTypes'
  BY NoLocalsType DEF ToTop, ThreadInv, ThreadTypes, Labels
<1>2. ScopeInv'
  BY DEF ToTop, ScopeInv, StreamLabels
<1> QED
  BY <1>1, <1>2 DEF ThreadInv

\* Every step of the session, the thread and the drive keeps the types.
LEMMA TypeStep == TypeInv /\ [Next]_vars => TypeInv'
<1> SUFFICES ASSUME TypeInv, [Next]_vars PROVE TypeInv'
  OBVIOUS
<1> USE WorkerConstants
<1>1. ASSUME NEW b \in 0..LeadOut, NEW e \in 0..LeadOut, Start(b, e) PROVE TypeInv'
  <2>1. StreamInv'
    <3>1. queue' \in Seq(Blocks) /\ \A i \in 1..Len(queue') : BlockEnd(queue'[i]) <= LeadOut
      BY <1>1, EmptyQueue DEF Start
    <3>2. /\ generation' \in 0..(MaxGeneration + 1) /\ generation' <= MaxGeneration
          /\ begin' <= end' /\ begin' \in 0..LeadOut /\ end' \in 0..LeadOut /\ next' \in 0..LeadOut
      BY <1>1 DEF Start, TypeInv, StreamInv, StreamTypes, RangeOrdered
    <3>3. active' \in BOOLEAN /\ done' \in BOOLEAN /\ error' \in BOOLEAN
      BY <1>1 DEF Start
    <3> QED
      BY <3>1, <3>2, <3>3 DEF StreamInv, StreamTypes, QueueInside, RangeOrdered
  <2>2. DeviceTypes'
    BY <1>1 DEF Start, Wakes, TypeInv, DeviceTypes, deviceState, configState
  <2>3. DiagTypes'
    BY <1>1 DEF Start, Wakes, TypeInv, DiagTypes, diagState, EmptyDiag, Diagnostics
  <2>4. ThreadInv'
    BY <1>1, WakesTypes DEF Start
  <2> QED
    BY <1>1, <2>1, <2>2, <2>3, <2>4, Untouched DEF TypeInv, Start, Wakes, deviceState, configState, discState, diagState, threadState, streamState
<1>2. CASE Cancel
  <2>1. StreamInv'
    <3>1. queue' \in Seq(Blocks) /\ \A i \in 1..Len(queue') : BlockEnd(queue'[i]) <= LeadOut
      BY <1>2, EmptyQueue DEF Cancel, RetireStream
    <3>2. /\ generation' \in 0..(MaxGeneration + 1) /\ generation' <= MaxGeneration
          /\ begin' <= end' /\ begin' \in 0..LeadOut /\ end' \in 0..LeadOut /\ next' \in 0..LeadOut
      BY <1>2 DEF Cancel, RetireStream, TypeInv, StreamInv, StreamTypes, RangeOrdered
    <3>3. active' \in BOOLEAN /\ done' \in BOOLEAN /\ error' \in BOOLEAN
      BY <1>2 DEF Cancel, RetireStream
    <3> QED
      BY <3>1, <3>2, <3>3 DEF StreamInv, StreamTypes, QueueInside, RangeOrdered
  <2>2. DiagTypes'
    BY <1>2 DEF Cancel, RetireStream, Wakes, TypeInv, DiagTypes, diagState, EmptyDiag, Diagnostics
  <2>3. ThreadInv'
    BY <1>2, WakesTypes DEF Cancel, RetireStream
  <2> QED
    BY <1>2, <2>1, <2>2, <2>3, Untouched DEF TypeInv, Cancel, RetireStream, Wakes, deviceState, configState, discState, diagState, threadState, streamState
<1>3. CASE DiscardReader
  <2>1. StreamInv'
    <3>1. queue' \in Seq(Blocks) /\ \A i \in 1..Len(queue') : BlockEnd(queue'[i]) <= LeadOut
      BY <1>3, EmptyQueue DEF DiscardReader, RetireStream
    <3>2. /\ generation' \in 0..(MaxGeneration + 1) /\ generation' <= MaxGeneration
          /\ begin' <= end' /\ begin' \in 0..LeadOut /\ end' \in 0..LeadOut /\ next' \in 0..LeadOut
      BY <1>3 DEF DiscardReader, RetireStream, TypeInv, StreamInv, StreamTypes, RangeOrdered
    <3>3. active' \in BOOLEAN /\ done' \in BOOLEAN /\ error' \in BOOLEAN
      BY <1>3 DEF DiscardReader, RetireStream
    <3> QED
      BY <3>1, <3>2, <3>3 DEF StreamInv, StreamTypes, QueueInside, RangeOrdered
  <2>2. DeviceTypes'
    BY <1>3 DEF DiscardReader, RetireStream, Wakes, TypeInv, DeviceTypes, deviceState, configState
  <2>3. DiagTypes'
    BY <1>3 DEF DiscardReader, RetireStream, Wakes, TypeInv, DiagTypes, diagState, EmptyDiag, Diagnostics
  <2>4. ThreadInv'
    BY <1>3, WakesTypes DEF DiscardReader, RetireStream
  <2> QED
    BY <1>3, <2>1, <2>2, <2>3, <2>4, Untouched DEF TypeInv, DiscardReader, RetireStream, Wakes, deviceState, configState, discState, diagState, threadState, streamState
<1>4. ASSUME NEW block \in ReadBlocks, Reconfigure(block) PROVE TypeInv'
  <2>1. DeviceTypes'
    BY <1>4 DEF Reconfigure, Wakes, TypeInv, DeviceTypes, deviceState, configState
  <2>2. ThreadInv'
    BY <1>4, WakesTypes DEF Reconfigure
  <2> QED
    BY <1>4, <2>1, <2>2, Untouched DEF TypeInv, Reconfigure, Wakes, deviceState, configState, discState, diagState, threadState, streamState
<1>5. CASE SetDiscGeneration
  <2>1. DiscTypes'
    BY <1>5 DEF SetDiscGeneration, TypeInv, DiscTypes, discState, EmptyMap
  <2> QED
    BY <1>5, <2>1, Untouched DEF TypeInv, SetDiscGeneration, deviceState, configState, discState, diagState, threadState, streamState
<1>6. CASE ObserveReleased
  <2>1. DeviceTypes'
    BY <1>6 DEF ObserveReleased, TypeInv, DeviceTypes, deviceState, configState
  <2> QED
    BY <1>6, <2>1, Untouched DEF TypeInv, ObserveReleased, deviceState, configState, discState, diagState, threadState, streamState
<1>7. CASE Pop
  <2>1. StreamInv'
    <3>1. queue \in Seq(Blocks) /\ queue # <<>> /\ queue' = Tail(queue)
      BY <1>7 DEF Pop, TypeInv, StreamInv, StreamTypes
    <3>2. /\ queue' \in Seq(Blocks) /\ Len(queue') = Len(queue) - 1 /\ Len(queue) \in Nat \ {0}
          /\ \A i \in 1..Len(queue') : queue'[i] = queue[i + 1]
          /\ Head(queue) = queue[1] /\ queue[1] \in Blocks
      BY <3>1, HeadTailProperties
    <3>3. \A i \in 1..Len(queue) : BlockEnd(queue[i]) <= LeadOut
      BY DEF TypeInv, StreamInv, QueueInside
    <3>4. next' \in 0..LeadOut
      BY SMTT(30), <1>7, <3>2, <3>3 DEF Pop, Blocks, BlockEnd
    <3>5. \A i \in 1..Len(queue') : BlockEnd(queue'[i]) <= LeadOut
      BY <3>2, <3>3
    <3> QED
      BY <3>2, <3>4, <3>5, <1>7 DEF Pop, TypeInv, StreamInv, StreamTypes, QueueInside, RangeOrdered, deviceState
  <2>2. ThreadInv'
    BY <1>7, WakesTypes DEF Pop
  <2> QED
    BY <1>7, <2>1, <2>2, Untouched DEF TypeInv, Pop, Wakes, deviceState, configState, discState, diagState, threadState, streamState
<1>8. CASE PopEvent
  <2>1. DiagTypes'
    <3>1. diag \in Diagnostics /\ diag.events \in Seq(Evidence)
      BY DEF TypeInv, DiagTypes, Diagnostics
    <3>2. Tail(diag.events) \in Seq(Evidence)
      BY <3>1, <1>8, HeadTailProperties DEF PopEvent
    <3> QED
      BY <3>1, <3>2, <1>8 DEF PopEvent, TypeInv, DiagTypes, Diagnostics
  <2> QED
    BY <1>8, <2>1, Untouched DEF TypeInv, PopEvent, deviceState, configState, discState, diagState, threadState, streamState
<1>9. CASE Destroy
  <2>1. StreamInv'
    BY <1>9 DEF Destroy, Wakes, TypeInv, StreamInv, StreamTypes, QueueInside, RangeOrdered, streamState, deviceState
  <2>2. DeviceTypes'
    BY <1>9 DEF Destroy, Wakes, TypeInv, DeviceTypes, deviceState, configState
  <2>3. ThreadInv'
    BY <1>9, WakesTypes DEF Destroy
  <2> QED
    BY <1>9, <2>1, <2>2, <2>3, Untouched DEF TypeInv, Destroy, Wakes, deviceState, configState, discState, diagState, threadState, streamState
<1>10. CASE Sleep("top", WakeTop) \/ Sleep("loop", WakeFull)
  <2>1. ThreadInv'
    BY ZenonT(30), <1>10 DEF Sleep, TypeInv, ThreadInv, ThreadTypes, ScopeInv, StreamLabels, Labels, callState, threadState
  <2> QED
    BY <1>10, <2>1, Untouched DEF TypeInv, Sleep, deviceState, configState, discState, diagState, threadState, streamState
<1>11. CASE SeeClosing
  <2>1. ThreadInv'
    BY <1>11 DEF SeeClosing, CloseThen, TypeInv, ThreadInv, ThreadTypes, ScopeInv, StreamLabels, Labels, callState, threadState
  <2> QED
    BY <1>11, <2>1, Untouched DEF TypeInv, SeeClosing, CloseThen, deviceState, configState, discState, diagState, threadState, streamState
<1>12. CASE SeeDiscard
  <2>1. DeviceTypes'
    BY <1>12 DEF SeeDiscard, CloseThen, TypeInv, DeviceTypes, deviceState, configState
  <2>2. ThreadInv'
    BY <1>12 DEF SeeDiscard, CloseThen, TypeInv, ThreadInv, ThreadTypes, ScopeInv, StreamLabels, Labels, callState, threadState
  <2> QED
    BY <1>12, <2>1, <2>2, Untouched DEF TypeInv, SeeDiscard, CloseThen, deviceState, configState, discState, diagState, threadState, streamState
<1>13. CASE SeeStart
  <2>1. ThreadInv'
    <3>1. /\ generation \in 0..MaxGeneration /\ begin \in 0..LeadOut /\ end \in 0..LeadOut
          /\ discGeneration \in 0..MaxDisc /\ readBlock \in ReadBlocks
      BY <1>13 DEF SeeStart, TypeInv, StreamInv, StreamTypes, QueueInside, RangeOrdered, DeviceTypes, DiscTypes
    <3>2. CapacityBlocks(readBlock) \in 0..Capacity
      BY <3>1, CapacityBlocksType
    <3>3. loc' \in Locals /\ loc'.block \in ReadBlocks
      BY <3>1, <3>2, <1>13 DEF SeeStart, Locals
    <3>4. loc'.pos <= loc'.end
      BY <1>13 DEF SeeStart, TypeInv, StreamInv, RangeOrdered
    <3> QED
      BY <3>3, <3>4, <1>13 DEF SeeStart, TypeInv, ThreadInv, ThreadTypes, ScopeInv, StreamLabels, Labels, callState
  <2> QED
    BY <1>13, <2>1, Untouched DEF TypeInv, SeeStart, deviceState, configState, discState, diagState, threadState, streamState
<1>14. CASE CloseNothing
  <2>1. ThreadInv'
    BY <1>14 DEF CloseNothing, Goto, TypeInv, ThreadInv, ThreadTypes, ScopeInv, StreamLabels, Labels, callState, threadState
  <2> QED
    BY <1>14, <2>1, Untouched DEF TypeInv, CloseNothing, Goto, deviceState, configState, discState, diagState, threadState, streamState
<1>15. CASE CloseBegin
  <2>1. DeviceTypes'
    BY <1>15 DEF CloseBegin, Goto, TypeInv, DeviceTypes, deviceState, configState
  <2>2. ThreadInv'
    BY <1>15 DEF CloseBegin, Goto, TypeInv, ThreadInv, ThreadTypes, ScopeInv, StreamLabels, Labels, callState, threadState
  <2> QED
    BY <1>15, <2>1, <2>2, Untouched DEF TypeInv, CloseBegin, Goto, deviceState, configState, discState, diagState, threadState, streamState
<1>16. CASE CloseEnd
  <2>1. DeviceTypes'
    BY <1>16 DEF CloseEnd, TypeInv, DeviceTypes, deviceState, configState
  <2>2. ThreadInv'
    BY <1>16 DEF CloseEnd, TypeInv, ThreadInv, ThreadTypes, ScopeInv, StreamLabels, Labels, callState, threadState
  <2> QED
    BY <1>16, <2>1, <2>2, Untouched DEF TypeInv, CloseEnd, deviceState, configState, discState, diagState, threadState, streamState
<1>17. CASE AfterDiscard
  <2>1. DeviceTypes'
    BY <1>17 DEF AfterDiscard, ToTop, TypeInv, DeviceTypes, deviceState, configState
  <2>2. ThreadInv'
    BY <1>17, ToTopTypes DEF AfterDiscard, TypeInv
  <2> QED
    BY <1>17, <2>1, <2>2, Untouched DEF TypeInv, AfterDiscard, ToTop, deviceState, configState, discState, diagState, threadState, streamState
<1>18. CASE RequestOpen
  <2>1. DeviceTypes'
    BY <1>18 DEF RequestOpen, Announce, TypeInv, DeviceTypes, deviceState, configState
  <2>2. ThreadInv'
    BY <1>18 DEF RequestOpen, Announce, TypeInv, ThreadInv, ThreadTypes, ScopeInv, StreamLabels, Labels, callState, threadState
  <2> QED
    BY <1>18, <2>1, <2>2, Untouched DEF TypeInv, RequestOpen, Announce, deviceState, configState, discState, diagState, threadState, streamState
<1>19. CASE KeepReader
  <2>1. ThreadInv'
    BY <1>19 DEF KeepReader, Goto, TypeInv, ThreadInv, ThreadTypes, ScopeInv, StreamLabels, Labels, callState, threadState
  <2> QED
    BY <1>19, <2>1, Untouched DEF TypeInv, KeepReader, Goto, deviceState, configState, discState, diagState, threadState, streamState
<1>20. CASE Admit
  <2>1. DeviceTypes'
    BY <1>20 DEF Admit, TypeInv, DeviceTypes, deviceState, configState
  <2>2. DiscTypes'
    <3>1. op = "read" => FramesOf(loc.pos, ReadFrames) \subseteq 0..LeadOut
      BY <1>20, ReadFramesType DEF Admit, TypeInv, ThreadInv, ScopeInv, StreamLabels
    <3> QED
      BY <3>1, <1>20 DEF Admit, TypeInv, DiscTypes
  <2>3. ThreadInv'
    BY <1>20 DEF Admit, TypeInv, ThreadInv, ThreadTypes, ScopeInv, StreamLabels, Labels, callState, threadState
  <2> QED
    BY <1>20, <2>1, <2>2, <2>3, Untouched DEF TypeInv, Admit, deviceState, configState, discState, diagState, threadState, streamState
<1>21. CASE Refuse
  <2>1. ThreadInv'
    BY <1>21 DEF Refuse, Goto, TypeInv, ThreadInv, ThreadTypes, ScopeInv, StreamLabels, Labels, callState, threadState
  <2> QED
    BY <1>21, <2>1, Untouched DEF TypeInv, Refuse, Goto, deviceState, configState, discState, diagState, threadState, streamState
<1>22. CASE AfterRefusal
  <2>1. DeviceTypes'
    BY <1>22 DEF AfterRefusal, ToTop, TypeInv, DeviceTypes, deviceState, configState
  <2>2. ThreadInv'
    BY <1>22, ToTopTypes DEF AfterRefusal, TypeInv
  <2> QED
    BY <1>22, <2>1, <2>2, Untouched DEF TypeInv, AfterRefusal, ToTop, deviceState, configState, discState, diagState, threadState, streamState
<1>23. ASSUME NEW res, Return(res) PROVE TypeInv'
  <2>1. DeviceTypes'
    BY <1>23 DEF Return, TypeInv, DeviceTypes, deviceState, configState
  <2>2. ThreadInv'
    BY <1>23 DEF Return, TypeInv, ThreadInv, ThreadTypes, ScopeInv, StreamLabels, Labels, callState, threadState, Results, Statuses
  <2> QED
    BY <1>23, <2>1, <2>2, Untouched DEF TypeInv, Return, deviceState, configState, discState, diagState, threadState, streamState
<1>24. CASE AfterOpen
  <2>1. DeviceTypes'
    BY <1>24 DEF AfterOpen, TypeInv, DeviceTypes, ThreadInv, ThreadTypes, configState
  <2>2. ThreadInv'
    BY <1>24 DEF AfterOpen, Goto, CloseThen, TypeInv, ThreadInv, ThreadTypes, ScopeInv, StreamLabels, Labels, callState, threadState
  <2> QED
    BY <1>24, <2>1, <2>2, Untouched DEF TypeInv, AfterOpen, Goto, CloseThen, deviceState, configState, discState, diagState, threadState, streamState
<1>25. CASE CheckOpened
  <2>1. ThreadInv'
    BY <1>25, ToTopTypes DEF CheckOpened, Goto, CloseThen, TypeInv, ThreadInv, ThreadTypes, ScopeInv, StreamLabels, Labels, callState, threadState
  <2> QED
    BY <1>25, <2>1, Untouched DEF TypeInv, CheckOpened, Goto, CloseThen, ToTop, deviceState, configState, discState, diagState, threadState, streamState
<1>26. CASE RequestSeek
  <2>1. DeviceTypes'
    BY <1>26 DEF RequestSeek, Announce, TypeInv, DeviceTypes, deviceState, configState
  <2>2. ThreadInv'
    BY <1>26 DEF RequestSeek, Announce, TypeInv, ThreadInv, ThreadTypes, ScopeInv, StreamLabels, Labels, callState, threadState
  <2> QED
    BY <1>26, <2>1, <2>2, Untouched DEF TypeInv, RequestSeek, Announce, deviceState, configState, discState, diagState, threadState, streamState
<1>27. CASE AfterSeek
  <2>1. DeviceTypes'
    BY <1>27 DEF AfterSeek, Goto, TypeInv, DeviceTypes, deviceState, configState
  <2>2. ThreadInv'
    BY <1>27 DEF AfterSeek, Goto, TypeInv, ThreadInv, ThreadTypes, ScopeInv, StreamLabels, Labels, callState, threadState
  <2> QED
    BY <1>27, <2>1, <2>2, Untouched DEF TypeInv, AfterSeek, Goto, deviceState, configState, discState, diagState, threadState, streamState
<1>28. CASE LeaveLoop
  <2>1. ThreadInv'
    BY <1>28, ToTopTypes DEF LeaveLoop, Goto, CloseThen, TypeInv, ThreadInv, ThreadTypes, ScopeInv, StreamLabels, Labels, callState, threadState
  <2> QED
    BY <1>28, <2>1, Untouched DEF TypeInv, LeaveLoop, Goto, CloseThen, ToTop, deviceState, configState, discState, diagState, threadState, streamState
<1>29. CASE RequestRead
  <2>1. DeviceTypes'
    BY <1>29 DEF RequestRead, Announce, TypeInv, DeviceTypes, deviceState, configState
  <2>2. DiagTypes'
    BY <1>29 DEF RequestRead, Announce, TypeInv, DiagTypes, diagState
  <2>3. ThreadInv'
    BY <1>29 DEF RequestRead, Announce, TypeInv, ThreadInv, ThreadTypes, ScopeInv, StreamLabels, Labels, callState, threadState, StreamRead, Locals
  <2> QED
    BY <1>29, <2>1, <2>2, <2>3, Untouched DEF TypeInv, RequestRead, Announce, deviceState, configState, discState, diagState, threadState, streamState
<1>30. CASE AfterRead
  <2>1. DeviceTypes'
    BY <1>30 DEF AfterRead, TypeInv, DeviceTypes, deviceState, configState
  <2>2. DiscTypes'
    <3>1. FramesOf(loc.pos, ReadFrames) \subseteq 0..LeadOut
      BY <1>30, ReadFramesType DEF AfterRead, TypeInv, ThreadInv, ScopeInv, StreamLabels
    <3>2. discMap' = discMap \/ discMap' \in MapObservations(discMap, discGeneration, loc.pos, ReadFrames)
      BY <1>30 DEF AfterRead
    <3>3. discMap' \in Maps
      BY <3>1, <3>2, MapObservationsType DEF TypeInv, DiscTypes, Maps
    <3> QED
      BY <3>3, <1>30 DEF AfterRead, TypeInv, DiscTypes, Maps
  <2>3. DiagTypes'
    <3>1. /\ loc.pos \in 0..LeadOut /\ FramesOf(loc.pos, ReadFrames) \subseteq 0..LeadOut
      BY <1>30, ReadFramesType DEF AfterRead, TypeInv, ThreadInv, ScopeInv, StreamLabels
    <3>2. loc.gen \in 0..MaxGeneration /\ result \in Statuses \cup {"bad"}
      BY <1>30 DEF AfterRead, TypeInv, ThreadInv, ThreadTypes, ScopeInv, Locals
    <3>3. Observed(diag, loc.gen, loc.pos, ReadFrames, result) \in Diagnostics
      BY <3>1, <3>2, ObservedType DEF TypeInv, DiagTypes
    <3> QED
      BY <3>3, <1>30 DEF AfterRead, TypeInv, DiagTypes, diagState
  <2>4. ThreadInv'
    BY <1>30 DEF AfterRead, TypeInv, ThreadInv, ThreadTypes, ScopeInv, StreamLabels, Labels, callState, threadState
  <2> QED
    BY <1>30, <2>1, <2>2, <2>3, <2>4, Untouched DEF TypeInv, AfterRead, deviceState, configState, discState, diagState, threadState, streamState
<1>31. CASE AbandonBlock
  <2>1. ThreadInv'
    BY <1>31, ToTopTypes DEF AbandonBlock, CloseThen, TypeInv, ThreadInv, ThreadTypes, ScopeInv, StreamLabels, Labels, callState, threadState
  <2> QED
    BY <1>31, <2>1, Untouched DEF TypeInv, AbandonBlock, CloseThen, ToTop, deviceState, configState, discState, diagState, threadState, streamState
<1>32. CASE Push
  <2>1. StreamInv'
    <3> DEFINE block == [generation |-> loc.gen, lba |-> loc.pos, frames |-> ReadFrames]
    <3>1. /\ ReadFrames \in 1..Capacity /\ loc.pos \in 0..LeadOut /\ loc.pos + ReadFrames <= loc.end
          /\ loc.end \in 0..LeadOut /\ loc.gen \in 0..(MaxGeneration + 1) /\ LeadOut \in Nat
      BY SMTT(30), <1>32, ReadFramesType DEF Push, TypeInv, ThreadInv, ThreadTypes, ScopeInv, StreamLabels, Locals
    <3>2. block \in Blocks
      BY <3>1 DEF Blocks
    <3>3. BlockEnd(block) <= LeadOut
      BY <3>1 DEF BlockEnd
    <3>4. queue \in Seq(Blocks) /\ queue' = Append(queue, block)
      BY <1>32 DEF Push, TypeInv, StreamInv, StreamTypes
    <3> HIDE DEF block
    <3>5. /\ queue' \in Seq(Blocks) /\ Len(queue') = Len(queue) + 1 /\ queue'[Len(queue) + 1] = block
          /\ \A i \in 1..Len(queue) : queue'[i] = queue[i]
          /\ Len(queue) \in Nat
      BY <3>2, <3>4, AppendProperties
    <3>6. \A i \in 1..Len(queue') : BlockEnd(queue'[i]) <= LeadOut
      BY <3>3, <3>5 DEF TypeInv, StreamInv, QueueInside
    <3> QED
      BY <3>5, <3>6, <1>32 DEF Push, TypeInv, StreamInv, StreamTypes, QueueInside, RangeOrdered, deviceState
  <2>2. ThreadInv'
    <3>1. /\ ReadFrames \in 1..Capacity /\ loc.pos \in 0..LeadOut /\ loc.pos + ReadFrames <= loc.end
          /\ loc.end \in 0..LeadOut /\ LeadOut \in Nat
      BY <1>32, ReadFramesType DEF Push, TypeInv, ThreadInv, ScopeInv, StreamLabels
    <3>2. loc \in Locals /\ loc.block \in ReadBlocks
      BY <1>32 DEF Push, TypeInv, ThreadInv, ThreadTypes, ScopeInv, StreamLabels
    <3>3. loc' = [loc EXCEPT !.pos = loc.pos + ReadFrames] /\ loc.pos + ReadFrames \in 0..LeadOut
      BY SMTT(30), <3>1, <1>32 DEF Push
    <3>4. loc' \in Locals /\ loc'.block \in ReadBlocks /\ loc'.pos <= loc'.end
      BY <3>1, <3>2, <3>3 DEF Locals
    <3> QED
      BY <3>4, <1>32 DEF Push, TypeInv, ThreadInv, ThreadTypes, ScopeInv, Labels, callState
  <2> QED
    BY <1>32, <2>1, <2>2, Untouched DEF TypeInv, Push, deviceState, configState, discState, diagState, threadState, streamState
<1>33. CASE Finish
  <2>1. StreamInv'
    BY <1>33 DEF Finish, ToTop, TypeInv, StreamInv, StreamTypes, QueueInside, RangeOrdered, streamState, deviceState
  <2>2. DiagTypes'
    BY <1>33 DEF Finish, ToTop, TypeInv, DiagTypes, diagState
  <2>3. ThreadInv'
    BY <1>33, ToTopTypes DEF Finish, TypeInv
  <2> QED
    BY <1>33, <2>1, <2>2, <2>3, Untouched DEF TypeInv, Finish, ToTop, deviceState, configState, discState, diagState, threadState, streamState
<1>34. CASE AfterFailure
  <2>1. StreamInv'
    <3>1. queue' \in Seq(Blocks) /\ \A i \in 1..Len(queue') : BlockEnd(queue'[i]) <= LeadOut
      <4>1. CASE queue' = queue
        BY <4>1 DEF TypeInv, StreamInv, StreamTypes, QueueInside, RangeOrdered
      <4>2. CASE queue' = <<>>
        BY <4>2, EmptyQueue
      <4> QED
        BY <4>1, <4>2, <1>34 DEF AfterFailure
    <3>2. /\ begin' <= end' /\ active' \in BOOLEAN /\ done' \in BOOLEAN /\ error' \in BOOLEAN
      BY <1>34 DEF AfterFailure, TypeInv, StreamInv, StreamTypes, RangeOrdered
    <3> QED
      BY <3>1, <3>2, <1>34 DEF AfterFailure, TypeInv, StreamInv, StreamTypes, QueueInside, RangeOrdered
  <2>2. DeviceTypes'
    BY <1>34 DEF AfterFailure, ToTop, TypeInv, DeviceTypes, deviceState, configState
  <2>3. DiscTypes'
    <3>1. discMap' \in Maps
      <4>1. discMap \in Maps /\ discMap.revision + 1 \in Nat /\ discMap.frames \in SUBSET (0..LeadOut)
        BY DEF TypeInv, DiscTypes, Maps
      <4> QED
        BY <4>1, <1>34, MapUpdates DEF AfterFailure, MapAfterFailure
    <3> QED
      BY <3>1, <1>34 DEF AfterFailure, TypeInv, DiscTypes, Maps
  <2>4. DiagTypes'
    BY <1>34 DEF AfterFailure, ToTop, TypeInv, DiagTypes, diagState
  <2>5. ThreadInv'
    BY <1>34, ToTopTypes DEF AfterFailure, TypeInv
  <2> QED
    BY <1>34, <2>1, <2>2, <2>3, <2>4, <2>5, Untouched DEF TypeInv, AfterFailure, ToTop, deviceState, configState, discState, diagState, threadState, streamState
<1>35. CASE OtherAcquires \/ OtherReleases
  <2>1. DeviceTypes'
    BY <1>35 DEF OtherAcquires, OtherReleases, TypeInv, DeviceTypes, deviceState, configState
  <2> QED
    BY <1>35, <2>1, Untouched DEF TypeInv, OtherAcquires, OtherReleases, deviceState, configState, discState, diagState, threadState, streamState
<1>36. CASE UNCHANGED vars
  <2> QED
    BY <1>36, Untouched DEF TypeInv, vars, deviceState, configState, discState, diagState, threadState, streamState
<1> QED
  BY <1>1, <1>2, <1>3, <1>4, <1>5, <1>6, <1>7, <1>8, <1>9, <1>10, <1>11, <1>12, <1>13, <1>14, <1>15, <1>16, <1>17, <1>18, <1>19, <1>20, <1>21, <1>22, <1>23, <1>24, <1>25, <1>26, <1>27, <1>28, <1>29, <1>30, <1>31, <1>32, <1>33, <1>34, <1>35, <1>36
  DEF Next, Session, Thread, TakeDrive, DriveReturns

\* A read that is asked for, or under way, is of at least one frame, and ends
\* within its stream and the disc.
ReadsInside ==
    pc \in {"request", "call"} /\ op = "read" =>
        ReadFrames > 0 /\ loc.pos + ReadFrames <= loc.end /\ loc.end <= LeadOut

\* No block that is queued passes the lead-out.
BlocksInside == \A i \in 1..Len(queue) : BlockEnd(queue[i]) <= LeadOut

(***************************************************************************)
(* Every member of PcmWorker and every local of run() keeps its type, no   *)
(* read is asked for beyond its stream, none is empty, and no block that   *)
(* is queued passes the lead-out: for any lead-out, buffer, set of read    *)
(* block sizes, which need not divide a stream, and evidence capacities.   *)
(***************************************************************************)
THEOREM TypeOKAlways == Spec => [](TypeOK /\ ReadsInside /\ BlocksInside)
<1>1. TypeInv => TypeOK /\ BlocksInside
  BY DEF TypeInv, StreamInv, ThreadInv, TypeOK, QueueInside, BlocksInside
<1>2. TypeInv => ReadsInside
  <2> SUFFICES ASSUME TypeInv, pc \in {"request", "call"}, op = "read"
               PROVE  ReadFrames > 0 /\ loc.pos + ReadFrames <= loc.end /\ loc.end <= LeadOut
    BY DEF ReadsInside
  <2>1. pc \in StreamLabels /\ loc.pos < loc.end
    BY DEF TypeInv, ThreadInv, ScopeInv, StreamLabels
  <2>2. ReadFrames \in 1..Capacity /\ loc.pos + ReadFrames <= loc.end /\ loc.end \in 0..LeadOut
    BY <2>1, ReadFramesType
  <2> QED
    BY <2>2, WorkerConstants
<1> QED
  BY TypeInit, TypeStep, <1>1, <1>2, PTL DEF Spec

-----------------------------------------------------------------------------
(* What device_released() means.                                           *)

CallLabels == {"request", "call", "open", "seek", "read", "retired"}

(***************************************************************************)
(* The inductive strengthening of ReleaseIsReal.  The published flags      *)
(* over-approximate the thread: inflight is set from before a call asks    *)
(* for the drive until its result was booked, and a reader exists only     *)
(* under readerOpen, but for the instant in which an open call has         *)
(* returned and is still announced.  The last conjunct is the promise: it  *)
(* is kept by the admission test, because a released worker is inactive    *)
(* until the next start().                                                 *)
(***************************************************************************)
ReleaseInv ==
    /\ pc \in CallLabels => inflight
    /\ pc \in {"request", "call"} => op \in {"open", "seek", "read"}
    /\ pc \in {"close", "closing"} => after \in {"exit", "discarded", "failed"}
    /\ drive = "pcm" <=> pc \in {"call", "closing"}
    /\ reader \in BOOLEAN
    /\ pc = "closing" => reader
    /\ reader => readerOpen \/ pc = "open"
    /\ pc \in {"discarded", "failed", "exit"} => ~reader
    /\ seenReleased => ~active /\ ~reader /\ pc \notin {"call", "closing"}

\* A worker that was just made has neither a reader nor a call.
LEMMA ReleaseInit == Init => ReleaseInv
BY DEF Init, ReleaseInv, CallLabels, NoLocals

\* Every step keeps the reader and its calls where they are announced.
LEMMA ReleaseStep == ReleaseInv /\ [Next]_vars => ReleaseInv'
<1> SUFFICES ASSUME ReleaseInv, [Next]_vars PROVE ReleaseInv'
  OBVIOUS
<1> USE DEF ReleaseInv, CallLabels, streamState, deviceState, configState, discState, diagState, callState, threadState
<1>1. ASSUME NEW b \in 0..LeadOut, NEW e \in 0..LeadOut, Start(b, e) PROVE ReleaseInv'
  BY <1>1 DEF Start, Wakes
<1>2. CASE Cancel
  BY <1>2 DEF Cancel, RetireStream, Wakes
<1>3. CASE DiscardReader
  BY <1>3 DEF DiscardReader, RetireStream, Wakes
<1>4. ASSUME NEW block \in ReadBlocks, Reconfigure(block) PROVE ReleaseInv'
  BY <1>4 DEF Reconfigure, Wakes
<1>5. CASE SetDiscGeneration
  BY <1>5 DEF SetDiscGeneration
<1>6. CASE ObserveReleased
  BY <1>6 DEF ObserveReleased, DeviceReleased
<1>7. CASE Pop
  BY <1>7 DEF Pop, Wakes
<1>8. CASE PopEvent
  BY <1>8 DEF PopEvent
<1>9. CASE Destroy
  BY <1>9 DEF Destroy, Wakes
<1>10. CASE Sleep("top", WakeTop) \/ Sleep("loop", WakeFull)
  BY <1>10 DEF Sleep
<1>11. CASE SeeClosing
  BY <1>11 DEF SeeClosing, CloseThen
<1>12. CASE SeeDiscard
  BY <1>12 DEF SeeDiscard, CloseThen
<1>13. CASE SeeStart
  BY <1>13 DEF SeeStart
<1>14. CASE CloseNothing
  BY <1>14 DEF CloseNothing, Goto
<1>15. CASE CloseBegin
  BY <1>15 DEF CloseBegin, Goto
<1>16. CASE CloseEnd
  BY <1>16 DEF CloseEnd
<1>17. CASE AfterDiscard
  BY <1>17 DEF AfterDiscard, ToTop
<1>18. CASE RequestOpen
  BY <1>18 DEF RequestOpen, Announce
<1>19. CASE KeepReader
  BY <1>19 DEF KeepReader, Goto
<1>20. CASE Admit
  BY <1>20 DEF Admit, Retired
<1>21. CASE Refuse
  BY <1>21 DEF Refuse, Goto
<1>22. CASE AfterRefusal
  BY <1>22 DEF AfterRefusal, ToTop
<1>23. ASSUME NEW res, Return(res) PROVE ReleaseInv'
  BY <1>23 DEF Return
<1>24. CASE AfterOpen
  BY <1>24 DEF AfterOpen, Goto, CloseThen
<1>25. CASE CheckOpened
  BY <1>25 DEF CheckOpened, Goto, CloseThen, ToTop
<1>26. CASE RequestSeek
  BY <1>26 DEF RequestSeek, Announce
<1>27. CASE AfterSeek
  BY <1>27 DEF AfterSeek, Goto
<1>28. CASE LeaveLoop
  BY <1>28 DEF LeaveLoop, Goto, CloseThen, ToTop
<1>29. CASE RequestRead
  BY <1>29 DEF RequestRead, Announce
<1>30. CASE AfterRead
  BY <1>30 DEF AfterRead
<1>31. CASE AbandonBlock
  BY <1>31 DEF AbandonBlock, CloseThen, ToTop
<1>32. CASE Push
  BY <1>32 DEF Push
<1>33. CASE Finish
  BY <1>33 DEF Finish, ToTop
<1>34. CASE AfterFailure
  BY <1>34 DEF AfterFailure, ToTop
<1>35. CASE OtherAcquires \/ OtherReleases
  BY <1>35 DEF OtherAcquires, OtherReleases
<1>36. CASE UNCHANGED vars
  BY <1>36 DEF vars
<1> QED
  BY <1>1, <1>2, <1>3, <1>4, <1>5, <1>6, <1>7, <1>8, <1>9, <1>10, <1>11, <1>12, <1>13, <1>14,
     <1>15, <1>16, <1>17, <1>18, <1>19, <1>20, <1>21, <1>22, <1>23, <1>24, <1>25, <1>26, <1>27,
     <1>28, <1>29, <1>30, <1>31, <1>32, <1>33, <1>34, <1>35, <1>36
  DEF Next, Session, Thread, TakeDrive, DriveReturns

(***************************************************************************)
(* device_released() can be trusted: whatever the interleaving of          *)
(* PcmWorker::run with the calls of the session, once the session saw it   *)
(* return true the thread has no reader and is in no drive call until the  *)
(* next start().                                                           *)
(***************************************************************************)
THEOREM ReleaseIsRealAlways == Spec => []ReleaseIsReal
<1>1. ReleaseInv => ReleaseIsReal
  BY DEF ReleaseInv, ReleaseIsReal
<1> QED
  BY ReleaseInit, ReleaseStep, <1>1, PTL DEF Spec

-----------------------------------------------------------------------------
(* The map of the disc.                                                    *)

\* The thread is on its way to the failure handler of run().
Failing == pc = "failed" \/ (pc \in {"close", "closing"} /\ after = "failed")

\* Where an admitted read is that no observation has accounted for.
PendingRead ==
    /\ unobserved => pc \in {"call", "read"} \/ Failing
    /\ pc = "read" \/ (pc = "call" /\ op = "read") => unobserved
    /\ pc = "call" /\ unobserved => op = "read"
    /\ pc \in {"request", "call"} => op \in {"open", "seek", "read"}

(***************************************************************************)
(* The inductive strengthening of MapIsHonest: a read that is pending was  *)
(* attempted on this disc, and no stream belongs to a disc that is still   *)
(* to come, so that the next disc starts with no read of its own pending.  *)
(***************************************************************************)
MapFacts ==
    /\ loc.disc <= discGeneration
    /\ unobserved /\ loc.disc = discGeneration => FramesOf(loc.pos, ReadFrames) \subseteq attempted
    /\ MapIsHonest

MapInv == PendingRead /\ MapFacts

\* What DiscReadMap::observe does to a map that is kept: the frames are added,
\* or the map stops being complete.
LEMMA MapObservationsFrames ==
    ASSUME NEW m \in Maps, NEW disc, NEW lba, NEW n, NEW o \in MapObservations(m, disc, lba, n)
    PROVE  \/ disc = 0
           \/ o = m /\ ~m.complete
           \/ m.complete /\ o.frames = m.frames \cup FramesOf(lba, n)
           \/ o.frames = m.frames /\ ~o.complete
<1> DEFINE known == [m EXCEPT !.revision = @ + 1, !.frames = @ \cup FramesOf(lba, n)]
           full == [m EXCEPT !.revision = @ + 1, !.complete = FALSE]
<1>1. known.frames = m.frames \cup FramesOf(lba, n) /\ full.frames = m.frames /\ ~full.complete
  BY DEF Maps
<1> HIDE DEF known, full
<1>2. CASE disc = 0
  BY <1>2, Zenon
<1>3. CASE ~m.complete
  BY <1>3 DEF MapObservations
<1>4. CASE disc # 0 /\ m.complete
  <2>1. MapObservations(m, disc, lba, n) = {known, full}
    BY <1>4 DEF MapObservations, known, full
  <2>2. o = known \/ o = full
    BY <2>1
  <2> QED
    BY <1>1, <1>4, <2>2, Zenon
<1> QED
  BY <1>2, <1>3, <1>4

\* A worker that was just made has read nothing.
LEMMA MapInit == Init => MapInv
BY DEF Init, MapInv, PendingRead, Failing, MapFacts, MapIsHonest, NoLocals

\* A step that leaves the disc and the pending read alone keeps the facts.
LEMMA MapKept == MapFacts /\ UNCHANGED <<discState, unobserved, loc>> => MapFacts'
BY DEF MapFacts, MapIsHonest, discState, ReadFrames

\* So does a new iteration of run(), when no read is pending.
LEMMA MapNextIteration ==
    ASSUME MapFacts, ~unobserved, UNCHANGED discState, ~unobserved', loc'.disc <= discGeneration
    PROVE  MapFacts'
BY DEF MapFacts, MapIsHonest, discState

\* Every step accounts for the read it ends, or the map stops being complete.
LEMMA MapStep == TypeInv /\ MapInv /\ [Next]_vars => MapInv'
<1> SUFFICES ASSUME TypeInv, MapInv, [Next]_vars PROVE MapInv'
  OBVIOUS
<1>0. discGeneration \in Nat /\ NoLocals.disc <= discGeneration
  BY WorkerConstants DEF TypeInv, DiscTypes, NoLocals
<1> USE DEF MapInv
<1>1. ASSUME NEW b \in 0..LeadOut, NEW e \in 0..LeadOut, Start(b, e) PROVE MapInv'
  <2>1. PendingRead'
    BY <1>1 DEF Start, Wakes, PendingRead, Failing, callState, threadState, deviceState
  <2> QED
    BY <1>1, <2>1, MapKept DEF Start, Wakes, discState, callState, threadState
<1>2. CASE Cancel
  <2>1. PendingRead'
    BY <1>2 DEF Cancel, RetireStream, Wakes, PendingRead, Failing, callState, threadState, deviceState
  <2> QED
    BY <1>2, <2>1, MapKept DEF Cancel, RetireStream, Wakes, discState, callState, threadState
<1>3. CASE DiscardReader
  <2>1. PendingRead'
    BY <1>3 DEF DiscardReader, RetireStream, Wakes, PendingRead, Failing, callState, threadState, deviceState
  <2> QED
    BY <1>3, <2>1, MapKept DEF DiscardReader, RetireStream, Wakes, discState, callState, threadState
<1>4. ASSUME NEW block \in ReadBlocks, Reconfigure(block) PROVE MapInv'
  <2>1. PendingRead'
    BY <1>4 DEF Reconfigure, Wakes, PendingRead, Failing, callState, threadState, deviceState
  <2> QED
    BY <1>4, <2>1, MapKept DEF Reconfigure, Wakes, discState, callState, threadState
<1>5. CASE SetDiscGeneration
  <2>1. PendingRead'
    BY <1>5 DEF SetDiscGeneration, PendingRead, Failing, threadState, callState
  <2>2. /\ discGeneration' = discGeneration + 1 /\ discMap' = EmptyMap /\ attempted' = {}
        /\ loc' = loc /\ loc.disc \in Nat
    BY <1>5, WorkerConstants DEF SetDiscGeneration, threadState, TypeInv, ThreadInv, ThreadTypes, Locals
  <2>3. loc'.disc < discGeneration'
    BY <1>0, <2>2 DEF MapFacts
  <2> QED
    BY <1>0, <2>1, <2>2, <2>3 DEF MapFacts, MapIsHonest, EmptyMap
<1>6. CASE ObserveReleased
  <2>1. PendingRead'
    BY <1>6 DEF ObserveReleased, PendingRead, Failing, callState, threadState, deviceState
  <2> QED
    BY <1>6, <2>1, MapKept DEF ObserveReleased, discState, callState, threadState
<1>7. CASE Pop
  <2>1. PendingRead'
    BY <1>7 DEF Pop, Wakes, PendingRead, Failing, callState, threadState, deviceState
  <2> QED
    BY <1>7, <2>1, MapKept DEF Pop, Wakes, discState, callState, threadState
<1>8. CASE PopEvent
  <2>1. PendingRead'
    BY <1>8 DEF PopEvent, PendingRead, Failing, callState, threadState, deviceState
  <2> QED
    BY <1>8, <2>1, MapKept DEF PopEvent, discState, callState, threadState
<1>9. CASE Destroy
  <2>1. PendingRead'
    BY <1>9 DEF Destroy, Wakes, PendingRead, Failing, callState, threadState, deviceState
  <2> QED
    BY <1>9, <2>1, MapKept DEF Destroy, Wakes, discState, callState, threadState
<1>10. CASE Sleep("top", WakeTop) \/ Sleep("loop", WakeFull)
  <2>1. PendingRead'
    BY <1>10 DEF Sleep, PendingRead, Failing, callState, threadState, deviceState
  <2> QED
    BY <1>10, <2>1, MapKept DEF Sleep, discState, callState, threadState
<1>11. CASE SeeClosing
  <2>1. PendingRead'
    BY <1>11 DEF SeeClosing, CloseThen, PendingRead, Failing, callState, threadState, deviceState
  <2> QED
    BY <1>11, <2>1, MapKept DEF SeeClosing, CloseThen, discState, callState, threadState
<1>12. CASE SeeDiscard
  <2>1. PendingRead'
    BY <1>12 DEF SeeDiscard, CloseThen, PendingRead, Failing, callState, threadState, deviceState
  <2> QED
    BY <1>12, <2>1, MapKept DEF SeeDiscard, CloseThen, discState, callState, threadState
<1>13. CASE SeeStart
  <2>1. PendingRead'
    BY <1>13 DEF SeeStart, PendingRead, Failing, callState
  <2>2. ~unobserved /\ ~unobserved' /\ UNCHANGED discState /\ loc'.disc = discGeneration
    BY <1>13 DEF SeeStart, PendingRead, Failing, callState
  <2> QED
    BY <1>0, <2>1, <2>2, MapNextIteration
<1>14. CASE CloseNothing
  <2>1. PendingRead'
    BY <1>14 DEF CloseNothing, Goto, PendingRead, Failing, callState, threadState, deviceState, TypeInv, ThreadInv, ThreadTypes, ScopeInv
  <2> QED
    BY <1>14, <2>1, MapKept DEF CloseNothing, Goto, discState, callState, threadState
<1>15. CASE CloseBegin
  <2>1. PendingRead'
    BY <1>15 DEF CloseBegin, Goto, PendingRead, Failing, callState, threadState, deviceState
  <2> QED
    BY <1>15, <2>1, MapKept DEF CloseBegin, Goto, discState, callState, threadState
<1>16. CASE CloseEnd
  <2>1. PendingRead'
    BY <1>16 DEF CloseEnd, PendingRead, Failing, callState, threadState, deviceState, TypeInv, ThreadInv, ThreadTypes, ScopeInv
  <2> QED
    BY <1>16, <2>1, MapKept DEF CloseEnd, discState, callState, threadState
<1>17. CASE AfterDiscard
  <2>1. PendingRead'
    BY <1>17 DEF AfterDiscard, ToTop, PendingRead, Failing, callState, threadState, deviceState
  <2>2. ~unobserved /\ ~unobserved' /\ UNCHANGED discState /\ loc' = NoLocals
    BY <1>17 DEF AfterDiscard, ToTop, PendingRead, Failing, callState, threadState, deviceState, discState
  <2> QED
    BY <1>0, <2>1, <2>2, MapNextIteration
<1>18. CASE RequestOpen
  <2>1. PendingRead'
    BY <1>18 DEF RequestOpen, Announce, PendingRead, Failing, callState, threadState, deviceState
  <2> QED
    BY <1>18, <2>1, MapKept DEF RequestOpen, Announce, discState, callState, threadState
<1>19. CASE KeepReader
  <2>1. PendingRead'
    BY <1>19 DEF KeepReader, Goto, PendingRead, Failing, callState, threadState, deviceState
  <2> QED
    BY <1>19, <2>1, MapKept DEF KeepReader, Goto, discState, callState, threadState
<1>20. CASE Admit
  <2>1. PendingRead'
    BY <1>20 DEF Admit, PendingRead, Failing
  <2>2. /\ unobserved' = (op = "read") /\ UNCHANGED <<loc, discGeneration, discMap>>
        /\ attempted' = IF op = "read" /\ loc.disc = discGeneration
                        THEN attempted \cup FramesOf(loc.pos, ReadFrames) ELSE attempted
        /\ ~unobserved
    BY <1>20 DEF Admit, PendingRead, Failing
  <2>3. ReadFrames' = ReadFrames
    BY <2>2 DEF ReadFrames
  <2> QED
    BY <2>1, <2>2, <2>3 DEF MapFacts, MapIsHonest
<1>21. CASE Refuse
  <2>1. PendingRead'
    BY <1>21 DEF Refuse, Goto, PendingRead, Failing, callState, threadState, deviceState
  <2> QED
    BY <1>21, <2>1, MapKept DEF Refuse, Goto, discState, callState, threadState
<1>22. CASE AfterRefusal
  <2>1. PendingRead'
    BY <1>22 DEF AfterRefusal, ToTop, PendingRead, Failing, callState, threadState, deviceState
  <2>2. ~unobserved /\ ~unobserved' /\ UNCHANGED discState /\ loc' = NoLocals
    BY <1>22 DEF AfterRefusal, ToTop, PendingRead, Failing, callState, threadState, deviceState, discState
  <2> QED
    BY <1>0, <2>1, <2>2, MapNextIteration
<1>23. ASSUME NEW res, Return(res) PROVE MapInv'
  <2>1. PendingRead'
    BY <1>23 DEF Return, Results, PendingRead, Failing, callState, threadState, deviceState
  <2> QED
    BY <1>23, <2>1, MapKept DEF Return, Results, discState, callState, threadState
<1>24. CASE AfterOpen
  <2>1. PendingRead'
    BY <1>24 DEF AfterOpen, Goto, CloseThen, PendingRead, Failing, callState, threadState, deviceState
  <2> QED
    BY <1>24, <2>1, MapKept DEF AfterOpen, Goto, CloseThen, discState, callState, threadState
<1>25. CASE CheckOpened
  <2>1. PendingRead'
    BY <1>25 DEF CheckOpened, Goto, CloseThen, ToTop, PendingRead, Failing, callState, threadState, deviceState
  <2>2. UNCHANGED discState /\ (UNCHANGED <<unobserved, loc>> \/ (~unobserved /\ ~unobserved' /\ loc' = NoLocals))
    BY <1>25 DEF CheckOpened, Goto, CloseThen, ToTop, PendingRead, Failing, callState, threadState, deviceState, discState
  <2> QED
    BY <1>0, <2>1, <2>2, MapKept, MapNextIteration
<1>26. CASE RequestSeek
  <2>1. PendingRead'
    BY <1>26 DEF RequestSeek, Announce, PendingRead, Failing, callState, threadState, deviceState
  <2> QED
    BY <1>26, <2>1, MapKept DEF RequestSeek, Announce, discState, callState, threadState
<1>27. CASE AfterSeek
  <2>1. PendingRead'
    BY <1>27 DEF AfterSeek, Goto, PendingRead, Failing, callState, threadState, deviceState
  <2> QED
    BY <1>27, <2>1, MapKept DEF AfterSeek, Goto, discState, callState, threadState
<1>28. CASE LeaveLoop
  <2>1. PendingRead'
    BY <1>28 DEF LeaveLoop, Goto, CloseThen, ToTop, PendingRead, Failing, callState, threadState, deviceState
  <2>2. UNCHANGED discState /\ (UNCHANGED <<unobserved, loc>> \/ (~unobserved /\ ~unobserved' /\ loc' = NoLocals))
    BY <1>28 DEF LeaveLoop, Goto, CloseThen, ToTop, PendingRead, Failing, callState, threadState, deviceState, discState
  <2> QED
    BY <1>0, <2>1, <2>2, MapKept, MapNextIteration
<1>29. CASE RequestRead
  <2>1. PendingRead'
    BY <1>29 DEF RequestRead, Announce, PendingRead, Failing, callState, threadState, deviceState
  <2> QED
    BY <1>29, <2>1, MapKept DEF RequestRead, Announce, discState, callState, threadState
<1>30. CASE AfterRead
  <2>1. PendingRead'
    BY <1>30 DEF AfterRead, PendingRead, Failing
  <2>2. unobserved /\ ~unobserved' /\ UNCHANGED <<loc, discGeneration, attempted>>
    BY <1>30 DEF AfterRead, PendingRead
  <2>3. CASE loc.disc # discGeneration
    BY <1>30, <2>1, <2>2, <2>3 DEF AfterRead, MapFacts, MapIsHonest
  <2>4. CASE loc.disc = discGeneration
    <3> DEFINE frames == FramesOf(loc.pos, ReadFrames)
    <3>1. discMap' \in MapObservations(discMap, discGeneration, loc.pos, ReadFrames) /\ frames \subseteq attempted
      BY <1>30, <2>2, <2>4 DEF AfterRead, MapFacts
    <3>2. \/ discGeneration = 0
          \/ discMap' = discMap /\ ~discMap.complete
          \/ discMap.complete /\ discMap'.frames = discMap.frames \cup frames
          \/ discMap'.frames = discMap.frames /\ ~discMap'.complete
      <4>1. discMap \in Maps
        BY DEF TypeInv, DiscTypes, Maps
      <4> QED
        BY <3>1, <4>1, MapObservationsFrames, Zenon
    <3> HIDE DEF frames
    <3>3. discGeneration # 0 => /\ discMap.frames \subseteq attempted
                                /\ discMap.complete => attempted \subseteq discMap.frames \cup frames
      BY <2>2, <2>4 DEF MapFacts, MapIsHonest, frames
    <3>4. MapIsHonest'
      <4>1. discGeneration # 0 => discMap'.frames \subseteq attempted
        BY <3>1, <3>2, <3>3
      <4>2. discGeneration # 0 /\ discMap'.complete => attempted \subseteq discMap'.frames
        <5> SUFFICES ASSUME discGeneration # 0, discMap'.complete
                     PROVE  attempted \subseteq discMap'.frames
          OBVIOUS
        <5>1. CASE discMap' = discMap /\ ~discMap.complete
          BY <5>1, Zenon
        <5>2. CASE discMap.complete /\ discMap'.frames = discMap.frames \cup frames
          <6>1. attempted \subseteq discMap.frames \cup frames
            BY <3>3, <5>2
          <6> QED
            BY <5>2, <6>1
        <5> QED
          BY <3>2, <5>1, <5>2, Zenon
      <4> QED
        BY <2>2, <4>1, <4>2 DEF MapIsHonest
    <3> QED
      BY <2>1, <2>2, <3>4 DEF MapFacts
  <2> QED
    BY <2>3, <2>4
<1>31. CASE AbandonBlock
  <2>1. PendingRead'
    BY <1>31 DEF AbandonBlock, CloseThen, ToTop, PendingRead, Failing, callState, threadState, deviceState
  <2>2. UNCHANGED discState /\ (UNCHANGED <<unobserved, loc>> \/ (~unobserved /\ ~unobserved' /\ loc' = NoLocals))
    BY <1>31 DEF AbandonBlock, CloseThen, ToTop, PendingRead, Failing, callState, threadState, deviceState, discState
  <2> QED
    BY <1>0, <2>1, <2>2, MapKept, MapNextIteration
<1>32. CASE Push
  <2>1. PendingRead'
    BY <1>32 DEF Push, PendingRead, Failing, callState
  <2>2. ~unobserved /\ ~unobserved' /\ UNCHANGED discState
    BY <1>32 DEF Push, PendingRead, Failing, callState
  <2>3. loc'.disc = loc.disc
    BY <1>32 DEF Push, TypeInv, ThreadInv, ThreadTypes, Locals
  <2> QED
    BY <2>1, <2>2, <2>3, MapNextIteration DEF MapFacts
<1>33. CASE Finish
  <2>1. PendingRead'
    BY <1>33 DEF Finish, ToTop, PendingRead, Failing, callState, threadState, deviceState
  <2>2. ~unobserved /\ ~unobserved' /\ UNCHANGED discState /\ loc' = NoLocals
    BY <1>33 DEF Finish, ToTop, PendingRead, Failing, callState, threadState, deviceState, discState
  <2> QED
    BY <1>0, <2>1, <2>2, MapNextIteration
<1>34. CASE AfterFailure
  <2>1. PendingRead'
    BY <1>34 DEF AfterFailure, ToTop, PendingRead, Failing
  <2>2. /\ ~unobserved' /\ loc' = NoLocals /\ UNCHANGED <<discGeneration, attempted>>
        /\ discMap' = MapAfterFailure
    BY <1>34 DEF AfterFailure, ToTop
  <2>3. MapIsHonest'
    <3>1. CASE unobserved /\ loc.disc = discGeneration
      <4>1. discMap'.frames = discMap.frames /\ ~discMap'.complete
        BY <2>2, <3>1 DEF MapAfterFailure, TypeInv, DiscTypes
      <4> QED
        BY <2>2, <4>1 DEF MapFacts, MapIsHonest
    <3>2. CASE ~(unobserved /\ loc.disc = discGeneration)
      <4>1. discMap' = discMap
        BY <2>2, <3>2 DEF MapAfterFailure
      <4> QED
        BY <2>2, <3>2, <4>1 DEF MapFacts, MapIsHonest
    <3> QED
      BY <3>1, <3>2
  <2> QED
    BY <1>0, <2>1, <2>2, <2>3 DEF MapFacts
<1>35. CASE OtherAcquires \/ OtherReleases
  <2>1. PendingRead'
    BY <1>35 DEF OtherAcquires, OtherReleases, PendingRead, Failing, callState, threadState, deviceState
  <2> QED
    BY <1>35, <2>1, MapKept DEF OtherAcquires, OtherReleases, discState, callState, threadState
<1>36. CASE UNCHANGED vars
  <2>1. PendingRead'
    BY <1>36 DEF vars, PendingRead, Failing, callState, threadState, deviceState
  <2> QED
    BY <1>36, <2>1, MapKept DEF vars, discState, callState, threadState
<1> QED
  BY <1>1, <1>2, <1>3, <1>4, <1>5, <1>6, <1>7, <1>8, <1>9, <1>10, <1>11, <1>12, <1>13, <1>14,
     <1>15, <1>16, <1>17, <1>18, <1>19, <1>20, <1>21, <1>22, <1>23, <1>24, <1>25, <1>26, <1>27,
     <1>28, <1>29, <1>30, <1>31, <1>32, <1>33, <1>34, <1>35, <1>36
  DEF Next, Session, Thread, TakeDrive, DriveReturns

(***************************************************************************)
(* The map of the disc tells of every frame that was read from this disc,  *)
(* but for the one read in progress, and of no frame of another disc,      *)
(* however a failed or superseded read and a change of disc interleave.    *)
(***************************************************************************)
THEOREM MapIsHonestAlways == Spec => []MapIsHonest
<1>1. MapInv => MapIsHonest
  BY DEF MapInv, MapFacts
<1> QED
  BY TypeInit, TypeStep, MapInit, MapStep, <1>1, PTL DEF Spec

-----------------------------------------------------------------------------
(* The stream a consumer sees.                                             *)

\* The labels at which the locals of run() belong to a stream.
InScope == pc \in StreamLabels \/ Failing

\* A read was asked for and its block is not queued yet.
ReadAhead == pc \in {"read", "push"} \/ (pc \in {"request", "call"} /\ op = "read")

\* Blocks of at most loc.block frames follow each block of the queue.
QueueBound == \A i \in 1..Len(queue) : Frontier - queue[i].lba <= (Len(queue) - i + 1) * loc.block

\* The frames that were read well: those before the position, and with a block
\* in hand those of the block.
Covered == FramesOf(begin, (IF pc = "push" THEN loc.pos + ReadFrames ELSE loc.pos) - begin)

\* What is true of a stream that the thread is serving.
Served ==
    /\ loc.end = end
    /\ begin <= loc.pos /\ loc.pos <= loc.end /\ loc.pos = Frontier
    /\ loc.cap = CapacityBlocks(loc.block)
    /\ QueueBound
    /\ ~Failing => diag.failed = 0 /\ diag.coverage = Covered
    /\ ReadAhead => Len(queue) < loc.cap

\* What is true of a stream that the thread has not come to.
Untried == queue = <<>> /\ next = begin /\ diag.failed = 0 /\ diag.coverage = {}

\* Whose stream the thread has in hand: a refused call is never of the current
\* one, and what is finished was read to its end.
Ownership ==
    /\ loc.gen <= generation
    /\ InScope <=> loc.gen # 0
    /\ active => generation # 0
    /\ pc = "retired" => ~Current
    /\ pc = "finish" => StreamRead
    /\ loc.gen # 0 /\ Current => active /\ ~discard

Progress ==
    /\ loc.gen # 0 /\ Current => Served
    /\ active /\ ~Current => Untried

(***************************************************************************)
(* The inductive strengthening of the thread's part of StreamIsHonest: as  *)
(* long as the thread's stream is the current one, the locals of run()     *)
(* tell how far the stream was read and handed over; a stream the thread   *)
(* has not come to is still untouched.                                     *)
(***************************************************************************)
ServeInv == ~closing => Ownership /\ Progress /\ OutcomeIsHonest

\* The inductive part that is about the queue alone.
QueueInv ==
    /\ ~closing =>
        /\ \A i \in 1..Len(queue) : queue[i].generation = generation
        /\ queue # <<>> => Head(queue).lba = next
        /\ \A i \in 1..(Len(queue) - 1) : BlockEnd(queue[i]) = queue[i + 1].lba
    /\ \A i \in 1..Len(queue) : Frontier - queue[i].lba <= Capacity

\* A worker that was just made has no stream.
LEMMA ServeInit == Init => ServeInv
<1> SUFFICES ASSUME Init PROVE Ownership /\ Progress /\ OutcomeIsHonest
  BY DEF ServeInv
<1>1. Ownership
  BY DEF Init, Ownership, InScope, StreamLabels, Failing, NoLocals, Current
<1>2. Progress
  BY DEF Init, Progress, NoLocals
<1>3. OutcomeIsHonest
  BY DEF Init, OutcomeIsHonest
<1> QED
  BY <1>1, <1>2, <1>3

\* The thread goes on to another label that asks nothing more of its stream.
SameStage ==
    /\ InScope' <=> InScope
    /\ Failing => Failing'
    /\ (pc' = "push") <=> (pc = "push")
    /\ ReadAhead' => ReadAhead \/ Len(queue) < loc.cap
    /\ pc' = "retired" => closing \/ ~Current
    /\ pc' = "finish" => closing \/ StreamRead

\* It may do so with the stream and its locals as they are.
LEMMA ServeMove ==
    ASSUME ServeInv, UNCHANGED <<streamState, closing, discard, diag, loc>>, SameStage
    PROVE  ServeInv'
<1> USE DEF SameStage
<1> SUFFICES ASSUME ~closing PROVE Ownership' /\ Progress' /\ OutcomeIsHonest'
  BY DEF ServeInv
<1>1. Ownership'
  BY DEF ServeInv, Ownership, Current, StreamRead, streamState
<1>2. QueueBound' = QueueBound /\ Covered' = Covered /\ Frontier' = Frontier
  <2>1. Frontier' = Frontier
    BY DEF streamState, Frontier
  <2>2. QueueBound' = QueueBound
    BY <2>1 DEF streamState, QueueBound
  <2>3. ReadFrames' = ReadFrames
    BY DEF ReadFrames
  <2>4. Covered' = Covered
    BY <2>3 DEF streamState, Covered
  <2> QED
    BY <2>1, <2>2, <2>4
<1>3. Progress'
  <2>1. loc.gen # 0 /\ Current => Served'
    BY <1>2 DEF ServeInv, Progress, Served, streamState
  <2>2. active /\ ~Current => Untried'
    BY DEF ServeInv, Progress, Untried, streamState
  <2> QED
    BY <2>1, <2>2 DEF Progress, Current, streamState
<1>4. OutcomeIsHonest'
  <2>1. Frontier' = Frontier
    BY <1>2
  <2> QED
    BY <2>1 DEF ServeInv, OutcomeIsHonest, streamState
<1> QED
  BY <1>1, <1>3, <1>4

\* The thread gives up a stream that is not the current one, or none.
LEMMA ServeTop ==
    ASSUME TypeInv, ServeInv, UNCHANGED <<streamState, closing, discard, diag>>,
           pc' = "top", loc' = NoLocals, loc.gen = 0 \/ ~Current
    PROVE  ServeInv'
<1> SUFFICES ASSUME ~closing PROVE Ownership' /\ Progress' /\ OutcomeIsHonest'
  BY DEF ServeInv
<1>1. generation' = generation /\ active' = active /\ loc'.gen = 0 /\ ~InScope' /\ generation \in Nat
  BY WorkerConstants DEF streamState, NoLocals, InScope, StreamLabels, Failing, TypeInv, StreamInv, StreamTypes
<1>2. active => generation # 0 /\ ~Current /\ Untried
  BY DEF ServeInv, Ownership, Progress, Current
<1>3. Ownership'
  BY <1>1, <1>2 DEF Ownership
<1>4. Progress'
  BY <1>1, <1>2 DEF Progress, Untried, streamState
<1>5. OutcomeIsHonest'
  BY DEF ServeInv, OutcomeIsHonest, Frontier, streamState
<1> QED
  BY <1>3, <1>4, <1>5

\* The frontier of an empty queue and of one whose last block is known.
LEMMA FrontierTypes ==
    ASSUME TypeInv
    PROVE  /\ Frontier \in Nat
           /\ queue = <<>> => Frontier = next /\ Len(queue) = 0
           /\ queue # <<>> => Len(queue) \in Nat \ {0} /\ Frontier = BlockEnd(queue[Len(queue)])
           /\ \A i \in 1..Len(queue) : /\ queue[i] \in Blocks /\ queue[i].lba \in Nat
                                       /\ queue[i].frames \in 1..Capacity
                                       /\ BlockEnd(queue[i]) = queue[i].lba + queue[i].frames
<1>1. queue \in Seq(Blocks) /\ next \in Nat /\ Capacity \in Nat /\ LeadOut \in Nat
  BY WorkerConstants DEF TypeInv, StreamInv, StreamTypes
<1>2. \A i \in 1..Len(queue) : /\ queue[i] \in Blocks /\ queue[i].lba \in Nat
                               /\ queue[i].frames \in 1..Capacity
                               /\ BlockEnd(queue[i]) = queue[i].lba + queue[i].frames
  <2> SUFFICES ASSUME NEW i \in 1..Len(queue)
               PROVE  /\ queue[i] \in Blocks /\ queue[i].lba \in Nat
                      /\ queue[i].frames \in 1..Capacity
                      /\ BlockEnd(queue[i]) = queue[i].lba + queue[i].frames
    OBVIOUS
  <2>1. queue[i] \in Blocks
    BY <1>1, ElementOfSeq
  <2> QED
    BY <1>1, <2>1 DEF Blocks, BlockEnd
<1>3. queue # <<>> => Len(queue) \in Nat \ {0}
  BY <1>1, EmptySeq
<1>4. queue # <<>> => BlockEnd(queue[Len(queue)]) \in Nat
  BY <1>1, <1>2, <1>3
<1> QED
  BY <1>1, <1>2, <1>3, <1>4, EmptySeq DEF Frontier

\* What Pop does to the queue: one block less, and the same frontier.
LEMMA PopQueue ==
    ASSUME TypeInv, QueueInv, Pop
    PROVE  /\ Len(queue) \in Nat \ {0} /\ Len(queue') = Len(queue) - 1
           /\ \A i \in 1..Len(queue') : queue'[i] = queue[i + 1]
           /\ queue' # <<>> => Head(queue') = queue'[1] /\ Len(queue') # 0
           /\ next' = BlockEnd(queue[1])
           /\ Frontier' = Frontier
<1>1. queue \in Seq(Blocks) /\ queue # <<>> /\ queue' = Tail(queue) /\ next' = BlockEnd(Head(queue))
  BY DEF Pop, TypeInv, StreamInv, StreamTypes
<1>2. /\ Len(queue) \in Nat \ {0} /\ queue' \in Seq(Blocks) /\ Len(queue') = Len(queue) - 1
      /\ \A i \in 1..Len(queue') : queue'[i] = queue[i + 1]
      /\ Head(queue) = queue[1]
  BY <1>1, HeadTailProperties, EmptySeq
<1>3. queue' # <<>> => Head(queue') = queue'[1] /\ Len(queue') \in Nat \ {0}
  BY <1>2, EmptySeq
<1>4. queue' = <<>> => Len(queue') = 0
  BY EmptySeq
<1>5. Frontier' = Frontier
  <2>1. CASE queue' = <<>>
    <3>1. Len(queue) = 1
      BY <1>2, <1>4, <2>1
    <3> QED
      BY <1>1, <1>2, <2>1, <3>1 DEF Frontier
  <2>2. CASE queue' # <<>>
    <3>1. queue'[Len(queue')] = queue[Len(queue)]
      BY <1>2, <1>3, <2>2
    <3> QED
      BY <1>1, <2>2, <3>1 DEF Frontier, BlockEnd
  <2> QED
    BY <2>1, <2>2
<1> QED
  BY <1>1, <1>2, <1>3, <1>5

\* What Push does to the queue of the current stream.
LEMMA PushQueue ==
    ASSUME TypeInv, ServeInv, Push
    PROVE  /\ Served /\ loc.gen # 0 /\ active /\ ~discard
           /\ ReadFrames \in 1..loc.block /\ loc.pos + ReadFrames <= loc.end /\ loc.pos \in Nat /\ loc.block \in 1..Capacity
           /\ Len(queue) \in Nat /\ Len(queue') = Len(queue) + 1
           /\ \A i \in 1..Len(queue) : queue'[i] = queue[i]
           /\ queue'[Len(queue) + 1] = [generation |-> generation, lba |-> loc.pos, frames |-> ReadFrames]
           /\ Frontier' = loc.pos + ReadFrames
           /\ queue' # <<>> /\ Head(queue') = queue'[1]
<1> DEFINE block == [generation |-> loc.gen, lba |-> loc.pos, frames |-> ReadFrames]
<1>1. /\ ReadFrames \in 1..Capacity /\ loc.pos + ReadFrames <= loc.end /\ loc.pos \in 0..LeadOut
      /\ loc.gen \in 0..(MaxGeneration + 1) /\ loc.block \in 1..Capacity /\ loc.end \in Nat
  BY SMTT(30), ReadFramesType, WorkerConstants DEF Push, TypeInv, ThreadInv, ThreadTypes, ScopeInv, StreamLabels, Locals
<1>2. ReadFrames <= loc.block
  BY <1>1 DEF ReadFrames, MinOf
<1>3. block \in Blocks /\ BlockEnd(block) = loc.pos + ReadFrames /\ loc.gen = generation
  BY <1>1 DEF Blocks, BlockEnd, Push, Current
<1>4. queue \in Seq(Blocks) /\ queue' = Append(queue, block)
  BY DEF Push, TypeInv, StreamInv, StreamTypes
<1>5. loc.gen # 0 /\ Served /\ active /\ ~discard
  BY DEF Push, ServeInv, Ownership, Progress, InScope, StreamLabels
<1> HIDE DEF block
<1>6. /\ Len(queue) \in Nat /\ queue' \in Seq(Blocks) /\ Len(queue') = Len(queue) + 1
      /\ \A i \in 1..Len(queue) : queue'[i] = queue[i]
      /\ queue'[Len(queue) + 1] = block /\ queue' # <<>>
  BY <1>3, <1>4, AppendProperties
<1>7. Head(queue') = queue'[1]
  BY <1>6, HeadTailProperties
<1>8. Frontier' = BlockEnd(block)
  BY <1>6 DEF Frontier, BlockEnd
<1> QED
  BY <1>1, <1>2, <1>3, <1>5, <1>6, <1>7, <1>8 DEF block

\* The bound on what follows a block grows by the block that is added.
LEMMA OneMoreBlock ==
    ASSUME NEW n \in Nat, NEW i \in 1..n, NEW b \in Nat
    PROVE  (n - i + 1) * b + b = ((n + 1) - i + 1) * b
OBVIOUS

\* Fewer blocks than capacity_blocks_, of at most block frames, and one more
\* fit into the buffer.
LEMMA BlocksFit ==
    ASSUME NEW block \in ReadBlocks, NEW n \in Nat, n < CapacityBlocks(block), NEW i \in 1..(n + 1)
    PROVE  ((n + 1) - i + 1) * block <= Capacity
<1>1. block \in Nat \ {0} /\ Capacity \in Nat
  BY WorkerConstants
<1> DEFINE blocks == Capacity \div block
           few == (n + 1) - i + 1
<1>2. blocks \in Nat /\ blocks * block <= Capacity
  BY <1>1
<1>3. few \in Nat /\ few <= blocks /\ blocks - few \in Nat
  BY <1>2 DEF CapacityBlocks
<1> HIDE DEF blocks, few
<1>4. blocks * block = few * block + (blocks - few) * block
  BY <1>1, <1>2, <1>3
<1>5. (blocks - few) * block \in Nat /\ few * block \in Nat
  BY <1>1, <1>3
<1> QED
  BY <1>1, <1>2, <1>4, <1>5 DEF few

\* A block that is queued keeps the bound on what follows each block.
LEMMA PushBound == TypeInv /\ ServeInv /\ Push => QueueBound'
<1> SUFFICES ASSUME TypeInv, ServeInv, Push,
                    NEW i \in 1..Len(queue')
             PROVE  Frontier' - queue'[i].lba <= (Len(queue') - i + 1) * loc'.block
  BY DEF QueueBound
<1>1. /\ QueueBound /\ loc.pos = Frontier /\ ReadFrames \in 1..loc.block /\ loc.pos \in Nat /\ loc.block \in 1..Capacity
      /\ Len(queue) \in Nat /\ Len(queue') = Len(queue) + 1
      /\ \A j \in 1..Len(queue) : queue'[j] = queue[j]
      /\ queue'[Len(queue) + 1] = [generation |-> generation, lba |-> loc.pos, frames |-> ReadFrames]
      /\ Frontier' = loc.pos + ReadFrames
  BY PushQueue DEF Served
<1>2. loc'.block = loc.block
  BY DEF Push, TypeInv, ThreadInv, ThreadTypes, Locals
<1>3. CASE i = Len(queue) + 1
  BY <1>1, <1>2, <1>3
<1>4. CASE i # Len(queue) + 1
  <2>1. i \in 1..Len(queue) /\ queue'[i] = queue[i] /\ queue[i].lba \in Nat
    BY <1>1, <1>4, FrontierTypes
  <2> DEFINE few == (Len(queue) - i + 1) * loc.block
             more == ((Len(queue) + 1) - i + 1) * loc.block
  <2>2. Frontier - queue[i].lba <= few
    BY <1>1, <2>1 DEF QueueBound
  <2>3. loc.block \in Nat
    BY <1>1, WorkerConstants
  <2>4. few + loc.block = more
    BY <1>1, <2>1, <2>3, OneMoreBlock
  <2>5. few \in Int
    BY <1>1, <2>1, <2>3
  <2> HIDE DEF few
  <2>6. Frontier' - queue'[i].lba <= more
    <3> HIDE DEF more
    <3> QED
      BY SMTT(30), <1>1, <2>1, <2>2, <2>3, <2>4, <2>5
  <2> QED
    BY <1>1, <1>2, <2>6
<1> QED
  BY <1>3, <1>4

-----------------------------------------------------------------------------
(* The steps that change a stream.                                         *)

\* Every other step leaves the stream and its queue as they are.
LEMMA StreamChanges ==
    ASSUME [Next]_vars
    PROVE  \/ \E b, e \in 0..LeadOut : Start(b, e)
           \/ Cancel \/ DiscardReader \/ Pop \/ Push \/ Finish \/ AfterFailure \/ Destroy
           \/ UNCHANGED <<streamState, closing>>
<1> USE DEF deviceState
<1>1. CASE Session
  BY <1>1 DEF Session, Reconfigure, SetDiscGeneration, ObserveReleased, PopEvent
<1>2. CASE Sleep("top", WakeTop) \/ Sleep("loop", WakeFull) \/ SeeClosing \/ SeeDiscard \/ SeeStart
  BY <1>2 DEF Sleep, SeeClosing, SeeDiscard, SeeStart
<1>3. CASE CloseNothing \/ CloseEnd \/ AfterDiscard \/ RequestOpen \/ KeepReader \/ AfterRefusal
  BY <1>3 DEF CloseNothing, CloseEnd, AfterDiscard, RequestOpen, KeepReader, AfterRefusal, Announce
<1>4. CASE AfterOpen \/ CheckOpened \/ RequestSeek \/ AfterSeek
  BY <1>4 DEF AfterOpen, CheckOpened, RequestSeek, AfterSeek, Announce
<1>5. CASE LeaveLoop \/ RequestRead \/ AfterRead \/ AbandonBlock
  BY <1>5 DEF LeaveLoop, RequestRead, AfterRead, AbandonBlock, Announce
<1>6. CASE TakeDrive \/ DriveReturns \/ OtherAcquires \/ OtherReleases
  BY <1>6 DEF TakeDrive, CloseBegin, Admit, Refuse, DriveReturns, Return, OtherAcquires, OtherReleases
<1>7. CASE UNCHANGED vars
  BY <1>7 DEF vars
<1> QED
  BY <1>1, <1>2, <1>3, <1>4, <1>5, <1>6, <1>7 DEF Next, Thread

\* A queue that is emptied satisfies what is asked of a queue.
LEMMA QueueEmptied == queue' = <<>> => QueueInv'
<1> SUFFICES ASSUME queue' = <<>> PROVE QueueInv'
  OBVIOUS
<1>1. 1..Len(queue') = {} /\ 1..(Len(queue') - 1) = {}
  BY EmptySeq
<1> QED
  BY <1>1 DEF QueueInv

\* A worker that was just made has queued nothing.
LEMMA QueueInit == Init => QueueInv
<1> SUFFICES ASSUME Init PROVE QueueInv
  OBVIOUS
<1>1. 1..Len(queue) = {} /\ 1..(Len(queue) - 1) = {}
  BY EmptySeq DEF Init
<1> QED
  BY <1>1 DEF QueueInv, Init

\* Every step keeps the queue in order and within the buffer.
LEMMA QueueStep == TypeInv /\ ServeInv /\ QueueInv /\ [Next]_vars => QueueInv'
<1> SUFFICES ASSUME TypeInv, ServeInv, QueueInv, [Next]_vars PROVE QueueInv'
  OBVIOUS
<1>1. CASE UNCHANGED <<streamState, closing>>
  BY <1>1 DEF QueueInv, streamState, Frontier
<1>2. CASE (\E b, e \in 0..LeadOut : Start(b, e)) \/ Cancel \/ DiscardReader
  BY <1>2, QueueEmptied DEF Start, Cancel, DiscardReader, RetireStream
<1>3. CASE AfterFailure
  <2>1. CASE queue' = <<>>
    BY <2>1, QueueEmptied
  <2>2. CASE queue' # <<>>
    <3>1. UNCHANGED <<generation, queue, next, closing>>
      BY <1>3, <2>2 DEF AfterFailure
    <3> QED
      BY <3>1 DEF QueueInv, Frontier
  <2> QED
    BY <2>1, <2>2
<1>4. CASE Finish
  BY <1>4 DEF Finish, QueueInv, Frontier, deviceState
<1>5. CASE Destroy
  <2>1. closing' /\ UNCHANGED <<queue, next>>
    BY <1>5 DEF Destroy
  <2> QED
    BY <2>1 DEF QueueInv, Frontier
<1>6. CASE Pop
  <2>1. /\ Len(queue) \in Nat \ {0} /\ Len(queue') = Len(queue) - 1 /\ Frontier' = Frontier
        /\ \A i \in 1..Len(queue') : queue'[i] = queue[i + 1]
        /\ queue' # <<>> => Head(queue') = queue'[1] /\ Len(queue') # 0
        /\ next' = BlockEnd(queue[1]) /\ generation' = generation /\ ~closing
    BY <1>6, PopQueue DEF Pop
  <2>2. \A i \in 1..Len(queue') : Frontier' - queue'[i].lba <= Capacity
    BY <2>1 DEF QueueInv
  <2>3. \A i \in 1..Len(queue') : queue'[i].generation = generation'
    BY <2>1 DEF QueueInv
  <2>4. \A i \in 1..(Len(queue') - 1) : BlockEnd(queue'[i]) = queue'[i + 1].lba
    BY <2>1 DEF QueueInv
  <2>5. queue' # <<>> => Head(queue').lba = next'
    BY <2>1 DEF QueueInv
  <2> QED
    BY <2>2, <2>3, <2>4, <2>5 DEF QueueInv, BlockEnd
<1>7. CASE Push
  <2>1. /\ Served /\ ReadFrames \in 1..loc.block /\ loc.pos \in Nat /\ loc.block \in 1..Capacity
        /\ Len(queue) \in Nat /\ Len(queue') = Len(queue) + 1
        /\ \A i \in 1..Len(queue) : queue'[i] = queue[i]
        /\ queue'[Len(queue) + 1] = [generation |-> generation, lba |-> loc.pos, frames |-> ReadFrames]
        /\ Frontier' = loc.pos + ReadFrames /\ Head(queue') = queue'[1]
    BY <1>7, PushQueue
  <2>2. ~closing /\ generation' = generation /\ next' = next /\ closing' = closing
    BY <1>7 DEF Push, deviceState
  <2>3. \A i \in 1..Len(queue') : queue'[i].generation = generation'
    BY SMTT(30), <2>1, <2>2 DEF QueueInv
  <2>4. Head(queue').lba = next'
    <3>1. CASE queue = <<>>
      BY <2>1, <2>2, <3>1, FrontierTypes DEF Served
    <3>2. CASE queue # <<>>
      <4>1. Head(queue) = queue[1] /\ 1 \in 1..Len(queue)
        BY <3>2, FrontierTypes
      <4> QED
        BY <2>1, <2>2, <3>2, <4>1 DEF QueueInv
    <3> QED
      BY <3>1, <3>2
  <2>5. \A i \in 1..(Len(queue') - 1) : BlockEnd(queue'[i]) = queue'[i + 1].lba
    <3> SUFFICES ASSUME NEW i \in 1..(Len(queue') - 1) PROVE BlockEnd(queue'[i]) = queue'[i + 1].lba
      OBVIOUS
    <3>1. CASE i = Len(queue)
      <4>1. BlockEnd(queue[i]) = loc.pos
        BY <2>1, <3>1, FrontierTypes DEF Served
      <4> QED
        BY <2>1, <3>1, <4>1
    <3>2. CASE i # Len(queue)
      BY SMTT(30), <2>1, <2>2, <3>2 DEF QueueInv
    <3> QED
      BY <3>1, <3>2
  <2>6. \A i \in 1..Len(queue') : Frontier' - queue'[i].lba <= Capacity
    <3>1. QueueBound'
      BY <1>7, PushBound
    <3> SUFFICES ASSUME NEW i \in 1..Len(queue') PROVE Frontier' - queue'[i].lba <= Capacity
      OBVIOUS
    <3>2. loc'.block = loc.block /\ loc.block \in ReadBlocks /\ Len(queue) < CapacityBlocks(loc.block)
      BY <1>7, <2>1 DEF Push, Served, ReadAhead, TypeInv, ThreadInv, ThreadTypes, ScopeInv, StreamLabels, Locals
    <3>3. Frontier' - queue'[i].lba <= ((Len(queue) + 1) - i + 1) * loc.block
      BY <2>1, <3>1, <3>2 DEF QueueBound
    <3>4. ((Len(queue) + 1) - i + 1) * loc.block <= Capacity
      BY <2>1, <3>2, BlocksFit
    <3>5. queue'[i].lba \in Nat /\ Frontier' \in Nat /\ loc.block \in Nat /\ Capacity \in Nat
      <4>1. Frontier' \in Nat /\ loc.block \in Nat /\ Capacity \in Nat
        BY <2>1, WorkerConstants
      <4>2. CASE i = Len(queue) + 1
        BY <2>1, <4>1, <4>2
      <4>3. CASE i # Len(queue) + 1
        <5>1. i \in 1..Len(queue) /\ queue'[i] = queue[i]
          BY <2>1, <4>3
        <5>2. queue[i].lba \in Nat
          BY <5>1, FrontierTypes
        <5> QED
          BY <4>1, <5>1, <5>2
      <4> QED
        BY <4>2, <4>3
    <3>6. ((Len(queue) + 1) - i + 1) * loc.block \in Int
      BY <2>1, <3>5
    <3> QED
      BY SMTT(30), <3>3, <3>4, <3>5, <3>6
  <2> QED
    BY <2>2, <2>3, <2>4, <2>5, <2>6 DEF QueueInv, BlockEnd
<1> QED
  BY <1>1, <1>2, <1>3, <1>4, <1>5, <1>6, <1>7, StreamChanges

\* Every step of the session, the thread and the drive keeps the thread and the
\* stream it serves in step.
LEMMA ServeStep == TypeInv /\ QueueInv /\ ServeInv /\ [Next]_vars => ServeInv'
<1> SUFFICES ASSUME TypeInv, QueueInv, ServeInv, [Next]_vars PROVE ServeInv'
  OBVIOUS
<1>0. /\ generation \in Nat /\ loc.gen \in Nat
      /\ op \in {"none", "open", "seek", "read"} /\ after \in {"top", "exit", "discarded", "failed"}
      /\ pc \in {"close", "closing"} => after # "top"
      /\ ~closing => Ownership /\ Progress /\ OutcomeIsHonest
  BY WorkerConstants DEF TypeInv, StreamInv, StreamTypes, ThreadInv, ThreadTypes, ScopeInv, Locals, ServeInv
<1>00. ASSUME UNCHANGED closing, closing PROVE ServeInv'
  BY <1>00 DEF ServeInv
<1>1. ASSUME NEW b \in 0..LeadOut, NEW e \in 0..LeadOut, Start(b, e) PROVE ServeInv'
  <2>1. /\ generation' = generation + 1 /\ UNCHANGED <<closing, pc, op, after, loc>> /\ ~closing
        /\ queue' = <<>> /\ done' = FALSE /\ error' = FALSE /\ diag' = EmptyDiag
        /\ (active' /\ next' = begin') \/ ~active'
    BY <1>1 DEF Start, Wakes, deviceState, callState
  <2>2. ~Current'
    BY <1>0, <2>1 DEF Ownership, Current
  <2>3. Ownership'
    BY <1>0, <2>1, <2>2 DEF Ownership, InScope, Failing, StreamRead
  <2>4. Progress'
    BY <2>1, <2>2 DEF Progress, Untried, EmptyDiag
  <2>5. OutcomeIsHonest'
    BY <2>1 DEF OutcomeIsHonest
  <2> QED
    BY <2>3, <2>4, <2>5 DEF ServeInv
<1>2. CASE Cancel \/ DiscardReader
  <2>1. /\ generation' = generation + 1 /\ UNCHANGED <<closing, pc, op, after, loc>> /\ ~closing
        /\ queue' = <<>> /\ done' = FALSE /\ error' = FALSE /\ diag' = EmptyDiag
        /\ (active' /\ next' = begin') \/ ~active'
    BY <1>2 DEF Cancel, DiscardReader, RetireStream, Wakes, deviceState, callState
  <2>2. ~Current'
    BY <1>0, <2>1 DEF Ownership, Current
  <2>3. Ownership'
    BY <1>0, <2>1, <2>2 DEF Ownership, InScope, Failing, StreamRead
  <2>4. Progress'
    BY <2>1, <2>2 DEF Progress, Untried, EmptyDiag
  <2>5. OutcomeIsHonest'
    BY <2>1 DEF OutcomeIsHonest
  <2> QED
    BY <2>3, <2>4, <2>5 DEF ServeInv
<1>3. ASSUME NEW block \in ReadBlocks, Reconfigure(block) PROVE ServeInv'
  <2>1. UNCHANGED <<streamState, closing, diag, pc, op, after, loc>> /\ ~closing /\ ~active
    BY <1>3 DEF Reconfigure, Wakes, callState, diagState
  <2>2. ~(loc.gen # 0 /\ Current)
    BY <1>0, <2>1 DEF Ownership
  <2>3. Ownership'
    BY <1>0, <2>1, <2>2 DEF Ownership, InScope, Failing, Current, StreamRead, streamState
  <2>4. Progress' /\ OutcomeIsHonest'
    BY <1>0, <2>1, <2>2 DEF Progress, Current, OutcomeIsHonest, Frontier, streamState
  <2> QED
    BY <2>3, <2>4 DEF ServeInv
<1>4. CASE SetDiscGeneration
  <2>1. UNCHANGED <<streamState, closing, discard, diag, loc>>
    BY <1>4 DEF SetDiscGeneration, deviceState, threadState, callState, diagState
  <2>2. SameStage
    BY <1>4, <1>0 DEF SameStage, SetDiscGeneration, InScope, StreamLabels, Failing, ReadAhead, StreamRead, deviceState, threadState, callState, diagState, Ownership
  <2> QED
    BY <2>1, <2>2, ServeMove
<1>5. CASE ObserveReleased
  <2>1. UNCHANGED <<streamState, closing, discard, diag, loc>>
    BY <1>5 DEF ObserveReleased, deviceState, threadState, callState, diagState
  <2>2. SameStage
    BY <1>5, <1>0 DEF SameStage, ObserveReleased, InScope, StreamLabels, Failing, ReadAhead, StreamRead, deviceState, threadState, callState, diagState, Ownership
  <2> QED
    BY <2>1, <2>2, ServeMove
<1>6. CASE Pop
  <2>1. /\ UNCHANGED <<generation, begin, end, active, done, error, diag, closing, discard, pc, op, after, loc>>
        /\ queue # <<>> /\ ~closing
    BY <1>6 DEF Pop, Wakes, callState, deviceState, diagState
  <2>2. /\ Len(queue) \in Nat \ {0} /\ Len(queue') = Len(queue) - 1 /\ Frontier' = Frontier
        /\ \A i \in 1..Len(queue') : queue'[i] = queue[i + 1]
    BY <1>6, PopQueue
  <2>3. Ownership'
    BY <1>0, <2>1 DEF Ownership, InScope, Failing, Current, StreamRead
  <2>4. ASSUME loc.gen # 0, Current PROVE Served'
    <3>1. Served /\ loc \in Locals
      BY <1>0, <2>1, <2>4 DEF Progress, TypeInv, ThreadInv, ThreadTypes
    <3>2. QueueBound'
      <4> SUFFICES ASSUME NEW i \in 1..Len(queue')
                   PROVE  Frontier' - queue'[i].lba <= (Len(queue') - i + 1) * loc'.block
        BY DEF QueueBound
      <4>1. i + 1 \in 1..Len(queue) /\ Len(queue') - i + 1 = Len(queue) - (i + 1) + 1
        BY <2>2
      <4> QED
        BY <2>1, <2>2, <3>1, <4>1 DEF Served, QueueBound
    <3>3. Covered' = Covered
      BY <2>1 DEF Covered, ReadFrames
    <3>4. loc.cap \in Int
      BY <3>1, WorkerConstants DEF Locals
    <3> QED
      BY <2>1, <2>2, <3>1, <3>2, <3>3, <3>4 DEF Served, Failing, ReadAhead
  <2>5. Progress'
    BY <1>0, <2>1, <2>4 DEF Progress, Untried, Current
  <2>6. OutcomeIsHonest'
    BY <1>0, <2>1, <2>2 DEF OutcomeIsHonest
  <2> QED
    BY <2>3, <2>5, <2>6 DEF ServeInv
<1>7. CASE PopEvent
  <2>1. /\ UNCHANGED <<streamState, closing, discard, pc, op, after, loc>>
        /\ diag'.failed = diag.failed /\ diag'.coverage = diag.coverage /\ ~closing
    BY <1>7 DEF PopEvent, deviceState, threadState, callState, TypeInv, DiagTypes, Diagnostics
  <2>2. Frontier' = Frontier /\ QueueBound' = QueueBound /\ Covered' = Covered
    BY <2>1 DEF Frontier, QueueBound, Covered, ReadFrames, streamState
  <2>3. Ownership'
    BY <1>0, <2>1 DEF Ownership, InScope, Failing, Current, StreamRead, streamState
  <2>4. Progress'
    BY <1>0, <2>1, <2>2 DEF Progress, Served, Untried, Current, Failing, ReadAhead, streamState
  <2>5. OutcomeIsHonest'
    BY <1>0, <2>1, <2>2 DEF OutcomeIsHonest, streamState
  <2> QED
    BY <2>3, <2>4, <2>5 DEF ServeInv
<1>8. CASE Destroy
  BY <1>8 DEF Destroy, ServeInv
<1>9. CASE Sleep("top", WakeTop) \/ Sleep("loop", WakeFull)
  <2>1. UNCHANGED <<streamState, closing, discard, diag, loc>>
    BY <1>9 DEF Sleep, deviceState, threadState, callState, diagState
  <2>2. SameStage
    BY <1>9, <1>0 DEF SameStage, Sleep, InScope, StreamLabels, Failing, ReadAhead, StreamRead, deviceState, threadState, callState, diagState, Ownership
  <2> QED
    BY <2>1, <2>2, ServeMove
<1>10. CASE SeeClosing
  BY <1>10, <1>00 DEF SeeClosing, deviceState
<1>11. CASE SeeDiscard
  <2>1. /\ UNCHANGED <<streamState, closing, diag, loc>> /\ discard' = FALSE
        /\ pc = "top" /\ pc' = "close" /\ after' = "discarded"
    BY <1>11 DEF SeeDiscard, CloseThen, diagState
  <2>2. ASSUME ~closing PROVE loc.gen = 0 /\ ~InScope' /\ ~InScope
    BY <1>0, <2>1, <2>2 DEF InScope, StreamLabels, Failing, Ownership
  <2>3. ASSUME ~closing PROVE Ownership' /\ Progress' /\ OutcomeIsHonest'
    <3>1. Ownership'
      BY <1>0, <2>1, <2>2, <2>3 DEF Ownership, streamState
    <3>2. Progress' /\ OutcomeIsHonest'
      BY <1>0, <2>1, <2>2, <2>3 DEF Progress, Untried, Current, OutcomeIsHonest, Frontier, streamState
    <3> QED
      BY <3>1, <3>2
  <2> QED
    BY <2>1, <2>3 DEF ServeInv
<1>12. CASE SeeStart
  <2>1. /\ UNCHANGED <<streamState, closing, discard, diag, after, op>> /\ ~closing /\ ~discard /\ active
        /\ pc = "top" /\ pc' = "begin"
        /\ loc'.gen = generation /\ loc'.pos = begin /\ loc'.end = end
        /\ loc'.cap = CapacityBlocks(loc'.block)
    BY <1>12 DEF SeeStart, deviceState, diagState, callState
  <2>2. loc.gen = 0 /\ generation # 0 /\ ~Current
    BY <1>0, <2>1 DEF InScope, StreamLabels, Failing, Ownership, Current
  <2>3. queue = <<>> /\ next = begin /\ diag.failed = 0 /\ diag.coverage = {} /\ Frontier = begin
    BY <1>0, <2>1, <2>2 DEF Progress, Untried, Frontier
  <2>4. Frontier' = begin /\ Current' /\ InScope' /\ ~ReadAhead' /\ begin \in Nat
    BY <2>1, <2>3, WorkerConstants
    DEF Frontier, streamState, Current, InScope, StreamLabels, ReadAhead, TypeInv, StreamInv, StreamTypes
  <2>5. QueueBound'
    <3>1. 1..Len(queue') = {}
      BY <2>1, <2>3, EmptySeq DEF streamState
    <3> QED
      BY <3>1 DEF QueueBound
  <2>6. Covered' = {}
    BY <2>1, <2>4 DEF Covered, FramesOf, streamState
  <2>7. Served'
    BY <2>1, <2>3, <2>4, <2>5, <2>6 DEF Served, streamState, TypeInv, StreamInv, RangeOrdered
  <2>8. Ownership' /\ Progress'
    BY <1>0, <2>1, <2>2, <2>4, <2>7 DEF Ownership, Progress, streamState
  <2>9. OutcomeIsHonest'
    BY <1>0, <2>1 DEF OutcomeIsHonest, Frontier, streamState
  <2> QED
    BY <2>8, <2>9 DEF ServeInv
<1>13. CASE CloseNothing
  <2>1. UNCHANGED <<streamState, closing, discard, diag, loc>>
    BY <1>13 DEF CloseNothing, Goto, deviceState, threadState, callState, diagState
  <2>2. SameStage
    BY <1>13, <1>0 DEF SameStage, CloseNothing, Goto, InScope, StreamLabels, Failing, ReadAhead, StreamRead, deviceState, threadState, callState, diagState, Ownership
  <2> QED
    BY <2>1, <2>2, ServeMove
<1>14. CASE CloseBegin
  <2>1. UNCHANGED <<streamState, closing, discard, diag, loc>>
    BY <1>14 DEF CloseBegin, Goto, deviceState, threadState, callState, diagState
  <2>2. SameStage
    BY <1>14, <1>0 DEF SameStage, CloseBegin, Goto, InScope, StreamLabels, Failing, ReadAhead, StreamRead, deviceState, threadState, callState, diagState, Ownership
  <2> QED
    BY <2>1, <2>2, ServeMove
<1>15. CASE CloseEnd
  <2>1. UNCHANGED <<streamState, closing, discard, diag, loc>>
    BY <1>15 DEF CloseEnd, deviceState, threadState, callState, diagState
  <2>2. SameStage
    BY <1>15, <1>0 DEF SameStage, CloseEnd, InScope, StreamLabels, Failing, ReadAhead, StreamRead, deviceState, threadState, callState, diagState, Ownership
  <2> QED
    BY <2>1, <2>2, ServeMove
<1>16. CASE AfterDiscard
  <2>1. UNCHANGED <<streamState, closing, discard, diag>> /\ pc' = "top" /\ loc' = NoLocals
    BY <1>16 DEF AfterDiscard, ToTop, deviceState, threadState, callState, diagState
  <2>2. ~closing => loc.gen = 0 \/ ~Current
    BY <1>16, <1>0 DEF AfterDiscard, ToTop, InScope, StreamLabels, Failing, ReadAhead, StreamRead, Ownership
  <2> QED
    BY <1>00, <2>1, <2>2, ServeTop
<1>17. CASE RequestOpen
  <2>1. UNCHANGED <<streamState, closing, discard, diag, loc>>
    BY <1>17 DEF RequestOpen, Announce, deviceState, threadState, callState, diagState
  <2>2. SameStage
    BY <1>17, <1>0 DEF SameStage, RequestOpen, Announce, InScope, StreamLabels, Failing, ReadAhead, StreamRead, deviceState, threadState, callState, diagState, Ownership
  <2> QED
    BY <2>1, <2>2, ServeMove
<1>18. CASE KeepReader
  <2>1. UNCHANGED <<streamState, closing, discard, diag, loc>>
    BY <1>18 DEF KeepReader, Goto, deviceState, threadState, callState, diagState
  <2>2. SameStage
    BY <1>18, <1>0 DEF SameStage, KeepReader, Goto, InScope, StreamLabels, Failing, ReadAhead, StreamRead, deviceState, threadState, callState, diagState, Ownership
  <2> QED
    BY <2>1, <2>2, ServeMove
<1>19. CASE Admit
  <2>1. UNCHANGED <<streamState, closing, discard, diag, loc>>
    BY <1>19 DEF Admit, deviceState, threadState, callState, diagState
  <2>2. SameStage
    BY <1>19, <1>0 DEF SameStage, Admit, InScope, StreamLabels, Failing, ReadAhead, StreamRead, deviceState, threadState, callState, diagState, Ownership
  <2> QED
    BY <2>1, <2>2, ServeMove
<1>20. CASE Refuse
  <2>1. UNCHANGED <<streamState, closing, discard, diag, loc>> /\ pc = "request" /\ pc' = "retired"
    BY <1>20 DEF Refuse, Goto, deviceState, diagState
  <2>2. ~closing => ~Current
    BY <1>20, <1>0 DEF Refuse, Retired, Ownership, InScope, StreamLabels
  <2>3. ~closing => SameStage
    BY <2>1, <2>2 DEF SameStage, InScope, StreamLabels, Failing, ReadAhead
  <2> QED
    BY <1>00, <2>1, <2>2, <2>3, ServeMove
<1>21. CASE AfterRefusal
  <2>1. UNCHANGED <<streamState, closing, discard, diag>> /\ pc' = "top" /\ loc' = NoLocals
    BY <1>21 DEF AfterRefusal, ToTop, deviceState, threadState, callState, diagState
  <2>2. ~closing => loc.gen = 0 \/ ~Current
    BY <1>21, <1>0 DEF AfterRefusal, ToTop, InScope, StreamLabels, Failing, ReadAhead, StreamRead, Ownership
  <2> QED
    BY <1>00, <2>1, <2>2, ServeTop
<1>22. ASSUME NEW res, Return(res) PROVE ServeInv'
  <2>1. UNCHANGED <<streamState, closing, discard, diag, loc>>
    BY <1>22 DEF Return, Results, deviceState, threadState, callState, diagState
  <2>2. SameStage
    BY <1>22, <1>0 DEF SameStage, Return, Results, InScope, StreamLabels, Failing, ReadAhead, StreamRead, deviceState, threadState, callState, diagState, Ownership
  <2> QED
    BY <2>1, <2>2, ServeMove
<1>23. CASE AfterOpen
  <2>1. UNCHANGED <<streamState, closing, discard, diag, loc>>
    BY <1>23 DEF AfterOpen, Goto, CloseThen, deviceState, threadState, callState, diagState
  <2>2. SameStage
    BY <1>23, <1>0 DEF SameStage, AfterOpen, Goto, CloseThen, InScope, StreamLabels, Failing, ReadAhead, StreamRead, deviceState, threadState, callState, diagState, Ownership
  <2> QED
    BY <2>1, <2>2, ServeMove
<1>24. CASE CheckOpened
  <2>1. UNCHANGED <<streamState, closing, discard, diag>>
    BY <1>24 DEF CheckOpened, Goto, CloseThen, ToTop, deviceState, threadState, callState, diagState
  <2>2. CASE closing
    BY <1>00, <2>1, <2>2
  <2>3. CASE ~closing /\ ~Current /\ pc' = "top" /\ loc' = NoLocals
    BY <2>1, <2>3, ServeTop
  <2>4. CASE ~closing /\ loc' = loc /\ InScope /\ pc' \in {"positioned", "finish"}
    <3>1. SameStage
      BY <1>24, <2>4 DEF SameStage, CheckOpened, Goto, CloseThen, ToTop, InScope, StreamLabels, Failing, ReadAhead, StreamRead
    <3> QED
      BY <2>1, <2>4, <3>1, ServeMove
  <2> QED
    BY <1>24, <2>2, <2>3, <2>4 DEF CheckOpened, Goto, CloseThen, ToTop, InScope, StreamLabels, Failing, ReadAhead, StreamRead
<1>25. CASE RequestSeek
  <2>1. UNCHANGED <<streamState, closing, discard, diag, loc>>
    BY <1>25 DEF RequestSeek, Announce, deviceState, threadState, callState, diagState
  <2>2. SameStage
    BY <1>25, <1>0 DEF SameStage, RequestSeek, Announce, InScope, StreamLabels, Failing, ReadAhead, StreamRead, deviceState, threadState, callState, diagState, Ownership
  <2> QED
    BY <2>1, <2>2, ServeMove
<1>26. CASE AfterSeek
  <2>1. UNCHANGED <<streamState, closing, discard, diag, loc>>
    BY <1>26 DEF AfterSeek, Goto, deviceState, threadState, callState, diagState
  <2>2. SameStage
    BY <1>26, <1>0 DEF SameStage, AfterSeek, Goto, InScope, StreamLabels, Failing, ReadAhead, StreamRead, deviceState, threadState, callState, diagState, Ownership
  <2> QED
    BY <2>1, <2>2, ServeMove
<1>27. CASE LeaveLoop
  <2>1. UNCHANGED <<streamState, closing, discard, diag>>
    BY <1>27 DEF LeaveLoop, Goto, CloseThen, ToTop, deviceState, threadState, callState, diagState
  <2>2. CASE closing
    BY <1>00, <2>1, <2>2
  <2>3. CASE ~closing /\ ~Current /\ pc' = "top" /\ loc' = NoLocals
    BY <2>1, <2>3, ServeTop
  <2>4. CASE ~closing /\ loc' = loc /\ InScope /\ pc' \in {"positioned", "finish"}
    <3>1. SameStage
      BY <1>27, <2>4 DEF SameStage, LeaveLoop, Goto, CloseThen, ToTop, InScope, StreamLabels, Failing, ReadAhead, StreamRead
    <3> QED
      BY <2>1, <2>4, <3>1, ServeMove
  <2> QED
    BY <1>27, <2>2, <2>3, <2>4 DEF LeaveLoop, Goto, CloseThen, ToTop, InScope, StreamLabels, Failing, ReadAhead, StreamRead
<1>28. CASE RequestRead
  <2>1. UNCHANGED <<streamState, closing, discard, diag, loc>>
    BY <1>28 DEF RequestRead, Announce, deviceState, threadState, callState, diagState
  <2>2. SameStage
    BY <1>28, <1>0 DEF SameStage, RequestRead, Announce, InScope, StreamLabels, Failing, ReadAhead, StreamRead, deviceState, threadState, callState, diagState, Ownership
  <2> QED
    BY <2>1, <2>2, ServeMove
<1>29. CASE AfterRead
  <2>1. /\ UNCHANGED <<streamState, closing, discard, loc>> /\ pc = "read" /\ ~Failing /\ InScope /\ ReadAhead
        /\ (pc' = "push" /\ result # "bad") \/ (pc' = "close" /\ after' = "failed")
        /\ diag' = IF Current THEN Observed(diag, loc.gen, loc.pos, ReadFrames, result) ELSE diag
    BY <1>29 DEF AfterRead, Accepted, deviceState, diagState, Failing, InScope, StreamLabels, ReadAhead
  <2>2. Frontier' = Frontier /\ QueueBound' = QueueBound /\ ReadFrames' = ReadFrames
    <3>1. Frontier' = Frontier
      BY <2>1 DEF Frontier, streamState
    <3> QED
      BY <2>1, <3>1 DEF QueueBound, ReadFrames, streamState
  <2>3. InScope' /\ (Failing' \/ pc' = "push") /\ ~(Failing' /\ pc' = "push") /\ (ReadAhead' => ReadAhead)
    BY <2>1 DEF InScope, StreamLabels, Failing, ReadAhead
  <2>4. ASSUME ~closing PROVE Ownership'
    BY <1>0, <2>1, <2>3, <2>4 DEF Ownership, Current, streamState
  <2>5. ASSUME ~closing, Current PROVE Served'
    <3>1. Served /\ loc.gen # 0 /\ loc.pos < loc.end
      BY <1>0, <2>1, <2>5 DEF Ownership, Progress, TypeInv, ThreadInv, ScopeInv
    <3>2. CASE pc' # "push"
      BY <2>1, <2>2, <2>3, <3>1, <3>2 DEF Served, streamState
    <3>3. CASE pc' = "push"
      <4>1. result # "bad"
        BY <2>1, <3>3
      <4>2. diag.failed = 0 /\ diag.coverage = FramesOf(begin, loc.pos - begin)
        BY <2>1, <3>1 DEF Served, Covered
      <4>3. diag'.failed = 0 /\ diag'.coverage = diag.coverage \cup FramesOf(loc.pos, ReadFrames)
        BY <2>1, <2>5, <4>1, <4>2 DEF Observed
      <4>4. Covered' = FramesOf(begin, (loc.pos + ReadFrames) - begin)
        BY <2>1, <2>2, <3>3 DEF Covered, streamState
      <4>5. FramesOf(begin, loc.pos - begin) \cup FramesOf(loc.pos, ReadFrames)
            = FramesOf(begin, (loc.pos + ReadFrames) - begin)
        <5>1. begin \in Nat /\ loc.pos \in Nat /\ begin <= loc.pos /\ ReadFrames \in Nat
          BY <2>1, <3>1, ReadFramesType, WorkerConstants
          DEF Served, TypeInv, StreamInv, StreamTypes, StreamLabels
        <5> QED
          BY <5>1 DEF FramesOf
      <4> QED
        BY <2>1, <2>2, <2>3, <3>1, <4>2, <4>3, <4>4, <4>5 DEF Served, streamState
    <3> QED
      BY <3>2, <3>3
  <2>6. ASSUME ~closing PROVE Progress'
    <3>1. Current' = Current /\ loc.gen # 0
      BY <1>0, <2>1, <2>6 DEF Current, Ownership, streamState
    <3>2. CASE Current
      BY <2>1, <2>5, <2>6, <3>1, <3>2 DEF Progress
    <3>3. CASE ~Current
      BY <1>0, <2>1, <2>6, <3>1, <3>3 DEF Progress, Untried, streamState
    <3> QED
      BY <3>2, <3>3
  <2>7. ASSUME ~closing PROVE OutcomeIsHonest'
    <3>1. CASE ~Current
      BY <1>0, <2>1, <2>2, <2>7, <3>1 DEF OutcomeIsHonest, streamState
    <3>2. CASE Current
      <4>1. active /\ ~done
        BY <1>0, <2>1, <2>7, <3>2 DEF Ownership, OutcomeIsHonest
      <4> QED
        BY <1>0, <2>1, <2>7, <4>1 DEF OutcomeIsHonest, streamState
    <3> QED
      BY <3>1, <3>2
  <2> QED
    BY <2>1, <2>4, <2>6, <2>7 DEF ServeInv
<1>30. CASE AbandonBlock
  <2>1. UNCHANGED <<streamState, closing, discard, diag>>
    BY <1>30 DEF AbandonBlock, deviceState, diagState
  <2>2. CASE closing
    BY <1>00, <2>1, <2>2
  <2>3. CASE ~closing
    BY <1>30, <2>1, <2>3, ServeTop DEF AbandonBlock, ToTop
  <2> QED
    BY <2>2, <2>3
<1>31. CASE Push
  <2>1. /\ Served /\ loc.gen # 0 /\ active /\ ~discard
        /\ ReadFrames \in 1..loc.block /\ loc.pos \in Nat /\ loc.block \in 1..Capacity
        /\ loc.pos + ReadFrames <= loc.end /\ Frontier' = loc.pos + ReadFrames
    BY <1>31, PushQueue
  <2>2. /\ UNCHANGED <<generation, begin, end, active, done, error, next, diag, closing, discard>>
        /\ pc = "push" /\ pc' = "loop" /\ ~closing /\ Current /\ ~Failing /\ ~Failing' /\ InScope /\ InScope' /\ ~ReadAhead'
    BY <1>31 DEF Push, deviceState, diagState, InScope, StreamLabels, Failing, ReadAhead
  <2>3. /\ loc'.gen = loc.gen /\ loc'.pos = loc.pos + ReadFrames /\ loc'.end = loc.end
        /\ loc'.cap = loc.cap /\ loc'.block = loc.block
    BY <1>31 DEF Push, TypeInv, ThreadInv, ThreadTypes, Locals
  <2>4. QueueBound'
    BY <1>31, PushBound
  <2>5. Covered' = Covered
    BY <2>2, <2>3 DEF Covered
  <2>6. begin \in Nat /\ begin <= loc'.pos
    BY <2>1, <2>3, WorkerConstants DEF Served, TypeInv, StreamInv, StreamTypes
  <2>7. Served'
    BY <2>1, <2>2, <2>3, <2>4, <2>5, <2>6 DEF Served
  <2>8. Ownership' /\ Progress'
    BY <1>0, <2>1, <2>2, <2>3, <2>7 DEF Ownership, Progress, Current
  <2>9. OutcomeIsHonest'
    BY <1>0, <2>1, <2>2 DEF OutcomeIsHonest
  <2> QED
    BY <2>8, <2>9 DEF ServeInv
<1>32. CASE Finish
  <2>1. UNCHANGED <<closing, discard, diag, generation, begin, end, error, queue, next>>
        /\ pc = "finish" /\ pc' = "top" /\ loc' = NoLocals
    BY <1>32 DEF Finish, ToTop, deviceState
  <2>2. CASE closing
    BY <1>00, <2>1, <2>2
  <2>3. CASE ~closing /\ ~Current
    <3>1. UNCHANGED streamState
      BY <1>32, <2>1, <2>3 DEF Finish, streamState
    <3> QED
      BY <2>1, <2>3, <3>1, ServeTop
  <2>4. CASE ~closing /\ Current
    <3>1. active' = FALSE /\ done' = TRUE
      BY <1>32, <2>4 DEF Finish
    <3>2. loc.gen # 0 /\ active /\ Served /\ ~Failing
      BY <1>0, <2>1, <2>4 DEF Ownership, Progress, InScope, StreamLabels, Failing
    <3>3. loc.pos = end /\ Frontier' = end
      BY <1>0, <2>1, <2>4, <3>2 DEF Served, Frontier, StreamRead, Ownership, TypeInv, ThreadInv, ThreadTypes, ScopeInv, StreamLabels, Locals
    <3>4. diag.failed = 0 /\ diag.coverage = FramesOf(begin, end - begin)
      BY <2>1, <3>2, <3>3 DEF Served, Covered
    <3>5. loc'.gen = 0 /\ ~InScope'
      BY <2>1 DEF NoLocals, InScope, StreamLabels, Failing
    <3>6. Ownership' /\ Progress'
      BY <1>0, <2>1, <3>1, <3>5 DEF Ownership, Progress
    <3>7. ~error
      BY <1>0, <2>4, <3>2 DEF OutcomeIsHonest
    <3>8. OutcomeIsHonest'
      BY <2>1, <3>1, <3>3, <3>4, <3>7 DEF OutcomeIsHonest
    <3> QED
      BY <3>6, <3>8 DEF ServeInv
  <2> QED
    BY <2>2, <2>3, <2>4
<1>33. CASE AfterFailure
  <2>1. UNCHANGED <<closing, discard, diag, generation, begin, end, next>>
        /\ pc = "failed" /\ pc' = "top" /\ loc' = NoLocals
    BY <1>33 DEF AfterFailure, ToTop
  <2>2. CASE closing
    BY <1>00, <2>1, <2>2
  <2>3. CASE ~closing /\ ~Current
    <3>1. UNCHANGED streamState
      BY <1>33, <2>1, <2>3 DEF AfterFailure, streamState
    <3> QED
      BY <2>1, <2>3, <3>1, ServeTop
  <2>4. CASE ~closing /\ Current
    <3>1. active' = FALSE /\ done' = FALSE /\ error' = TRUE /\ queue' = <<>>
      BY <1>33, <2>4 DEF AfterFailure
    <3>2. loc'.gen = 0 /\ ~InScope'
      BY <2>1 DEF NoLocals, InScope, StreamLabels, Failing
    <3>3. Ownership' /\ Progress'
      BY <1>0, <2>1, <3>1, <3>2 DEF Ownership, Progress
    <3>4. OutcomeIsHonest'
      BY <3>1 DEF OutcomeIsHonest
    <3> QED
      BY <3>3, <3>4 DEF ServeInv
  <2> QED
    BY <2>2, <2>3, <2>4
<1>34. CASE OtherAcquires \/ OtherReleases
  <2>1. UNCHANGED <<streamState, closing, discard, diag, loc>>
    BY <1>34 DEF OtherAcquires, OtherReleases, deviceState, threadState, callState, diagState
  <2>2. SameStage
    BY <1>34, <1>0 DEF SameStage, OtherAcquires, OtherReleases, InScope, StreamLabels, Failing, ReadAhead, StreamRead, deviceState, threadState, callState, diagState, Ownership
  <2> QED
    BY <2>1, <2>2, ServeMove
<1>35. CASE UNCHANGED vars
  <2>1. UNCHANGED <<streamState, closing, discard, diag, loc>>
    BY <1>35 DEF vars, deviceState, threadState, callState, diagState
  <2>2. SameStage
    BY <1>35, <1>0 DEF SameStage, vars, InScope, StreamLabels, Failing, ReadAhead, StreamRead, deviceState, threadState, callState, diagState, Ownership
  <2> QED
    BY <2>1, <2>2, ServeMove
<1> QED
  BY <1>1, <1>2, <1>3, <1>4, <1>5, <1>6, <1>7, <1>8, <1>9, <1>10, <1>11, <1>12, <1>13, <1>14,
     <1>15, <1>16, <1>17, <1>18, <1>19, <1>20, <1>21, <1>22, <1>23, <1>24, <1>25, <1>26, <1>27,
     <1>28, <1>29, <1>30, <1>31, <1>32, <1>33, <1>34, <1>35
  DEF Next, Session, Thread, TakeDrive, DriveReturns

-----------------------------------------------------------------------------
(* The evidence of the reads of a stream.                                  *)

\* The last entries of a record of so many calls, in order and of one stream.
Latest(s, calls, gen) ==
    \A i \in 1..Len(s) : s[i].seq = calls - Len(s) + i /\ s[i].generation = gen

\* An uncertain read of the history is covered by the warning.
Warned(s, warning) ==
    \A i \in 1..Len(s) : s[i].status = "uncertain" => s[i].seq <= warning

\* DiagnosticsAreRecent in these words.
LEMMA RecentMeans ==
    DiagnosticsAreRecent <=>
      (~closing => /\ Latest(diag.history, diag.calls, generation)
                   /\ Len(diag.history) + diag.evicted = diag.calls
                   /\ Latest(diag.events, diag.calls, generation)
                   /\ Len(diag.events) + diag.dropped <= diag.calls
                   /\ Warned(diag.history, diag.warning))
BY Zenon DEF DiagnosticsAreRecent, Latest, Warned

\* A bounded record is what it held, but for its oldest entry when it is full,
\* and the entry it takes.
LEMMA BoundedEntries ==
    ASSUME NEW s \in Seq(Evidence), NEW x \in Evidence, NEW capacity \in Nat \ {0},
           NEW t \in {Bounded(s, x, capacity)}
    PROVE  /\ Len(s) \in Nat /\ t[Len(t)] = x
           /\ Len(t) = IF Len(s) = capacity THEN Len(s) ELSE Len(s) + 1
           /\ \A i \in 1..Len(t) : i # Len(t) =>
                 /\ (i + Len(s) + 1) - Len(t) \in 1..Len(s)
                 /\ t[i] = s[(i + Len(s) + 1) - Len(t)]
<1> DEFINE kept == IF Len(s) = capacity THEN Tail(s) ELSE s
<1>1. /\ kept \in Seq(Evidence) /\ Len(s) \in Nat
      /\ Len(kept) = IF Len(s) = capacity THEN Len(s) - 1 ELSE Len(s)
      /\ \A i \in 1..Len(kept) : kept[i] = s[(i + Len(s)) - Len(kept)]
  <2>1. CASE Len(s) = capacity
    <3>1. s # <<>>
      BY <2>1, EmptySeq
    <3> QED
      BY <2>1, <3>1, HeadTailProperties
  <2>2. CASE Len(s) # capacity
    <3>1. kept = s /\ Len(s) \in Nat
      BY <2>2, LenProperties
    <3>2. \A i \in 1..Len(s) : (i + Len(s)) - Len(s) = i
      BY <3>1
    <3> QED
      BY <2>2, <3>1, <3>2
  <2> QED
    BY <2>1, <2>2
<1> HIDE DEF kept
<1>2. /\ Len(t) = Len(kept) + 1 /\ Len(kept) \in Nat
      /\ \A i \in 1..Len(kept) : t[i] = kept[i]
      /\ t[Len(kept) + 1] = x
  BY <1>1, AppendProperties DEF Bounded, kept
<1>3. \A i \in 1..Len(t) : i # Len(t) =>
         /\ (i + Len(s) + 1) - Len(t) \in 1..Len(s)
         /\ t[i] = s[(i + Len(s) + 1) - Len(t)]
  <2> SUFFICES ASSUME NEW i \in 1..Len(t), i # Len(t)
               PROVE  /\ (i + Len(s) + 1) - Len(t) \in 1..Len(s)
                      /\ t[i] = s[(i + Len(s) + 1) - Len(t)]
    OBVIOUS
  <2>1. i \in 1..Len(kept) /\ (i + Len(s) + 1) - Len(t) = (i + Len(s)) - Len(kept)
    BY <1>1, <1>2
  <2>2. (i + Len(s)) - Len(kept) \in 1..Len(s)
    BY <1>1, <1>2, <2>1
  <2> QED
    BY <1>1, <1>2, <2>1, <2>2
<1>4. t[Len(t)] = x
  BY <1>2
<1>5. Len(t) = IF Len(s) = capacity THEN Len(s) ELSE Len(s) + 1
  BY <1>1, <1>2
<1> QED
  BY <1>1, <1>3, <1>4, <1>5

\* Its length, and where its entries come from.
LEMMA BoundedLength ==
    ASSUME NEW s \in Seq(Evidence), NEW x \in Evidence, NEW capacity \in Nat \ {0},
           NEW t \in {Bounded(s, x, capacity)}
    PROVE  Len(t) = IF Len(s) = capacity THEN Len(s) ELSE Len(s) + 1
BY BoundedEntries

\* What a bounded history holds is the new element or was in it before.
LEMMA BoundedOrigin ==
    ASSUME NEW s \in Seq(Evidence), NEW x \in Evidence, NEW capacity \in Nat \ {0},
           NEW t \in {Bounded(s, x, capacity)}
    PROVE  \A i \in 1..Len(t) : t[i] = x \/ \E j \in 1..Len(s) : t[i] = s[j]
<1> TAKE i \in 1..Len(t)
<1>1. CASE i = Len(t)
  BY <1>1, BoundedEntries
<1>2. CASE i # Len(t)
  <2> DEFINE j == (i + Len(s) + 1) - Len(t)
  <2>1. j \in 1..Len(s) /\ t[i] = s[j]
    BY <1>2, BoundedEntries
  <2> QED
    BY <2>1
<1> QED
  BY <1>1, <1>2

\* It holds the latest entries again.
LEMMA BoundedLatest ==
    ASSUME NEW s \in Seq(Evidence), NEW calls \in Nat, NEW gen, Latest(s, calls, gen),
           NEW x \in Evidence, x.seq = calls + 1, x.generation = gen, NEW capacity \in Nat \ {0},
           NEW t \in {Bounded(s, x, capacity)}
    PROVE  Latest(t, calls + 1, gen)
<1>1. /\ Len(s) \in Nat /\ Len(t) \in Nat /\ t[Len(t)] = x
      /\ \A i \in 1..Len(t) : i # Len(t) =>
            /\ (i + Len(s) + 1) - Len(t) \in 1..Len(s)
            /\ t[i] = s[(i + Len(s) + 1) - Len(t)]
  BY BoundedEntries
<1> SUFFICES ASSUME NEW i \in 1..Len(t)
             PROVE  t[i].seq = (calls + 1) - Len(t) + i /\ t[i].generation = gen
  BY DEF Latest
<1>2. CASE i = Len(t)
  BY <1>1, <1>2
<1>3. CASE i # Len(t)
  <2> DEFINE j == (i + Len(s) + 1) - Len(t)
  <2>1. j \in 1..Len(s) /\ t[i] = s[j]
    BY <1>1, <1>3
  <2>2. s[j].seq = calls - Len(s) + j /\ s[j].generation = gen
    BY <2>1 DEF Latest
  <2> QED
    BY <1>1, <2>1, <2>2
<1> QED
  BY <1>2, <1>3

\* What the observation of a read makes of diagnostics that are recent.
LEMMA ObservedRecent ==
    ASSUME NEW d \in Diagnostics, NEW gen \in 0..MaxGeneration, NEW lba \in 0..LeadOut, NEW frames,
           NEW res \in Statuses \cup {"bad"},
           Latest(d.history, d.calls, gen), Len(d.history) + d.evicted = d.calls,
           Latest(d.events, d.calls, gen), Len(d.events) + d.dropped <= d.calls,
           Warned(d.history, d.warning),
           NEW o, o = Observed(d, gen, lba, frames, res)
    PROVE  /\ Latest(o.history, o.calls, gen) /\ Len(o.history) + o.evicted = o.calls
           /\ Latest(o.events, o.calls, gen) /\ Len(o.events) + o.dropped <= o.calls
           /\ Warned(o.history, o.warning)
<1> DEFINE entry == [generation |-> gen, seq |-> d.calls + 1, lba |-> lba, status |-> StatusOf(res)]
<1>1. /\ d.calls \in Nat /\ d.evicted \in Nat /\ d.dropped \in Nat /\ d.warning \in Nat
      /\ d.history \in Seq(Evidence) /\ d.events \in Seq(Evidence)
      /\ Len(d.history) \in Nat /\ Len(d.events) \in Nat
  BY LenProperties DEF Diagnostics
<1>2. entry \in Evidence /\ entry.seq = d.calls + 1 /\ entry.generation = gen
  <2>1. StatusOf(res) \in Statuses
    BY Zenon DEF StatusOf, Statuses
  <2> QED
    BY SMTT(30), <1>1, <2>1, WorkerConstants DEF Evidence
<1> DEFINE h == Bounded(d.history, entry, HistoryCapacity)
           e == Bounded(d.events, entry, EventCapacity)
<1>3. /\ o.calls = d.calls + 1 /\ o.history = h /\ o.events = e
      /\ o.evicted = d.evicted + (IF Len(d.history) = HistoryCapacity THEN 1 ELSE 0)
      /\ o.dropped = d.dropped + (IF Len(d.events) = EventCapacity THEN 1 ELSE 0)
      /\ o.warning = IF entry.status = "uncertain" THEN entry.seq ELSE d.warning
  BY DEF Observed
<1> HIDE DEF entry
<1>0. /\ h \in {Bounded(d.history, entry, HistoryCapacity)} /\ e \in {Bounded(d.events, entry, EventCapacity)}
      /\ HistoryCapacity \in Nat \ {0} /\ EventCapacity \in Nat \ {0}
  BY WorkerConstants
<1> HIDE DEF h, e
<1>9. d.history \in Seq(Evidence) /\ d.events \in Seq(Evidence) /\ entry \in Evidence
  BY <1>1, <1>2
<1>10. \A i \in 1..Len(h) : h[i] = entry \/ \E j \in 1..Len(d.history) : h[i] = d.history[j]
  BY SMTT(30), <1>0, <1>9, BoundedOrigin
<1>4. /\ Latest(h, d.calls + 1, gen)
      /\ Len(h) = IF Len(d.history) = HistoryCapacity THEN Len(d.history) ELSE Len(d.history) + 1
  <2>1. Latest(h, d.calls + 1, gen)
    BY <1>0, <1>1, <1>2, BoundedLatest
  <2>2. Len(h) = IF Len(d.history) = HistoryCapacity THEN Len(d.history) ELSE Len(d.history) + 1
    BY <1>0, <1>9, BoundedLength, ZenonT(30)
  <2> QED
    BY <2>1, <2>2
<1>5. /\ Latest(e, d.calls + 1, gen)
      /\ Len(e) = IF Len(d.events) = EventCapacity THEN Len(d.events) ELSE Len(d.events) + 1
  <2>1. Latest(e, d.calls + 1, gen)
    BY <1>0, <1>1, <1>2, BoundedLatest
  <2>2. Len(e) = IF Len(d.events) = EventCapacity THEN Len(d.events) ELSE Len(d.events) + 1
    BY <1>0, <1>9, BoundedLength, ZenonT(30)
  <2> QED
    BY <2>1, <2>2
<1>6. Warned(h, o.warning)
  <2> SUFFICES ASSUME NEW i \in 1..Len(h), h[i].status = "uncertain"
               PROVE  h[i].seq <= o.warning
    BY DEF Warned
  <2>1. CASE h[i] = entry
    BY <1>1, <1>2, <1>3, <2>1
  <2>2. ASSUME NEW j \in 1..Len(d.history), h[i] = d.history[j] PROVE h[i].seq <= o.warning
    <3>1. d.history[j].seq <= d.warning /\ d.history[j].seq = d.calls - Len(d.history) + j
      BY <2>2 DEF Warned, Latest
    <3>2. d.history[j].seq <= d.calls + 1 /\ d.history[j].seq \in Int
      BY SMTT(30), <1>1, <3>1
    <3>3. o.warning = d.calls + 1 \/ o.warning = d.warning
      BY <1>2, <1>3
    <3> QED
      BY <1>1, <2>2, <3>1, <3>2, <3>3
  <2>3. h[i] = entry \/ \E j \in 1..Len(d.history) : h[i] = d.history[j]
    BY <1>10
  <2> QED
    BY <2>1, <2>2, <2>3
<1>7. Len(o.history) + o.evicted = o.calls
  <2> DEFINE more == IF Len(d.history) = HistoryCapacity THEN 1 ELSE 0
  <2>1. Len(o.history) = (Len(d.history) + 1) - more /\ o.evicted = d.evicted + more
    BY <1>1, <1>3, <1>4
  <2>2. more \in {0, 1} /\ Len(d.history) \in Nat /\ d.evicted \in Nat /\ o.calls = d.calls + 1
    BY <1>1, <1>3
  <2> HIDE DEF more
  <2> QED
    BY <2>1, <2>2
<1>8. Len(o.events) + o.dropped <= o.calls
  BY SMTT(30), <1>1, <1>3, <1>5
<1> QED
  BY <1>3, <1>4, <1>5, <1>6, <1>7, <1>8

\* The steps that touch the evidence.
LEMMA DiagChanges ==
    ASSUME [Next]_vars
    PROVE  \/ \E b, e \in 0..LeadOut : Start(b, e)
           \/ RetireStream \/ PopEvent \/ Destroy \/ AfterRead
           \/ UNCHANGED <<generation, closing, diag>>
<1> USE DEF deviceState, diagState, streamState
<1>1. CASE Session
  BY <1>1 DEF Session, Cancel, DiscardReader, Reconfigure, SetDiscGeneration, ObserveReleased, Pop
<1>2. CASE Sleep("top", WakeTop) \/ Sleep("loop", WakeFull) \/ SeeClosing \/ SeeDiscard \/ SeeStart
  BY <1>2 DEF Sleep, SeeClosing, SeeDiscard, SeeStart
<1>3. CASE CloseNothing \/ CloseEnd \/ AfterDiscard \/ RequestOpen \/ KeepReader \/ AfterRefusal
  BY <1>3 DEF CloseNothing, CloseEnd, AfterDiscard, RequestOpen, KeepReader, AfterRefusal, Announce
<1>4. CASE AfterOpen \/ CheckOpened \/ RequestSeek \/ AfterSeek
  BY <1>4 DEF AfterOpen, CheckOpened, RequestSeek, AfterSeek, Announce
<1>5. CASE LeaveLoop \/ RequestRead \/ AbandonBlock \/ Push \/ Finish \/ AfterFailure
  BY <1>5 DEF LeaveLoop, RequestRead, AbandonBlock, Announce, Push, Finish, AfterFailure
<1>6. CASE TakeDrive \/ DriveReturns \/ OtherAcquires \/ OtherReleases
  BY <1>6 DEF TakeDrive, CloseBegin, Admit, Refuse, DriveReturns, Return, OtherAcquires, OtherReleases
<1>7. CASE UNCHANGED vars
  BY <1>7 DEF vars
<1> QED
  BY <1>1, <1>2, <1>3, <1>4, <1>5, <1>6, <1>7 DEF Next, Thread

\* No evidence is evidence of the latest reads.
LEMMA EmptyDiagRecent ==
    ASSUME NEW gen
    PROVE  /\ Latest(EmptyDiag.history, EmptyDiag.calls, gen)
           /\ Len(EmptyDiag.history) + EmptyDiag.evicted = EmptyDiag.calls
           /\ Latest(EmptyDiag.events, EmptyDiag.calls, gen)
           /\ Len(EmptyDiag.events) + EmptyDiag.dropped <= EmptyDiag.calls
           /\ Warned(EmptyDiag.history, EmptyDiag.warning)
<1>1. 1..Len(<<>>) = {} /\ Len(<<>>) = 0
  BY EmptySeq
<1> QED
  BY <1>1 DEF Latest, Warned, EmptyDiag

\* The evidence of a worker that was just made.
LEMMA DiagInit == Init => DiagnosticsAreRecent
BY EmptyDiagRecent, RecentMeans DEF Init

\* Every step keeps the evidence that of the latest reads of the current stream.
LEMMA DiagStep == TypeInv /\ DiagnosticsAreRecent /\ [Next]_vars => DiagnosticsAreRecent'
<1> SUFFICES ASSUME TypeInv, DiagnosticsAreRecent, [Next]_vars, ~closing'
             PROVE  /\ Latest(diag'.history, diag'.calls, generation')
                    /\ Len(diag'.history) + diag'.evicted = diag'.calls
                    /\ Latest(diag'.events, diag'.calls, generation')
                    /\ Len(diag'.events) + diag'.dropped <= diag'.calls
                    /\ Warned(diag'.history, diag'.warning)
  <2>1. DiagnosticsAreRecent' <=>
      (~closing' => /\ Latest(diag'.history, diag'.calls, generation')
                    /\ Len(diag'.history) + diag'.evicted = diag'.calls
                    /\ Latest(diag'.events, diag'.calls, generation')
                    /\ Len(diag'.events) + diag'.dropped <= diag'.calls
                    /\ Warned(diag'.history, diag'.warning))
    BY Zenon DEF DiagnosticsAreRecent, Latest, Warned
  <2> QED
    BY <2>1
<1>0. ~closing => /\ Latest(diag.history, diag.calls, generation)
                  /\ Len(diag.history) + diag.evicted = diag.calls
                  /\ Latest(diag.events, diag.calls, generation)
                  /\ Len(diag.events) + diag.dropped <= diag.calls
                  /\ Warned(diag.history, diag.warning)
  BY RecentMeans
<1>1. CASE UNCHANGED <<generation, closing, diag>>
  BY <1>0, <1>1
<1>2. CASE (\E b, e \in 0..LeadOut : Start(b, e)) \/ RetireStream
  <2>1. diag' = EmptyDiag
    BY <1>2 DEF Start, RetireStream
  <2> QED
    BY <2>1, EmptyDiagRecent
<1>3. CASE Destroy
  BY <1>3 DEF Destroy
<1>4. CASE PopEvent
  <2>1. /\ diag'.history = diag.history /\ diag'.calls = diag.calls /\ diag'.evicted = diag.evicted
        /\ diag'.dropped = diag.dropped /\ diag'.warning = diag.warning
        /\ diag'.events = Tail(diag.events) /\ diag.events # <<>> /\ diag.events \in Seq(Evidence)
        /\ diag.calls \in Nat /\ diag.dropped \in Nat /\ generation' = generation /\ ~closing
    BY <1>4 DEF PopEvent, streamState, TypeInv, DiagTypes, Diagnostics
  <2>2. /\ Len(diag'.events) = Len(diag.events) - 1 /\ Len(diag.events) \in Nat
        /\ \A i \in 1..Len(diag'.events) : diag'.events[i] = diag.events[i + 1]
    BY <2>1, HeadTailProperties, LenProperties
  <2>3. Latest(diag'.events, diag'.calls, generation')
    BY <1>0, <2>1, <2>2 DEF Latest
  <2> QED
    BY <1>0, <2>1, <2>2, <2>3
<1>5. CASE AfterRead
  <2>1. UNCHANGED <<generation, closing>> /\ pc = "read"
    BY <1>5 DEF AfterRead, streamState
  <2>2. CASE ~Current
    BY <1>0, <1>5, <2>1, <2>2 DEF AfterRead, diagState
  <2>3. CASE Current
    <3>1. /\ diag' = Observed(diag, generation, loc.pos, ReadFrames, result) /\ diag \in Diagnostics
          /\ generation \in 0..MaxGeneration /\ loc.pos \in 0..LeadOut /\ result \in Statuses \cup {"bad"}
      BY <1>5, <2>1, <2>3
      DEF AfterRead, Current, TypeInv, DiagTypes, StreamInv, StreamTypes, ThreadInv, ThreadTypes, ScopeInv, Locals
    <3> QED
      BY <1>0, <2>1, <3>1, ObservedRecent
  <2> QED
    BY <2>2, <2>3
<1> QED
  BY <1>1, <1>2, <1>3, <1>4, <1>5, DiagChanges

-----------------------------------------------------------------------------
(* The stream, and the worker as the engine sees it.                       *)

\* What the stream, its queue, its evidence and the thread have in common.
WorkerInv == TypeInv /\ QueueInv /\ ServeInv /\ DiagnosticsAreRecent

\* The invariant holds throughout.
LEMMA WorkerInvariant == Spec => []WorkerInv
<1>1. Init => WorkerInv
  BY TypeInit, QueueInit, ServeInit, DiagInit DEF WorkerInv
<1>2. WorkerInv /\ [Next]_vars => WorkerInv'
  BY TypeStep, QueueStep, ServeStep, DiagStep DEF WorkerInv
<1> QED
  BY <1>1, <1>2, PTL DEF Spec

(***************************************************************************)
(* What a consumer of the queue learns of a stream is of that stream: the  *)
(* blocks are of the current generation, without a gap and within the      *)
(* range and the buffer, done_ means that every frame was read well and    *)
(* handed over, and no uncertain read is forgotten; for every disc, buffer *)
(* and set of read blocks, and however start(), cancel() and               *)
(* discard_reader() cut into a read in progress.                           *)
(***************************************************************************)
THEOREM StreamIsHonestAlways == Spec => []StreamIsHonest
<1>1. WorkerInv => StreamIsHonest
  <2> SUFFICES ASSUME WorkerInv PROVE StreamIsHonest
    OBVIOUS
  <2> USE DEF WorkerInv
  <2>1. QueueIsStream
    <3>1. ASSUME ~closing, active PROVE Frontier <= end
      <4>1. CASE Current
        <5>1. loc.gen # 0 /\ Served
          BY <3>1, <4>1 DEF ServeInv, Ownership, Progress, Current
        <5> QED
          BY <5>1 DEF Served
      <4>2. CASE ~Current
        BY <3>1, <4>2, FrontierTypes DEF ServeInv, Progress, Untried, TypeInv, StreamInv, RangeOrdered
      <4> QED
        BY <4>1, <4>2
    <3> QED
      BY <3>1 DEF QueueIsStream, QueueInv
  <2>2. OutcomeIsHonest
    BY DEF ServeInv, OutcomeIsHonest
  <2>3. BufferWithinCapacity
    <3>1. CASE queue = <<>>
      BY <3>1, FrontierTypes, WorkerConstants DEF BufferWithinCapacity
    <3>2. CASE queue # <<>>
      <4>1. Head(queue) = queue[1] /\ 1 \in 1..Len(queue)
        BY <3>2, FrontierTypes
      <4> QED
        BY <3>2, <4>1 DEF BufferWithinCapacity, QueueInv
    <3> QED
      BY <3>1, <3>2
  <2>4. TypeOK
    BY DEF TypeInv, StreamInv, ThreadInv, TypeOK
  <2> QED
    BY <2>1, <2>2, <2>3, <2>4 DEF StreamIsHonest
<1> QED
  BY WorkerInvariant, <1>1, PTL

\* The locals of run() are taken, kept or given up.
LEMMA LocChanges == [Next]_vars => SeeStart \/ Push \/ loc' = loc \/ loc' = NoLocals
<1> SUFFICES ASSUME [Next]_vars PROVE SeeStart \/ Push \/ loc' = loc \/ loc' = NoLocals
  OBVIOUS
<1> USE DEF threadState
<1>1. CASE Session
  BY <1>1 DEF Session, Start, Cancel, DiscardReader, RetireStream, Reconfigure, SetDiscGeneration,
     ObserveReleased, Pop, PopEvent, Destroy, Wakes
<1>2. CASE Sleep("top", WakeTop) \/ Sleep("loop", WakeFull) \/ SeeClosing \/ SeeDiscard
  BY <1>2 DEF Sleep, SeeClosing, SeeDiscard, CloseThen
<1>3. CASE CloseNothing \/ CloseEnd \/ AfterDiscard \/ RequestOpen \/ KeepReader \/ AfterRefusal
  BY <1>3 DEF CloseNothing, CloseEnd, AfterDiscard, RequestOpen, KeepReader, AfterRefusal, Announce,
     Goto, ToTop
<1>4. CASE AfterOpen \/ CheckOpened \/ RequestSeek \/ AfterSeek
  BY <1>4 DEF AfterOpen, CheckOpened, RequestSeek, AfterSeek, Announce, Goto, CloseThen, ToTop
<1>5. CASE LeaveLoop \/ RequestRead \/ AfterRead \/ AbandonBlock \/ Finish \/ AfterFailure
  BY <1>5 DEF LeaveLoop, RequestRead, AfterRead, AbandonBlock, Announce, Goto, CloseThen, ToTop,
     Finish, AfterFailure
<1>6. CASE TakeDrive \/ DriveReturns \/ OtherAcquires \/ OtherReleases
  BY <1>6 DEF TakeDrive, CloseBegin, Admit, Refuse, Goto, DriveReturns, Return, OtherAcquires, OtherReleases
<1>7. CASE UNCHANGED vars
  BY <1>7 DEF vars
<1> QED
  BY <1>1, <1>2, <1>3, <1>4, <1>5, <1>6, <1>7 DEF Next, Thread

\* A worker that is being destroyed serves no stream any more: the destructor
\* retires it too.
ClosedInv == closing => loc.gen < generation

\* A worker that closes stays at a stream of an older generation.
LEMMA ClosedStep == WorkerInv /\ ClosedInv /\ [Next]_vars => ClosedInv'
<1> SUFFICES ASSUME WorkerInv, ClosedInv, [Next]_vars, closing' PROVE loc'.gen < generation'
  BY DEF ClosedInv
<1>1. loc.gen \in Nat /\ generation \in Nat /\ NoLocals.gen = 0
  BY WorkerConstants DEF WorkerInv, TypeInv, StreamInv, StreamTypes, ThreadInv, ThreadTypes, Locals, NoLocals
<1>2. CASE Destroy
  <2>1. loc' = loc /\ generation' = generation + 1 /\ ~closing
    BY <1>2 DEF Destroy, Wakes
  <2>2. loc.gen <= generation
    BY <2>1 DEF WorkerInv, ServeInv, Ownership
  <2> QED
    BY <1>1, <2>1, <2>2
<1>3. CASE ~Destroy
  <2>1. closing /\ generation' = generation
    BY <1>3, StreamChanges
    DEF Start, Cancel, DiscardReader, RetireStream, Pop, Push, Finish, AfterFailure, streamState, deviceState
  <2>2. ~SeeStart /\ ~Push
    BY <2>1 DEF SeeStart, Push
  <2> QED
    BY <1>1, <2>1, <2>2, LocChanges DEF ClosedInv
<1> QED
  BY <1>2, <1>3

\* A step of the worker is a step of the stream it implements, or none.
LEMMA StreamStep ==
    ASSUME WorkerInv, ClosedInv, [Next]_vars
    PROVE  [Stream!StreamNext]_(Stream!streamVars)
<1> USE DEF Phase
<1>1. CASE UNCHANGED <<streamState, closing>>
  BY <1>1 DEF streamState, Stream!streamVars
<1>2. ASSUME NEW b \in 0..LeadOut, NEW e \in 0..LeadOut, Start(b, e) PROVE Stream!StreamNext
  <2> DEFINE r == [begin |-> b, end |-> e]
  <2>1. r \in Stream!Ranges
    BY <1>2 DEF Start, Stream!Ranges
  <2>2. Stream!StartStream(r)
    BY <1>2 DEF Start, Wakes, deviceState, Stream!StartStream, Stream!Supersede
  <2> HIDE DEF r
  <2> QED
    BY <2>1, <2>2 DEF Stream!StreamNext
<1>3. CASE Cancel \/ DiscardReader
  <2>1. Stream!CancelStream
    BY <1>3 DEF Cancel, DiscardReader, RetireStream, deviceState, Stream!CancelStream, Stream!Supersede
  <2> QED
    BY <2>1 DEF Stream!StreamNext
<1>4. CASE Pop
  <2>1. Stream!TakeBlock
    BY <1>4 DEF Pop, deviceState, Stream!TakeBlock, BlockEnd, Stream!BlockEnd
  <2> QED
    BY <2>1 DEF Stream!StreamNext
<1>5. CASE Destroy
  <2>1. Stream!CloseStream
    BY <1>5 DEF Destroy, Stream!CloseStream
  <2> QED
    BY <2>1 DEF Stream!StreamNext
<1>6. Stream!Frontier = Frontier
  BY DEF Stream!Frontier, Stream!FrontierOf, Frontier, BlockEnd, Stream!BlockEnd
<1>7. CASE Push
  <2>1. /\ loc.pos = Frontier /\ loc.end = end /\ active
        /\ ReadFrames \in 1..Capacity /\ loc.pos + ReadFrames <= loc.end
    BY <1>7, PushQueue, WorkerConstants DEF WorkerInv, Served
  <2>2. /\ queue' = Append(queue, [generation |-> generation, lba |-> loc.pos, frames |-> ReadFrames])
        /\ UNCHANGED <<generation, begin, end, active, done, error, next, closing>> /\ ~closing
    BY <1>7 DEF Push, Current, deviceState
  <2>3. Stream!ProduceBlock(ReadFrames)
    BY <1>6, <2>1, <2>2 DEF Stream!ProduceBlock
  <2> QED
    BY <2>1, <2>3 DEF Stream!StreamNext
<1>8. CASE (Finish \/ AfterFailure) /\ ~Current
  BY <1>8 DEF Finish, AfterFailure, deviceState, Stream!streamVars
<1>9. ASSUME Current PROVE ~closing
  BY <1>9, WorkerConstants
  DEF ClosedInv, Current, WorkerInv, TypeInv, StreamInv, StreamTypes, ThreadInv, ThreadTypes, Locals
<1>10. CASE Finish /\ Current
  <2>1. loc.gen # 0 /\ StreamRead
    BY <1>9, <1>10 DEF WorkerInv, ServeInv, Ownership, Finish, InScope, StreamLabels
  <2>2. active /\ Served
    BY <1>9, <1>10, <2>1 DEF WorkerInv, ServeInv, Ownership, Progress
  <2>3. Frontier = end
    BY <2>1, <2>2, WorkerConstants
    DEF Served, StreamRead, WorkerInv, TypeInv, ThreadInv, ThreadTypes, Locals
  <2>4. /\ active' = FALSE /\ done' = TRUE /\ ~closing
        /\ UNCHANGED <<generation, begin, end, queue, next, closing>>
    BY <1>9, <1>10 DEF Finish, deviceState
  <2>5. Stream!CompleteStream
    BY <1>6, <2>2, <2>3, <2>4 DEF Stream!CompleteStream
  <2> QED
    BY <2>5 DEF Stream!StreamNext
<1>11. CASE AfterFailure /\ Current
  <2>1. active
    BY <1>9, <1>11 DEF WorkerInv, ServeInv, Ownership, AfterFailure, InScope, Failing
  <2>2. /\ active' = FALSE /\ done' = FALSE /\ error' = TRUE /\ queue' = <<>> /\ ~closing
        /\ UNCHANGED <<generation, begin, end, next, closing>>
    BY <1>9, <1>11 DEF AfterFailure
  <2>3. Stream!FailStream
    BY <2>1, <2>2 DEF Stream!FailStream
  <2> QED
    BY <2>3 DEF Stream!StreamNext
<1> QED
  BY <1>1, <1>2, <1>3, <1>4, <1>5, <1>7, <1>8, <1>10, <1>11, StreamChanges

(***************************************************************************)
(* The worker implements PcmStream, the specification the playback engine  *)
(* is composed with: every critical section of the session and of the      *)
(* reader thread, and every drive call, is one step of a stream that is    *)
(* started, produced, taken, completed, failed, superseded or closed, or   *)
(* no step of it at all.                                                   *)
(***************************************************************************)
THEOREM WorkerImplementsStream == Spec => ImplementsStream
<1>1. Init => Stream!StreamInit
  BY DEF Init, Stream!StreamInit, Phase
<1>2. Init => ClosedInv
  BY DEF Init, ClosedInv
<1>3. WorkerInv /\ ClosedInv /\ [Next]_vars => [Stream!StreamNext]_(Stream!streamVars)
  BY StreamStep
<1> QED
  BY <1>1, <1>2, <1>3, WorkerInvariant, ClosedStep, PTL DEF Spec, ImplementsStream, Stream!StreamSpec
=============================================================================
