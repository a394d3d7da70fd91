----------------------------- MODULE ReadStack -----------------------------
(***************************************************************************)
(* The reader that playback and the complete PCM capture read a disc with: *)
(* RepeatedReadVerifier over OffsetReader over LinuxIoctlReader, and what  *)
(* the PCM worker records of its results.  A caller seeks and then reads   *)
(* consecutive frames; under the repeat policy every read is made of       *)
(* attempts, each a whole read through the layers below.                   *)
(*                                                                         *)
(* A sample is named by its place on the disc: s when the drive read it    *)
(* right and -1 - s when it did not, which only scratched samples do.  A   *)
(* corrected frame is a tuple of samples.                                  *)
(***************************************************************************)
EXTENDS ReadOffset, ReadMap

CONSTANTS
    Offsets,          \* bound: the configured offsets, in samples
    C2Modes,          \* of "off", "asked": DirectOptions::request_c2_pointers
    Policies,         \* of "single", "repeat": ReadPolicy::mode
    Required,         \* required_matches
    MaxAttempts,      \* maximum_attempts
    Overlap,          \* overlap_frames
    TransportFrames,  \* frames of one ioctl (75)
    Scratched,        \* samples that a read may get wrong
    MaxFrames,        \* bound: frames the caller reads at once
    MaxReads,         \* bound: reads of a behaviour, under each policy
    SeekTo            \* bound: the frames it seeks to, under each policy

ASSUME StackAssumption ==
    /\ Offsets \subseteq Int
    /\ C2Modes \subseteq {"off", "asked"} /\ Policies \subseteq {"single", "repeat"}
    /\ Required \in Nat /\ Required >= 2
    /\ MaxAttempts \in Nat /\ MaxAttempts >= Required
    /\ Overlap \in Nat /\ TransportFrames \in Nat \ {0} /\ MaxFrames \in Nat \ {0}
    /\ MaxReads \in [{"single", "repeat"} -> Nat]
    /\ SeekTo \in [{"single", "repeat"} -> (SUBSET Int)]

VARIABLES
    offset, c2Mode, policy,  \* how make_cdda_reader and its wrappers were built
    position, positioned,    \* of the outermost reader
    tail,                    \* prior_tail_: the last accepted frames
    call,                    \* the read in progress, or NoCall
    result,                  \* the last ReadResult
    coverage, discMap,       \* what the worker recorded
    attempts,                \* history: the complete attempts of the last read
    previous,                \* history: what the read before it delivered
    accepted,                \* history: frames accepted since the seek
    charted,                 \* history: facts and frames of every read
    reads                    \* bound: reads so far

setup    == <<offset, c2Mode, policy>>
readerState  == <<position, positioned, tail>>
recorded == <<coverage, discMap, accepted, charted>>
vars == <<setup, readerState, call, result, recorded, attempts, previous, reads>>

NoCall   == [frames |-> 0]
NoResult == [status |-> "none"]

Delivered(r) == IF r.status = "ok" THEN r.pcm ELSE <<>>

-----------------------------------------------------------------------------
(* LinuxIoctlReader::read.                                                 *)

\* The answers of the retry loop around CDROMREADAUDIO: only EIO is retried.
LoopOutcomes == [retried : BOOLEAN, error : BOOLEAN]

\* The answers of one block.  Without usable pointers the block is read as
\* ordinary audio; if that fails it goes through the retry loop once more.
BlockOutcomes ==
    IF c2Mode = "off"
    THEN {[retried |-> l.retried, error |-> l.error, c2 |-> "not_checked"] : l \in LoopOutcomes}
    ELSE {[retried |-> FALSE, error |-> FALSE, c2 |-> s] : s \in {"clean", "reported"}} \cup
         {[retried |-> l.retried, error |-> l.error, c2 |-> "unknown"] : l \in LoopOutcomes}

\* Mutant: a piece without a status takes nothing from the others.
MergedOfKnown(statuses) ==
    IF "reported" \in statuses THEN "reported" ELSE IF "clean" \in statuses THEN "clean" ELSE "unknown"

\* The C2 status of pieces read with these: what merging them one by one comes
\* to, in merge_c2_status and in the same three cases of LinuxIoctlReader::read.
MergedC2(statuses) ==
    IF "reported" \in statuses THEN "reported"
    ELSE IF \E c \in statuses : statuses = {c} THEN CHOOSE c \in statuses : statuses = {c}
    ELSE "unknown"

MergeC2(a, b) == MergedC2({a, b})

Blocks(frames) == (frames + TransportFrames - 1) \div TransportFrames

\* The read of physical frames, in blocks; the first block that fails ends it.
Physical(frames, blocks) ==
    LET failed == {b \in 1..Blocks(frames) : blocks[b].error}
        done   == IF failed = {} THEN Blocks(frames) ELSE (CHOOSE b \in failed : \A d \in failed : b <= d) - 1
        tried  == IF failed = {} THEN done ELSE done + 1
        c2s    == {blocks[b].c2 : b \in 1..done}
    IN  [complete |-> failed = {},
         retried  |-> \E b \in 1..tried : blocks[b].retried,
         c2s      |-> c2s,
         c2       |-> IF c2s # {} THEN MergedC2(c2s) ELSE IF c2Mode = "off" THEN "not_checked" ELSE "unknown"]

-----------------------------------------------------------------------------
(* OffsetReader::read of frames at lba; the drive gets the samples in bad  *)
(* wrong.  The caller stays inside the playable window.                    *)

Sample(s, bad) == IF s \in bad THEN -1 - s ELSE s

\* skip: where the corrected samples start among the physical ones.
Cut(lba) == FirstSample(lba, offset) - FirstLba(lba, offset) * Frame

Corrected(lba, frames, bad) ==
    [f \in 1..frames |->
        [i \in 1..Frame |->
            Sample(FirstLba(lba, offset) * Frame + Cut(lba) + (f - 1) * Frame + i - 1, bad)]]

\* The answers of the drive to one read: Scratched samples got wrong, and an
\* outcome for each block of the physical frames.
Answers(lba, frames) ==
    LET n == EndLba(lba, frames, offset) - FirstLba(lba, offset)
    IN  [bad : SUBSET {s \in Scratched : s \div Frame \in FirstLba(lba, offset)..(EndLba(lba, frames, offset) - 1)},
         blocks : [1..Blocks(n) -> BlockOutcomes]]

InnerRead(lba, frames, answer) ==
    LET raw == Physical(EndLba(lba, frames, offset) - FirstLba(lba, offset), answer.blocks)
    IN  [complete |-> raw.complete, retried |-> raw.retried, c2s |-> raw.c2s, c2 |-> raw.c2,
         pcm |-> Corrected(lba, frames, answer.bad)]

-----------------------------------------------------------------------------
(* What the PCM worker records of a result.                                *)

\* make_read_evidence and the flags of DiscReadMap::observe, for the direct
\* backend: its retries make a read uncertain unless the mismatches of a
\* verified one were outvoted.
Facts(r) ==
    LET complete  == r.status = "ok"
        recovered == complete /\ r.matching >= 2 /\ r.mismatches > 0
    IN  {"attempted"} \cup (IF complete THEN {"accepted"} ELSE {})
          \cup (IF r.retried THEN {"retry"} ELSE {})
          \cup (IF r.attempts > 1 THEN {"repeated"} ELSE {})
          \cup (IF recovered THEN {"recovered"} ELSE {})
          \cup (IF ~complete \/ (r.retried /\ ~recovered) THEN {"uncertain"} ELSE {})

Finish(r) ==
    LET last == r.start + r.frames
    IN  /\ result' = r
        /\ call' = NoCall
        /\ discMap' = Chart(discMap, r.start, last, Facts(r))
        /\ charted' = charted \cup {[facts |-> Facts(r), frame |-> f] : f \in r.start..(last - 1)}
        /\ IF r.status = "ok"
           THEN /\ coverage' = Cover(coverage, r.start, last)
                /\ accepted' = accepted \cup r.start..(last - 1)
           ELSE UNCHANGED <<coverage, accepted>>

-----------------------------------------------------------------------------
(* The calls of the reader's owner.                                        *)

Init ==
    /\ offset \in {o \in Offsets : Playable(o)}
    /\ c2Mode \in C2Modes /\ policy \in Policies
    /\ position = 0 /\ positioned = FALSE /\ tail = <<>>
    /\ call = NoCall /\ result = NoResult
    /\ coverage = EmptyCoverage /\ discMap = EmptyReadMap
    /\ attempts = <<>> /\ previous = <<>> /\ accepted = {} /\ charted = {} /\ reads = 0

ForgetTail == tail' = <<>>

\* The worker seeks once, at the start of a stream, which starts its coverage.
Seek(lba) ==
    /\ call = NoCall /\ reads < MaxReads[policy]
    /\ PlayableBegin(offset) <= lba /\ lba < PlayableEnd(offset)
    /\ position' = lba /\ positioned' = TRUE
    /\ ForgetTail
    /\ result' = NoResult
    /\ coverage' = EmptyCoverage /\ accepted' = {}
    /\ attempts' = <<>> /\ previous' = <<>>
    /\ UNCHANGED <<setup, call, discMap, charted, reads>>

\* The read of the repeat policy: it starts overlap frames before the
\* position, as far as the tail goes.
BeginVerified(frames) ==
    /\ call = NoCall /\ positioned /\ reads < MaxReads[policy]
    /\ policy = "repeat"
    /\ position + frames <= PlayableEnd(offset)
    /\ call' = [frames |-> frames, overlap |-> Smaller(Overlap, Len(tail)),
                candidates |-> <<>>, tried |-> 0, mismatches |-> 0, matching |-> 0, retried |-> FALSE]
    /\ result' = NoResult
    /\ attempts' = <<>> /\ previous' = Delivered(result)
    /\ reads' = reads + 1
    /\ UNCHANGED <<setup, readerState, recorded>>

\* The read of the single policy: the offset reader's own.
ReadOnce(frames) ==
    /\ call = NoCall /\ positioned /\ reads < MaxReads[policy]
    /\ policy = "single"
    /\ position + frames <= PlayableEnd(offset)
    /\ \E answer \in Answers(position, frames) :
         LET read == InnerRead(position, frames, answer)
         IN  /\ Finish([status |-> IF read.complete THEN "ok" ELSE "error",
                        start |-> position, frames |-> frames,
                        pcm |-> IF read.complete THEN read.pcm ELSE <<>>,
                        c2 |-> read.c2, retried |-> read.retried,
                        attempts |-> 0, matching |-> 0, mismatches |-> 0])
             /\ positioned' = read.complete
             /\ position' = IF read.complete THEN position + frames ELSE position
             /\ attempts' = IF read.complete THEN <<[pcm |-> read.pcm, c2s |-> read.c2s]>> ELSE <<>>
    /\ reads' = reads + 1
    /\ previous' = Delivered(result)
    /\ UNCHANGED <<setup, tail>>

-----------------------------------------------------------------------------
(* RepeatedReadVerifier::read.                                             *)

Same(candidate, pcm) == candidate.pcm = pcm

\* The candidates with one more complete attempt, and the one it is.
Found(read) ==
    LET n == Len(call.candidates)
        known == {i \in 1..n : Same(call.candidates[i], read.pcm)}
    IN  IF known = {} THEN n + 1 ELSE CHOOSE i \in known : \A j \in known : i <= j

WithCandidate(read) ==
    LET i == Found(read)
    IN  IF i > Len(call.candidates)
        THEN Append(call.candidates, [pcm |-> read.pcm, matches |-> 1, c2 |-> read.c2])
        ELSE [call.candidates EXCEPT ![i].matches = @ + 1, ![i].c2 = MergeC2(@, read.c2)]

WithAttempt(read) ==
    LET i == Found(read)
        fresh == i > Len(call.candidates) /\ call.candidates # <<>>
    IN  IF ~read.complete THEN [call EXCEPT !.tried = @ + 1, !.retried = @ \/ read.retried]
        ELSE [call EXCEPT !.tried = @ + 1, !.retried = @ \/ read.retried,
                          !.candidates = WithCandidate(read),
                          !.mismatches = @ + (IF fresh THEN 1 ELSE 0),
                          !.matching = Larger(@, WithCandidate(read)[i].matches)]

\* A read that is not accepted: nothing of a candidate is exposed, and the
\* reader wants a seek.
Reject(c) ==
    /\ Finish([status |-> "error", start |-> position, frames |-> c.frames, pcm |-> <<>>,
               c2 |-> "not_checked", retried |-> c.retried,
               attempts |-> c.tried, matching |-> c.matching, mismatches |-> c.mismatches])
    /\ positioned' = FALSE
    /\ UNCHANGED <<position, tail>>

Accept(c, candidate) ==
    LET pcm == SubSeq(candidate.pcm, c.overlap + 1, c.overlap + c.frames)
    IN  /\ Finish([status |-> "ok", start |-> position, frames |-> c.frames, pcm |-> pcm,
                   c2 |-> candidate.c2, retried |-> c.retried,
                   attempts |-> c.tried, matching |-> c.matching, mismatches |-> c.mismatches])
        /\ tail' = SubSeq(pcm, c.frames - Smaller(Overlap, c.frames) + 1, c.frames)
        /\ position' = position + c.frames
        /\ UNCHANGED positioned

\* Mutant: the overlap is not compared.
ContinuesAlways(c, candidate) == TRUE

\* The agreed frames before the position are those accepted before.
Continues(c, candidate) ==
    c.overlap = 0 \/ SubSeq(candidate.pcm, 1, c.overlap) = tail

Enough(matches) == matches >= Required

Attempt(answer) ==
    LET start == position - call.overlap
        read  == InnerRead(start, call.frames + call.overlap, answer)
        c     == WithAttempt(read)
        candidate == c.candidates[Found(read)]
    IN  /\ attempts' = IF read.complete THEN Append(attempts, [pcm |-> read.pcm, c2s |-> read.c2s]) ELSE attempts
        /\ IF read.complete /\ Enough(candidate.matches)
           THEN IF Continues(c, candidate) THEN Accept(c, candidate) ELSE Reject(c)
           ELSE IF c.tried = MaxAttempts THEN Reject(c)
           ELSE call' = c /\ UNCHANGED <<readerState, result, recorded>>
        /\ UNCHANGED <<setup, previous, reads>>

AttemptRead ==
    /\ call # NoCall
    /\ \E answer \in Answers(position - call.overlap, call.frames + call.overlap) : Attempt(answer)

\* The time budget is only looked at between attempts.
OutOfTime ==
    /\ call # NoCall /\ call.tried > 0
    /\ Reject(call)
    /\ UNCHANGED <<setup, attempts, previous, reads>>

Next ==
    \/ \E lba \in SeekTo[policy] : Seek(lba)
    \/ \E frames \in 1..MaxFrames : BeginVerified(frames) \/ ReadOnce(frames)
    \/ AttemptRead
    \/ OutOfTime

Spec == Init /\ [][Next]_vars

-----------------------------------------------------------------------------
(* Properties.                                                             *)

OnDisc(lba, frames) == DiscBegin <= FirstLba(lba, offset) /\ EndLba(lba, frames, offset) <= LeadOut

\* Whatever the offset, the drive is only asked for frames of the disc: for
\* the frames that hold the corrected samples, with the overlap before them
\* and to the last frame of the playable window.
ReadsStayOnDisc ==
    /\ call # NoCall => OnDisc(position - call.overlap, call.frames + call.overlap)
    /\ call = NoCall /\ positioned =>
         \A frames \in 1..(PlayableEnd(offset) - position) : OnDisc(position, frames)

\* The complete attempts of the last read that read all of it, and the end of
\* what was delivered before it, as it was delivered.
Agreeing ==
    LET overlap == IF policy = "repeat" THEN Smaller(Overlap, Len(previous)) ELSE 0
        pcm     == SubSeq(previous, Len(previous) - overlap + 1, Len(previous)) \o result.pcm
    IN  {i \in DOMAIN attempts : attempts[i].pcm = pcm}

\* PCM that leaves the reader is the corrected samples it was asked for, each
\* in its place, exactly as enough whole reads of them agreed, in one piece
\* with what was delivered before; and its C2 status is that of those reads:
\* clean if every block of each of them was, reported if any was.
AcceptedIsAgreed ==
    result.status = "ok" =>
        /\ Len(result.pcm) = result.frames
        /\ \A f \in 1..result.frames, i \in 1..Frame :
              LET s == (result.start + f - 1) * Frame + offset + i - 1
              IN  result.pcm[f][i] \in {s, -1 - s}
        /\ Cardinality(Agreeing) >= IF policy = "repeat" THEN Required ELSE 1
        /\ result.c2 = "clean" => \A i \in Agreeing : attempts[i].c2s = {"clean"}
        /\ result.c2 = "reported" <=> \E i \in Agreeing : "reported" \in attempts[i].c2s

InRegion(f, r) == r.begin <= f /\ f < r.end

\* The coverage of a stream and the map of a disc tell of exactly the frames
\* that were accepted, and that were read with those facts, while they are
\* complete, and of none other when they are full; neither outgrows its array,
\* and the count of unique frames counts every frame once.
ObservationsAreExact ==
    LET regions == coverage.regions
        covered == {f \in DiscBegin..(LeadOut - 1) : \E i \in DOMAIN regions : InRegion(f, regions[i])}
    IN  /\ Len(regions) <= CoverageCapacity /\ Cardinality(discMap.regions) <= MapCapacity
        /\ \A i, j \in DOMAIN regions : i < j => regions[i].end < regions[j].begin
        /\ coverage.unique = Cardinality(covered)
        /\ covered \subseteq accepted
        /\ coverage.complete => covered = accepted
        /\ \A r \in discMap.regions : \A f \in r.begin..(r.end - 1) : [facts |-> r.facts, frame |-> f] \in charted
        /\ discMap.complete =>
             \A c \in charted : \E r \in discMap.regions : r.facts = c.facts /\ InRegion(c.frame, r)
        /\ \A r, q \in discMap.regions :
             r # q /\ r.facts = q.facts => r.end < q.begin \/ q.end < r.begin
=============================================================================
