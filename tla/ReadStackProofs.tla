-------------------------- MODULE ReadStackProofs --------------------------
(***************************************************************************)
(* Proofs about ReadStack: whatever the disc, the frame size, the offset   *)
(* and the policy, the reader only asks the drive for frames of the disc,  *)
(* what it delivers is what enough whole reads of them agreed on, and what *)
(* is recorded of its reads is what was read.                              *)
(***************************************************************************)
EXTENDS ReadStack, FiniteSetTheorems, SequenceTheorems, NaturalsInduction, WellFoundedInduction, TLAPS

-----------------------------------------------------------------------------
(* Arithmetic of frames.                                                   *)

\* Integer division rounds down.
LEMMA DivBounds ==
    ASSUME NEW x \in Int, NEW d \in Nat \ {0}
    PROVE  x \div d \in Int /\ d * (x \div d) <= x /\ x < d * (x \div d) + d
OBVIOUS

\* More frames are no fewer samples.
LEMMA TimesMonotone ==
    ASSUME NEW x \in Int, NEW y \in Int, NEW d \in Nat \ {0}, x <= y
    PROVE  d * x <= d * y
OBVIOUS

\* A frame holds samples, so fewer samples are fewer frames.
LEMMA TimesCancels ==
    ASSUME NEW x \in Int, NEW y \in Int, NEW d \in Nat \ {0}, d * x < d * y
    PROVE  x < y
OBVIOUS

\* The playable window, without the divisions: every one of its frames lies
\* in the correctable samples.
LEMMA WindowBounds ==
    ASSUME NEW o \in Int
    PROVE  /\ PlayableBegin(o) \in Int /\ PlayableEnd(o) \in Int
           /\ CorrectableBegin(o) <= Frame * PlayableBegin(o)
           /\ Frame * PlayableEnd(o) <= CorrectableEnd(o)
<1>1. Frame \in Nat \ {0} /\ DiscBegin \in Int /\ LeadOut \in Int
  BY OffsetAssumption, DiscAssumption
<1>2. DiscBegin * Frame \in Int /\ LeadOut * Frame \in Int
  BY <1>1
<1>3. CorrectableBegin(o) \in Int /\ CorrectableEnd(o) \in Int
  BY <1>2 DEF CorrectableBegin, CorrectableEnd, Clamp
<1>4. CorrectableBegin(o) + Frame - 1 \in Int
  BY <1>1, <1>3
<1>5. /\ PlayableBegin(o) \in Int
      /\ CorrectableBegin(o) + Frame - 1 < Frame * PlayableBegin(o) + Frame
  BY <1>1, <1>4, DivBounds DEF PlayableBegin
<1>6. PlayableEnd(o) \in Int /\ Frame * PlayableEnd(o) <= CorrectableEnd(o)
  BY <1>1, <1>3, DivBounds DEF PlayableEnd
<1>7. Frame * PlayableBegin(o) \in Int
  BY <1>1, <1>5
<1> QED
  BY <1>1, <1>3, <1>5, <1>6, <1>7

\* The samples of playable frames are samples of the disc: a clamp that bites
\* leaves no frame to play.
LEMMA SamplesOnDisc ==
    ASSUME NEW o \in Int, NEW lba \in Int, NEW frames \in Nat \ {0},
           PlayableBegin(o) <= lba, lba + frames <= PlayableEnd(o)
    PROVE  /\ FirstSample(lba, o) \in Int /\ LastSample(lba, frames, o) \in Int
           /\ Frame * DiscBegin <= FirstSample(lba, o)
           /\ LastSample(lba, frames, o) <= Frame * LeadOut
<1> DEFINE cb == CorrectableBegin(o)
           ce == CorrectableEnd(o)
           db == Frame * DiscBegin
           lo == Frame * LeadOut
           first == Frame * lba
           last == Frame * (lba + frames)
<1>1. Frame \in Nat \ {0} /\ DiscBegin \in Int /\ LeadOut \in Int /\ DiscBegin < LeadOut
  BY OffsetAssumption, DiscAssumption
<1>2. db \in Int /\ lo \in Int /\ first \in Int /\ last \in Int
  BY <1>1
<1>3. db <= lo
  BY <1>1, TimesMonotone
<1>4. /\ DiscBegin * Frame = db /\ LeadOut * Frame = lo
      /\ FirstSample(lba, o) = first + o /\ LastSample(lba, frames, o) = last + o
  BY <1>1 DEF FirstSample, LastSample
<1>5. cb = Clamp(db - o, db, lo) /\ ce = Clamp(lo - o, db, lo)
  BY <1>4 DEF CorrectableBegin, CorrectableEnd
<1>6. cb <= first
  <2>1. cb <= Frame * PlayableBegin(o) /\ PlayableBegin(o) \in Int
    BY WindowBounds
  <2>2. Frame * PlayableBegin(o) <= first
    BY <1>1, <2>1, TimesMonotone
  <2>3. cb \in Int /\ Frame * PlayableBegin(o) \in Int
    BY <1>1, <1>2, <1>5, <2>1 DEF Clamp
  <2> QED
    BY <1>2, <2>1, <2>2, <2>3
<1>7. last <= ce
  <2>1. Frame * PlayableEnd(o) <= ce /\ PlayableEnd(o) \in Int
    BY WindowBounds
  <2>2. last <= Frame * PlayableEnd(o)
    BY <1>1, <2>1, TimesMonotone
  <2>3. ce \in Int /\ Frame * PlayableEnd(o) \in Int
    BY <1>1, <1>2, <1>5, <2>1 DEF Clamp
  <2> QED
    BY <1>2, <2>1, <2>2, <2>3
<1>8. first < last
  BY <1>1
<1> HIDE DEF cb, ce, db, lo, first, last
<1>9. db <= first + o /\ last + o <= lo
  BY <1>2, <1>3, <1>5, <1>6, <1>7, <1>8 DEF Clamp
<1> QED
  BY <1>2, <1>4, <1>9 DEF db, lo

\* A read inside the playable window asks for physical frames of the disc.
LEMMA WindowOnDisc ==
    ASSUME NEW lba \in Int, NEW frames \in Nat \ {0}, offset \in Int,
           PlayableBegin(offset) <= lba, lba + frames <= PlayableEnd(offset)
    PROVE  OnDisc(lba, frames)
<1> DEFINE s == FirstSample(lba, offset)
           e == LastSample(lba, frames, offset)
<1>1. Frame \in Nat \ {0} /\ DiscBegin \in Int /\ LeadOut \in Int
  BY OffsetAssumption, DiscAssumption
<1>2. /\ s \in Int /\ e \in Int
      /\ Frame * DiscBegin <= s /\ e <= Frame * LeadOut
  BY SamplesOnDisc
<1> HIDE DEF s, e
<1>3. DiscBegin <= s \div Frame
  <2>1. s \div Frame \in Int /\ s < Frame * (s \div Frame) + Frame
    BY <1>1, <1>2, DivBounds
  <2>2. Frame * (s \div Frame) + Frame = Frame * (s \div Frame + 1)
    BY <1>1, <2>1
  <2>3. Frame * DiscBegin < Frame * (s \div Frame + 1)
    BY <1>1, <1>2, <2>1, <2>2
  <2> QED
    BY <1>1, <2>1, <2>3, TimesCancels
<1>4. (e + Frame - 1) \div Frame <= LeadOut
  <2> DEFINE q == (e + Frame - 1) \div Frame
  <2>1. q \in Int /\ Frame * q <= e + Frame - 1
    BY <1>1, <1>2, DivBounds
  <2>2. Frame * (LeadOut + 1) = Frame * LeadOut + Frame
    BY <1>1
  <2> HIDE DEF q
  <2>3. Frame * q < Frame * (LeadOut + 1)
    BY <1>1, <1>2, <2>1, <2>2
  <2>4. q < LeadOut + 1
    BY <1>1, <2>1, <2>3, TimesCancels
  <2> QED
    BY <1>1, <2>1, <2>4 DEF q
<1> QED
  BY <1>3, <1>4 DEF OnDisc, FirstLba, EndLba, s, e

-----------------------------------------------------------------------------
(* The position of the reader.                                             *)

CallFields == {"frames", "overlap", "candidates", "tried", "mismatches", "matching", "retried"}

IsCall(c) ==
    /\ c = [f \in CallFields |-> c[f]]
    /\ c.frames \in Nat \ {0} /\ c.overlap \in Nat

\* What is read next, and the tail before it, lies in the playable window.
PositionInv ==
    /\ offset \in Int /\ policy \in {"single", "repeat"}
    /\ position \in Int /\ Len(tail) \in Nat
    /\ positioned => /\ PlayableBegin(offset) <= position - Len(tail)
                     /\ position <= PlayableEnd(offset)
    /\ call # NoCall => /\ IsCall(call) /\ positioned
                        /\ call.overlap <= Len(tail)
                        /\ position + call.frames <= PlayableEnd(offset)

\* A read that starts with the overlap is still inside the bounds.
LEMMA OverlapBounds ==
    ASSUME NEW p \in Int, NEW f \in Nat \ {0}, NEW o \in Nat, NEW t \in Nat,
           NEW b \in Int, NEW e \in Int, b <= p - t, o <= t, p + f <= e
    PROVE  /\ p - o \in Int /\ f + o \in Nat /\ f + o # 0
           /\ b <= p - o /\ (p - o) + (f + o) <= e
OBVIOUS

\* A read whose frames are playable stays on the disc.
LEMMA InvIsOnDisc == PositionInv => ReadsStayOnDisc
<1> SUFFICES ASSUME PositionInv PROVE ReadsStayOnDisc
  OBVIOUS
<1>0. PlayableBegin(offset) \in Int /\ PlayableEnd(offset) \in Int
  BY WindowBounds DEF PositionInv
<1>1. ASSUME call # NoCall PROVE OnDisc(position - call.overlap, call.frames + call.overlap)
  <2>1. /\ call.overlap \in Nat /\ call.frames \in Nat \ {0} /\ position \in Int /\ Len(tail) \in Nat
        /\ PlayableBegin(offset) <= position - Len(tail) /\ call.overlap <= Len(tail)
        /\ position + call.frames <= PlayableEnd(offset)
    BY <1>1 DEF PositionInv, IsCall
  <2>2. /\ position - call.overlap \in Int
        /\ call.frames + call.overlap \in Nat /\ call.frames + call.overlap # 0
        /\ PlayableBegin(offset) <= position - call.overlap
        /\ (position - call.overlap) + (call.frames + call.overlap) <= PlayableEnd(offset)
    BY <1>0, <2>1, OverlapBounds
  <2> QED
    BY <2>2, WindowOnDisc DEF PositionInv
<1>2. ASSUME positioned, NEW frames \in 1..(PlayableEnd(offset) - position)
      PROVE  OnDisc(position, frames)
  <2>1. /\ position \in Int /\ PlayableBegin(offset) <= position
        /\ frames \in Nat \ {0} /\ position + frames <= PlayableEnd(offset)
    BY <1>0, <1>2 DEF PositionInv
  <2> QED
    BY <2>1, WindowOnDisc DEF PositionInv
<1> QED
  BY <1>1, <1>2 DEF ReadsStayOnDisc

\* A reader that was just made has nothing to read yet.
LEMMA InitPosition == Init => PositionInv
BY StackAssumption DEF Init, PositionInv

\* An attempt changes the votes, not what is read.
LEMMA AttemptKeepsCall ==
    ASSUME IsCall(call), NEW read
    PROVE  /\ IsCall(WithAttempt(read))
           /\ WithAttempt(read).frames = call.frames /\ WithAttempt(read).overlap = call.overlap
BY DEF IsCall, CallFields, WithAttempt

\* After a rejected read the reader wants a seek.
LEMMA RejectKeepsPosition ==
    ASSUME PositionInv, NEW c, Reject(c), UNCHANGED setup
    PROVE  PositionInv'
BY DEF Reject, Finish, PositionInv, setup

\* An accepted read moves the position by its frames, which were playable.
LEMMA AcceptKeepsPosition ==
    ASSUME PositionInv, call # NoCall, NEW c, NEW candidate,
           c.frames = call.frames, Accept(c, candidate), UNCHANGED setup
    PROVE  PositionInv'
<1> DEFINE kept == Smaller(Overlap, c.frames)
           pcm == SubSeq(candidate.pcm, c.overlap + 1, c.overlap + c.frames)
<1>1. c.frames \in Nat \ {0} /\ position \in Int /\ Len(tail) \in Nat /\ positioned
  BY DEF PositionInv, IsCall
<1>2. kept \in Nat /\ kept <= c.frames
  BY <1>1, StackAssumption DEF Smaller
<1>3. tail' = SubSeq(pcm, c.frames - kept + 1, c.frames)
  BY DEF Accept
<1> HIDE DEF kept, pcm
<1>4. Len(tail') = kept
  BY SMTT(30), <1>1, <1>2, <1>3
<1>5. /\ position' = position + c.frames /\ call' = NoCall
      /\ UNCHANGED <<offset, policy, positioned>>
  BY DEF Accept, Finish, setup
<1>6. PlayableBegin(offset) \in Int /\ PlayableEnd(offset) \in Int
  BY WindowBounds DEF PositionInv
<1>7. PlayableBegin(offset) <= position - Len(tail) /\ position + c.frames <= PlayableEnd(offset)
  BY <1>1 DEF PositionInv
<1> QED
  BY SMTT(30), <1>1, <1>2, <1>4, <1>5, <1>6, <1>7 DEF PositionInv

\* A seek goes to a playable frame and forgets the tail.
LEMMA SeekKeepsPosition ==
    ASSUME PositionInv, NEW lba \in SeekTo[policy], Seek(lba)
    PROVE  PositionInv'
<1>1. lba \in Int
  BY StackAssumption DEF PositionInv
<1>2. Len(tail') = 0
  BY DEF Seek, ForgetTail
<1>3. PlayableBegin(offset) \in Int /\ PlayableEnd(offset) \in Int
  BY WindowBounds DEF PositionInv
<1> QED
  BY <1>1, <1>2, <1>3 DEF Seek, PositionInv, setup

\* A verified read begins with the overlap before its position.
LEMMA BeginKeepsPosition ==
    ASSUME PositionInv, NEW frames \in 1..MaxFrames, BeginVerified(frames)
    PROVE  PositionInv'
<1>1. /\ frames \in Nat \ {0} /\ position + frames <= PlayableEnd(offset)
      /\ UNCHANGED <<offset, policy, position, positioned, tail>> /\ positioned
  BY StackAssumption DEF BeginVerified, setup, readerState
<1>2. Smaller(Overlap, Len(tail)) \in Nat /\ Smaller(Overlap, Len(tail)) <= Len(tail)
  BY StackAssumption DEF PositionInv, Smaller
<1>3. call'.frames = frames /\ call'.overlap = Smaller(Overlap, Len(tail))
  BY DEF BeginVerified
<1>4. call' = [f \in CallFields |-> call'[f]]
  BY DEF BeginVerified, CallFields
<1> QED
  BY <1>1, <1>2, <1>3, <1>4 DEF PositionInv, IsCall

\* A read without verification moves on or wants a seek.
LEMMA ReadOnceKeepsPosition ==
    ASSUME PositionInv, NEW frames \in 1..MaxFrames, ReadOnce(frames)
    PROVE  PositionInv'
<1>1. /\ frames \in Nat \ {0} /\ position + frames <= PlayableEnd(offset) /\ positioned
      /\ UNCHANGED <<offset, policy, tail>>
  BY StackAssumption DEF ReadOnce, setup
<1>2. call' = NoCall
  BY DEF ReadOnce, Finish
<1>3. position' = position + frames \/ position' = position
  BY DEF ReadOnce
<1>4. PlayableBegin(offset) \in Int /\ PlayableEnd(offset) \in Int
  BY WindowBounds DEF PositionInv
<1> QED
  BY <1>1, <1>2, <1>3, <1>4 DEF PositionInv

\* An attempt accepts, rejects, or leaves the position to the next one.
LEMMA AttemptKeepsPosition ==
    ASSUME PositionInv, AttemptRead
    PROVE  PositionInv'
<1>1. PICK answer : Attempt(answer)
  BY DEF AttemptRead
<1> DEFINE read == InnerRead(position - call.overlap, call.frames + call.overlap, answer)
           c    == WithAttempt(read)
           candidate == c.candidates[Found(read)]
<1>2. call # NoCall /\ IsCall(call)
  BY DEF AttemptRead, PositionInv
<1>3. IsCall(c) /\ c.frames = call.frames /\ c.overlap = call.overlap
  BY <1>2, AttemptKeepsCall
<1>4. UNCHANGED setup
  BY <1>1 DEF Attempt
<1>5. \/ Accept(c, candidate)
      \/ Reject(c)
      \/ call' = c /\ UNCHANGED readerState
  BY <1>1 DEF Attempt
<1> HIDE DEF c, candidate, read
<1>6. CASE Accept(c, candidate)
  BY <1>2, <1>3, <1>4, <1>6, AcceptKeepsPosition
<1>7. CASE Reject(c)
  BY <1>4, <1>7, RejectKeepsPosition
<1>8. CASE call' = c /\ UNCHANGED readerState
  BY <1>2, <1>3, <1>4, <1>8 DEF PositionInv, IsCall, setup, readerState
<1> QED
  BY <1>5, <1>6, <1>7, <1>8

\* Every step keeps what is read next in the playable window.
LEMMA NextKeepsPosition == PositionInv /\ [Next]_vars => PositionInv'
<1> SUFFICES ASSUME PositionInv, [Next]_vars PROVE PositionInv'
  OBVIOUS
<1>1. ASSUME NEW lba \in SeekTo[policy], Seek(lba) PROVE PositionInv'
  BY <1>1, SeekKeepsPosition
<1>2. ASSUME NEW frames \in 1..MaxFrames, BeginVerified(frames) PROVE PositionInv'
  BY <1>2, BeginKeepsPosition
<1>3. ASSUME NEW frames \in 1..MaxFrames, ReadOnce(frames) PROVE PositionInv'
  BY <1>3, ReadOnceKeepsPosition
<1>4. CASE AttemptRead
  BY <1>4, AttemptKeepsPosition
<1>5. CASE OutOfTime
  BY <1>5, RejectKeepsPosition DEF OutOfTime
<1>6. CASE UNCHANGED vars
  BY <1>6 DEF vars, setup, readerState, PositionInv, IsCall
<1> QED
  BY <1>1, <1>2, <1>3, <1>4, <1>5, <1>6 DEF Next

\* For every disc, frame size, offset and policy, with any overlap, the reader
\* asks the drive for frames of the disc only: a read at either edge of the
\* playable window, and the overlap before it, stay between the first track
\* and the lead-out (OffsetReader::read under RepeatedReadVerifier::read).
THEOREM ReadsStayOnDiscAlways == Spec => []ReadsStayOnDisc
<1>1. Spec => []PositionInv
  BY InitPosition, NextKeepsPosition, PTL DEF Spec
<1> QED
  BY <1>1, InvIsOnDisc, PTL

-----------------------------------------------------------------------------
(* What leaves the reader.                                                 *)

\* A corrected frame, as any samples, and pieces of PCM.
CdFrames == [1..Frame -> Int]
Pcm == Seq(CdFrames)

\* The pcm is of so many frames from start, each sample right or as the drive
\* got it wrong.
InPlace(pcm, start, frames) ==
    /\ pcm \in Pcm /\ Len(pcm) = frames
    /\ \A f \in 1..frames, i \in 1..Frame :
          LET s == (start + f - 1) * Frame + offset + i - 1
          IN  pcm[f][i] \in {s, -1 - s}

IsSeq(s) == Len(s) \in Nat /\ s = [k \in 1..Len(s) |-> s[k]]

\* The complete attempts that read pcm.
Votes(as, pcm) == {k \in 1..Len(as) : as[k].pcm = pcm}

\* A candidate is in place, was read at least so often as it says, and has
\* the C2 status of all the attempts that read it.
Backed(c, as, start, frames) ==
    /\ c = [pcm |-> c.pcm, matches |-> c.matches, c2 |-> c.c2]
    /\ InPlace(c.pcm, start, frames)
    /\ c.matches \in Nat /\ c.matches <= Cardinality(Votes(as, c.pcm))
    /\ c.c2 = "clean" => \A k \in Votes(as, c.pcm) : as[k].c2s = {"clean"}
    /\ c.c2 = "reported" <=> \E k \in Votes(as, c.pcm) : "reported" \in as[k].c2s

Ending(s, n) == SubSeq(s, Len(s) - n + 1, Len(s))

\* The tail is the end of what was delivered before.
Continued(before) == tail = Ending(before, Smaller(Overlap, Len(before)))

\* Every complete attempt read one candidate, and no two candidates are alike.
CandidatesInv(c, as) ==
    /\ IsSeq(c.candidates)
    /\ \A i \in 1..Len(c.candidates) : Backed(c.candidates[i], as, position - c.overlap, c.frames + c.overlap)
    /\ \A i, j \in 1..Len(c.candidates) : Same(c.candidates[i], c.candidates[j].pcm) => i = j
    /\ \A k \in 1..Len(as) : \E i \in 1..Len(c.candidates) : Same(c.candidates[i], as[k].pcm)

CallInv ==
    call # NoCall =>
        /\ result = NoResult /\ policy = "repeat"
        /\ Continued(previous) /\ call.overlap = Len(tail)
        /\ CandidatesInv(call, attempts)

ResultInv ==
    /\ result.status = "ok" => result.pcm \in Pcm /\ AcceptedIsAgreed
    /\ call = NoCall /\ positioned /\ policy = "repeat" => Continued(Delivered(result))

AgreedInv == PositionInv /\ IsSeq(attempts) /\ previous \in Pcm /\ CallInv /\ ResultInv

\* Merging is clean only if all was, and reported if anything was.
LEMMA MergedFacts ==
    ASSUME NEW S
    PROVE  /\ MergedC2(S) = "clean" => S = {"clean"}
           /\ MergedC2(S) = "reported" <=> "reported" \in S
<1>1. CASE "reported" \in S
  BY <1>1 DEF MergedC2
<1>2. CASE "reported" \notin S /\ \E c \in S : S = {c}
  <2>1. PICK c \in S : S = {c}
    BY <1>2
  <2>2. MergedC2(S) = c
    BY <1>2, <2>1 DEF MergedC2
  <2> QED
    BY <1>2, <2>1, <2>2
<1>3. CASE "reported" \notin S /\ ~\E c \in S : S = {c}
  BY <1>3 DEF MergedC2
<1> QED
  BY <1>1, <1>2, <1>3

\* The pieces may be merged one by one: the status of some of them and that of
\* one more give the status of all of them.
LEMMA MergedOneByOne ==
    ASSUME NEW S, S # {}, NEW c
    PROVE  MergeC2(MergedC2(S), c) = MergedC2(S \cup {c})
<1> DEFINE m == MergedC2(S)
<1>1. CASE "reported" \in S
  BY <1>1 DEF MergedC2, MergeC2
<1>2. CASE c = "reported"
  BY <1>2 DEF MergedC2, MergeC2
<1>3. CASE "reported" \notin S /\ c # "reported"
  <2>1. CASE \E d \in S : S = {d}
    <3>1. PICK d \in S : S = {d}
      BY <2>1
    <3>2. m = d /\ S \cup {c} = {d, c}
      BY <1>3, <3>1 DEF MergedC2
    <3> QED
      BY <3>2 DEF MergeC2
  <2>2. CASE ~\E d \in S : S = {d}
    <3>1. m = "unknown"
      BY <1>3, <2>2 DEF MergedC2
    <3>2. ~\E d \in S \cup {c} : S \cup {c} = {d}
      BY <2>2
    <3>3. MergedC2(S \cup {c}) = "unknown"
      BY <1>3, <3>2 DEF MergedC2
    <3>4. MergedC2({"unknown", c}) = "unknown"
      <4>1. CASE c = "unknown"
        <5>1. {"unknown", c} = {"unknown"}
          BY <4>1
        <5> QED
          BY <5>1 DEF MergedC2
      <4>2. CASE c # "unknown"
        <5>1. ~\E d \in {"unknown", c} : {"unknown", c} = {d}
          BY <4>2
        <5> QED
          BY <1>3, <5>1 DEF MergedC2
      <4> QED
        BY <4>1, <4>2
    <3> QED
      BY <3>1, <3>3, <3>4 DEF MergeC2
  <2> QED
    BY <2>1, <2>2
<1> QED
  BY <1>1, <1>2, <1>3

\* What a read that is complete, or not, reads of the frames it was asked for.
LEMMA InnerReadPcm ==
    ASSUME NEW lba, NEW frames, NEW answer
    PROVE  InnerRead(lba, frames, answer).pcm = Corrected(lba, frames, answer.bad)
BY DEF InnerRead, Physical

\* The C2 status of a read is that of its blocks.
LEMMA InnerReadC2 ==
    ASSUME NEW lba, NEW frames, NEW answer
    PROVE  LET read == InnerRead(lba, frames, answer)
           IN  /\ read.c2 = "clean" => read.c2s = {"clean"}
               /\ read.c2 = "reported" <=> "reported" \in read.c2s
<1> DEFINE p == Physical(EndLba(lba, frames, offset) - FirstLba(lba, offset), answer.blocks)
           read == InnerRead(lba, frames, answer)
<1>1. read.c2 = p.c2 /\ read.c2s = p.c2s
  BY DEF InnerRead, Physical
<1>2. \/ p.c2s # {} /\ p.c2 = MergedC2(p.c2s)
      \/ p.c2s = {} /\ p.c2 \in {"not_checked", "unknown"}
  BY DEF Physical
<1> QED
  BY <1>1, <1>2, MergedFacts

\* The samples of a read are those it was asked for: what the cut skips is what
\* the physical frames hold before them.
LEMMA CorrectedIsInPlace ==
    ASSUME offset \in Int, NEW lba \in Int, NEW frames \in Nat, NEW bad
    PROVE  InPlace(Corrected(lba, frames, bad), lba, frames)
<1> DEFINE base == FirstLba(lba, offset) * Frame
           pcm == Corrected(lba, frames, bad)
<1>1. Frame \in Nat \ {0}
  BY OffsetAssumption
<1>2. FirstSample(lba, offset) = lba * Frame + offset /\ lba * Frame \in Int
  BY <1>1 DEF FirstSample
<1>3. base \in Int
  <2>1. FirstLba(lba, offset) \in Int
    BY <1>1, <1>2, DivBounds DEF FirstLba
  <2> QED
    BY <1>1, <2>1
<1>4. Cut(lba) = lba * Frame + offset - base
  BY <1>2, <1>3 DEF Cut
<1> HIDE DEF base
<1>5. ASSUME NEW f \in 1..frames, NEW i \in 1..Frame
      PROVE  /\ pcm[f][i] \in Int
             /\ LET s == (lba + f - 1) * Frame + offset + i - 1
                IN  pcm[f][i] \in {s, -1 - s}
  <2> DEFINE s == (lba + f - 1) * Frame + offset + i - 1
             t == base + Cut(lba) + (f - 1) * Frame + i - 1
  <2>1. (lba + f - 1) * Frame = lba * Frame + (f - 1) * Frame /\ (f - 1) * Frame \in Int
    BY <1>1
  <2>2. s \in Int /\ s = t
    BY <1>1, <1>2, <1>3, <1>4, <2>1
  <2>3. pcm[f][i] = Sample(t, bad)
    BY DEF Corrected, base
  <2> HIDE DEF s, t
  <2>4. pcm[f][i] \in {s, -1 - s} /\ pcm[f][i] \in Int
    BY <2>2, <2>3 DEF Sample
  <2> QED
    BY <2>4 DEF s
<1>6. pcm = [f \in 1..frames |-> pcm[f]] /\ \A f \in 1..frames : pcm[f] = [i \in 1..Frame |-> pcm[f][i]]
  BY DEF Corrected
<1> HIDE DEF pcm
<1>7. pcm \in [1..frames -> CdFrames]
  BY <1>5, <1>6 DEF CdFrames
<1>8. pcm \in Pcm /\ Len(pcm) = frames
  BY <1>7 DEF Pcm
<1> QED
  BY <1>5, <1>8 DEF InPlace, pcm

\* A sequence with one more element.
LEMMA OneMore ==
    ASSUME NEW s, IsSeq(s), NEW x
    PROVE  /\ IsSeq(Append(s, x)) /\ Len(Append(s, x)) = Len(s) + 1
           /\ \A k \in 1..Len(s) : Append(s, x)[k] = s[k]
           /\ Append(s, x)[Len(s) + 1] = x
<1> DEFINE S == {s[k] : k \in 1..Len(s)} \cup {x}
<1>1. Len(s) \in Nat /\ s \in [1..Len(s) -> S]
  BY DEF IsSeq
<1>2. s \in Seq(S) /\ x \in S
  BY <1>1
<1> HIDE DEF S
<1>3. /\ Append(s, x) \in Seq(S) /\ Len(Append(s, x)) = Len(s) + 1
      /\ \A k \in 1..Len(s) : Append(s, x)[k] = s[k]
      /\ Append(s, x)[Len(s) + 1] = x
  BY <1>2
<1>4. Append(s, x) = [k \in 1..Len(Append(s, x)) |-> Append(s, x)[k]]
  BY <1>3, LenProperties
<1> QED
  BY <1>3, <1>4 DEF IsSeq

\* An attempt among those before one more.
LEMMA OneMoreKeeps ==
    ASSUME NEW s, IsSeq(s), NEW x, NEW K, K \subseteq 1..Len(s)
    PROVE  \A k \in K : Append(s, x)[k] = s[k]
<1>1. ASSUME NEW k \in 1..Len(s) PROVE Append(s, x)[k] = s[k]
  BY OneMore, ZenonT(30)
<1> QED
  BY <1>1, Zenon

\* The votes are a finite set.
LEMMA VotesAreFinite ==
    ASSUME NEW as, IsSeq(as), NEW pcm
    PROVE  /\ IsFiniteSet(Votes(as, pcm)) /\ Cardinality(Votes(as, pcm)) \in Nat
           /\ Votes(as, pcm) \subseteq 1..Len(as)
<1>1. Votes(as, pcm) \in SUBSET (1..Len(as))
  BY DEF Votes
<1>2. IsFiniteSet(1..Len(as))
  <2> DEFINE n == Len(as)
  <2>1. n \in Nat
    BY DEF IsSeq
  <2> HIDE DEF n
  <2>2. IsFiniteSet(1..n)
    BY <2>1, FS_Interval
  <2> QED
    BY <2>2 DEF n
<1>3. IsFiniteSet(Votes(as, pcm))
  BY <1>1, <1>2, FS_Subset
<1> QED
  BY <1>1, <1>3, FS_CardinalityType

\* One more attempt is one more vote for what it read, and for nothing else.
LEMMA VotesGrow ==
    ASSUME NEW as, IsSeq(as), NEW a, NEW pcm
    PROVE  Votes(Append(as, a), pcm) = Votes(as, pcm) \cup (IF a.pcm = pcm THEN {Len(as) + 1} ELSE {})
<1> DEFINE n == Len(as)
<1>1. n \in Nat
  BY DEF IsSeq
<1>2. /\ Len(Append(as, a)) = n + 1 /\ Append(as, a)[n + 1] = a
      /\ \A k \in 1..n : Append(as, a)[k] = as[k]
  <2>1. Len(Append(as, a)) = n + 1
    BY OneMore
  <2>2. Append(as, a)[n + 1] = a
    BY OneMore
  <2>3. \A k \in 1..n : Append(as, a)[k] = as[k]
    BY OneMoreKeeps
  <2> QED
    BY <2>1, <2>2, <2>3
<1> HIDE DEF n
<1>3. \A k : k \in 1..(n + 1) <=> k \in 1..n \/ k = n + 1
  BY <1>1
<1> QED
  BY <1>2, <1>3 DEF Votes, n

\* So a vote for it counts one more.
LEMMA VoteCounts ==
    ASSUME NEW as, IsSeq(as), NEW a, NEW pcm, a.pcm = pcm
    PROVE  /\ Votes(Append(as, a), pcm) = Votes(as, pcm) \cup {Len(as) + 1}
           /\ Cardinality(Votes(Append(as, a), pcm)) = Cardinality(Votes(as, pcm)) + 1
<1>1. Votes(Append(as, a), pcm) = Votes(as, pcm) \cup {Len(as) + 1}
  BY VotesGrow
<1>2. Len(as) + 1 \notin Votes(as, pcm)
  <2> DEFINE n == Len(as)
  <2>1. n \in Nat
    BY DEF IsSeq
  <2> HIDE DEF n
  <2>2. n + 1 \notin 1..n
    BY <2>1
  <2> QED
    BY <2>2, VotesAreFinite DEF n
<1> QED
  BY ZenonT(30), <1>1, <1>2, VotesAreFinite, FS_AddElement

\* A candidate, and a sequence with its i-th candidate, counted once more.
Counted(e, t) == [e EXCEPT !.matches = @ + 1, !.c2 = MergeC2(@, t)]
OneCounted(s, i, t) == [s EXCEPT ![i].matches = @ + 1, ![i].c2 = MergeC2(@, t)]

LEMMA OneIsCounted ==
    ASSUME NEW s, IsSeq(s), NEW i \in 1..Len(s), NEW t
    PROVE  /\ IsSeq(OneCounted(s, i, t)) /\ Len(OneCounted(s, i, t)) = Len(s)
           /\ OneCounted(s, i, t)[i] = Counted(s[i], t)
           /\ \A j \in 1..Len(s) : j # i => OneCounted(s, i, t)[j] = s[j]
<1> DEFINE n == Len(s)
           m == s[i].matches + 1
           r == MergeC2(s[i].c2, t)
           y == [s[i] EXCEPT !.matches = m, !.c2 = r]
           u == [s EXCEPT ![i].matches = m, ![i].c2 = r]
<1>1. n \in Nat /\ s = [k \in 1..n |-> s[k]]
  BY DEF IsSeq
<1> HIDE DEF n, m, r
<1>2. u = [k \in 1..n |-> IF k = i THEN y ELSE s[k]]
  BY <1>1
<1> HIDE DEF y, u
<1>3. IsSeq(u) /\ Len(u) = n
  <2>1. u = [k \in 1..n |-> u[k]] /\ Len(u) = n
    BY <1>1, <1>2
  <2> QED
    BY <1>1, <2>1 DEF IsSeq
<1>4. u[i] = y /\ \A j \in 1..n : j # i => u[j] = s[j]
  BY <1>2 DEF n
<1> QED
  BY <1>3, <1>4 DEF u, n, m, r, y, OneCounted, Counted

\* The candidate that an attempt is found to be.
LEMMA FoundIsTheOne ==
    ASSUME NEW read, IsSeq(call.candidates),
           \A i, j \in 1..Len(call.candidates) : Same(call.candidates[i], call.candidates[j].pcm) => i = j
    PROVE  LET n == Len(call.candidates)
               i == Found(read)
           IN  \/ i = n + 1 /\ \A j \in 1..n : call.candidates[j].pcm # read.pcm
               \/ i \in 1..n /\ call.candidates[i].pcm = read.pcm
<1> DEFINE n == Len(call.candidates)
           known == {i \in 1..n : Same(call.candidates[i], read.pcm)}
<1>1. Found(read) = IF known = {} THEN n + 1 ELSE CHOOSE i \in known : \A j \in known : i <= j
  BY DEF Found
<1>2. CASE known = {}
  BY <1>1, <1>2 DEF Same
<1>3. CASE known # {}
  <2>1. PICK i \in known : TRUE
    BY <1>3
  <2>2. \A j \in known : j = i
    BY <2>1 DEF Same
  <2>3. i \in Int
    BY <2>1 DEF IsSeq
  <2>4. \A j \in known : i <= j
    BY <2>2, <2>3
  <2>5. Found(read) \in known
    <3> HIDE DEF known
    <3> QED
      BY <1>1, <1>3, <2>1, <2>4
  <2> QED
    BY <2>5 DEF Same
<1> QED
  BY <1>2, <1>3

\* One more complete attempt that read what a candidate is: its count and its
\* C2 status tell of it too.
LEMMA BackedByOneMore ==
    ASSUME NEW as, IsSeq(as), NEW start, NEW frames, NEW c, Backed(c, as, start, frames),
           NEW read, read.pcm = c.pcm,
           read.c2 = "clean" => read.c2s = {"clean"},
           read.c2 = "reported" <=> "reported" \in read.c2s
    PROVE  Backed(Counted(c, read.c2),
                  Append(as, [pcm |-> read.pcm, c2s |-> read.c2s]), start, frames)
<1> DEFINE a == [pcm |-> read.pcm, c2s |-> read.c2s]
           bs == Append(as, a)
           d == Counted(c, read.c2)
           V == Votes(as, c.pcm)
           W == Votes(bs, c.pcm)
<1>1. /\ d.pcm = c.pcm /\ d.matches = c.matches + 1 /\ d.c2 = MergeC2(c.c2, read.c2)
      /\ d = [pcm |-> d.pcm, matches |-> d.matches, c2 |-> d.c2]
  <2>1. c = [pcm |-> c.pcm, matches |-> c.matches, c2 |-> c.c2]
    BY DEF Backed
  <2>2. PICK p, m, s : c = [pcm |-> p, matches |-> m, c2 |-> s]
    BY <2>1
  <2> DEFINE u == c.matches + 1
             t == MergeC2(c.c2, read.c2)
  <2>3. d = [c EXCEPT !.matches = u, !.c2 = t]
    BY DEF Counted
  <2> HIDE DEF d, u, t
  <2>4. d.pcm = c.pcm /\ d.matches = u /\ d.c2 = t
    BY <2>2, <2>3
  <2>5. d = [pcm |-> d.pcm, matches |-> d.matches, c2 |-> d.c2]
    BY <2>2, <2>3
  <2> QED
    BY <2>4, <2>5 DEF u, t
<1>7. a.c2s = read.c2s /\ a.pcm = c.pcm
  OBVIOUS
<1> HIDE DEF a, d
<1>2. /\ W = V \cup {Len(as) + 1} /\ Cardinality(W) = Cardinality(V) + 1 /\ Cardinality(V) \in Nat
  <2>1. /\ Votes(Append(as, a), c.pcm) = Votes(as, c.pcm) \cup {Len(as) + 1}
        /\ Cardinality(Votes(Append(as, a), c.pcm)) = Cardinality(Votes(as, c.pcm)) + 1
    BY ZenonT(30), <1>7, VoteCounts
  <2>2. Cardinality(Votes(as, c.pcm)) \in Nat
    BY VotesAreFinite
  <2> QED
    BY <2>1, <2>2
<1>3. /\ \A k \in V : bs[k] = as[k]
      /\ bs[Len(as) + 1] = a
  <2>1. V \subseteq 1..Len(as)
    BY VotesAreFinite
  <2> HIDE DEF V
  <2>2. \A k \in V : Append(as, a)[k] = as[k]
    BY ZenonT(30), <2>1, OneMoreKeeps
  <2>3. Append(as, a)[Len(as) + 1] = a
    BY OneMore
  <2> QED
    BY <2>2, <2>3
<1>4. /\ d.c2 = "clean" => c.c2 = "clean" /\ read.c2 = "clean"
      /\ d.c2 = "reported" <=> c.c2 = "reported" \/ read.c2 = "reported"
  <2>1. /\ d.c2 = "clean" => {c.c2, read.c2} = {"clean"}
        /\ d.c2 = "reported" <=> "reported" \in {c.c2, read.c2}
    BY <1>1, MergedFacts DEF MergeC2
  <2>2. \A x, y : {x, y} = {"clean"} => x = "clean" /\ y = "clean"
    OBVIOUS
  <2>3. \A x, y : "reported" \in {x, y} <=> x = "reported" \/ y = "reported"
    OBVIOUS
  <2> HIDE DEF d
  <2> QED
    BY <2>1, <2>2, <2>3
<1>5. InPlace(c.pcm, start, frames) /\ c.matches \in Nat /\ c.matches <= Cardinality(V)
  BY DEF Backed
<1>6. /\ c.c2 = "clean" => \A k \in V : as[k].c2s = {"clean"}
      /\ c.c2 = "reported" <=> \E k \in V : "reported" \in as[k].c2s
  BY DEF Backed
<1> HIDE DEF bs, d, V, W
<1>8. d.c2 = "clean" => \A k \in W : bs[k].c2s = {"clean"}
  BY <1>2, <1>3, <1>4, <1>6, <1>7
<1>9. d.c2 = "reported" <=> \E k \in W : "reported" \in bs[k].c2s
  <2>1. (\E k \in W : "reported" \in bs[k].c2s) <=>
          (\E k \in V : "reported" \in as[k].c2s) \/ "reported" \in read.c2s
    BY <1>2, <1>3, <1>7
  <2> QED
    BY <1>4, <1>6, <2>1
<1>10. d.matches \in Nat /\ d.matches <= Cardinality(W)
  BY <1>1, <1>2, <1>5
<1>11. Backed(d, bs, start, frames)
  BY <1>1, <1>5, <1>8, <1>9, <1>10 DEF Backed, W
<1> QED
  BY <1>11 DEF d, bs, a

\* An attempt that read something else changes nothing of a candidate.
LEMMA BackedByOthers ==
    ASSUME NEW as, IsSeq(as), NEW start, NEW frames, NEW c, Backed(c, as, start, frames),
           NEW a, a.pcm # c.pcm
    PROVE  Backed(c, Append(as, a), start, frames)
<1>1. Votes(Append(as, a), c.pcm) = Votes(as, c.pcm) \cup (IF a.pcm = c.pcm THEN {Len(as) + 1} ELSE {})
  BY VotesGrow
<1>2. \A k \in Votes(as, c.pcm) : Append(as, a)[k] = as[k]
  BY VotesAreFinite, OneMoreKeeps
<1> QED
  BY <1>1, <1>2 DEF Backed

\* A step that keeps the offset keeps what a candidate is backed by.
LEMMA BackedKept ==
    ASSUME offset' = offset
    PROVE  \A x, as, s, n : Backed(x, as, s, n)' <=> Backed(x, as, s, n)
<1> TAKE x, as, s, n
<1>1. InPlace(x.pcm, s, n)' <=> InPlace(x.pcm, s, n)
  BY DEF InPlace
<1> QED
  BY <1>1, Zenon DEF Backed

\* A new candidate is what one attempt read, the only one.
LEMMA BackedByOne ==
    ASSUME NEW as, IsSeq(as), NEW start, NEW frames, NEW read,
           InPlace(read.pcm, start, frames),
           \A k \in 1..Len(as) : as[k].pcm # read.pcm,
           read.c2 = "clean" => read.c2s = {"clean"},
           read.c2 = "reported" <=> "reported" \in read.c2s
    PROVE  Backed([pcm |-> read.pcm, matches |-> 1, c2 |-> read.c2],
                  Append(as, [pcm |-> read.pcm, c2s |-> read.c2s]), start, frames)
<1> DEFINE a == [pcm |-> read.pcm, c2s |-> read.c2s]
           bs == Append(as, a)
           W == Votes(bs, read.pcm)
<1>1. Votes(as, read.pcm) = {}
  BY DEF Votes
<1>4. a.c2s = read.c2s /\ a.pcm = read.pcm
  OBVIOUS
<1> HIDE DEF a
<1>2. W = {Len(as) + 1} /\ bs[Len(as) + 1] = a
  <2>1. W = Votes(as, read.pcm) \cup {Len(as) + 1}
    BY <1>4, VoteCounts
  <2>2. bs[Len(as) + 1] = a
    BY OneMore
  <2> HIDE DEF W
  <2> QED
    BY <1>1, <2>1, <2>2
<1> HIDE DEF bs, W
<1>3. Cardinality(W) = 1
  BY <1>2, FS_Singleton
<1>5. /\ read.c2 = "clean" => \A k \in W : bs[k].c2s = {"clean"}
      /\ read.c2 = "reported" <=> \E k \in W : "reported" \in bs[k].c2s
  BY <1>2, <1>4
<1>6. Backed([pcm |-> read.pcm, matches |-> 1, c2 |-> read.c2], bs, start, frames)
  BY <1>3, <1>5 DEF Backed, W
<1> QED
  BY <1>6 DEF bs, a

\* A complete attempt, in place, with the C2 status of its blocks.
GoodRead(read) ==
    /\ InPlace(read.pcm, position - call.overlap, call.frames + call.overlap)
    /\ read.c2 = "clean" => read.c2s = {"clean"}
    /\ read.c2 = "reported" <=> "reported" \in read.c2s

\* One more complete attempt leaves the candidates what they are to be, and is
\* one of them.
LEMMA CandidatesWithOneMore ==
    ASSUME CandidatesInv(call, attempts), IsSeq(attempts), NEW read, GoodRead(read),
           NEW c, c.candidates = WithCandidate(read), c.frames = call.frames, c.overlap = call.overlap
    PROVE  LET cs == WithCandidate(read)
               as == Append(attempts, [pcm |-> read.pcm, c2s |-> read.c2s])
           IN  /\ CandidatesInv(c, as)
               /\ Found(read) \in 1..Len(cs) /\ cs[Found(read)].pcm = read.pcm
<1> DEFINE ds == call.candidates
           n  == Len(ds)
           i  == Found(read)
           a  == [pcm |-> read.pcm, c2s |-> read.c2s]
           as == Append(attempts, a)
           cs == WithCandidate(read)
           start == position - call.overlap
           frames == call.frames + call.overlap
           Good(es) ==
             /\ IsSeq(es)
             /\ \A j \in 1..Len(es) : Backed(es[j], as, start, frames)
             /\ \A j, k \in 1..Len(es) : Same(es[j], es[k].pcm) => j = k
             /\ \A k \in 1..Len(as) : \E j \in 1..Len(es) : Same(es[j], as[k].pcm)
             /\ i \in 1..Len(es) /\ es[i].pcm = read.pcm
<1>1. /\ IsSeq(ds)
      /\ \A j \in 1..n : Backed(ds[j], attempts, start, frames)
      /\ \A j, k \in 1..n : Same(ds[j], ds[k].pcm) => j = k
      /\ \A k \in 1..Len(attempts) : \E j \in 1..n : Same(ds[j], attempts[k].pcm)
  BY DEF CandidatesInv
<1>2. n \in Nat /\ Len(attempts) \in Nat
  BY <1>1 DEF IsSeq
<1>3. \/ i = n + 1 /\ \A j \in 1..n : ds[j].pcm # read.pcm
      \/ i \in 1..n /\ ds[i].pcm = read.pcm
  BY <1>1, FoundIsTheOne
<1>4. /\ InPlace(read.pcm, start, frames)
      /\ read.c2 = "clean" => read.c2s = {"clean"}
      /\ read.c2 = "reported" <=> "reported" \in read.c2s
  BY DEF GoodRead
<1>5. a.pcm = read.pcm
  OBVIOUS
<1>6. /\ Len(as) = Len(attempts) + 1 /\ as[Len(attempts) + 1] = a
      /\ \A k \in 1..Len(attempts) : as[k] = attempts[k]
  <2>1. Len(as) = Len(attempts) + 1
    BY OneMore
  <2>2. as[Len(attempts) + 1] = a
    BY OneMore
  <2>3. \A k \in 1..Len(attempts) : as[k] = attempts[k]
    BY OneMoreKeeps
  <2> QED
    BY <2>1, <2>2, <2>3
<1>7. Good(cs)
  <2>1. CASE i = n + 1 /\ \A j \in 1..n : ds[j].pcm # read.pcm
    <3> DEFINE e == [pcm |-> read.pcm, matches |-> 1, c2 |-> read.c2]
    <3>1. cs = Append(ds, e)
      BY <1>2, <2>1 DEF WithCandidate
    <3>2. IsSeq(cs) /\ Len(cs) = n + 1 /\ cs[n + 1] = e /\ \A j \in 1..n : cs[j] = ds[j]
      BY <1>1, <3>1, OneMore
    <3>3. \A k \in 1..Len(attempts) : attempts[k].pcm # read.pcm
      <4>1. ASSUME NEW k \in 1..Len(attempts) PROVE attempts[k].pcm # read.pcm
        <5>1. PICK j \in 1..n : Same(ds[j], attempts[k].pcm)
          BY <1>1
        <5> QED
          BY <2>1, <5>1 DEF Same
      <4> QED
        BY <4>1
    <3>4. Backed(e, as, start, frames)
      BY <1>4, <3>3, BackedByOne
    <3>5. ASSUME NEW j \in 1..n PROVE Backed(ds[j], as, start, frames)
      <4>1. Backed(ds[j], attempts, start, frames) /\ a.pcm # ds[j].pcm
        BY <1>1, <1>5, <2>1
      <4> HIDE DEF a
      <4> QED
        BY <4>1, BackedByOthers
    <3>6. e.pcm = read.pcm
      OBVIOUS
    <3> HIDE DEF n, e, a, as, cs, ds, start, frames, i
    <3>7. \A j : j \in 1..(n + 1) <=> j \in 1..n \/ j = n + 1
      BY <1>2
    <3>8. \A k : k \in 1..(Len(attempts) + 1) <=> k \in 1..Len(attempts) \/ k = Len(attempts) + 1
      BY <1>2
    <3>9. \A j \in 1..Len(cs) : Backed(cs[j], as, start, frames)
      BY <3>2, <3>4, <3>5, <3>7
    <3>10. \A j, k \in 1..Len(cs) : Same(cs[j], cs[k].pcm) => j = k
      BY <1>1, <2>1, <3>2, <3>6, <3>7 DEF Same, n
    <3>11. \A k \in 1..Len(as) : \E j \in 1..Len(cs) : Same(cs[j], as[k].pcm)
      <4>1. ASSUME NEW k \in 1..Len(attempts) PROVE \E j \in 1..Len(cs) : Same(cs[j], as[k].pcm)
        <5>1. PICK j \in 1..n : Same(ds[j], attempts[k].pcm)
          BY <1>1 DEF n
        <5> QED
          BY <1>6, <3>2, <3>7, <5>1
      <4>2. Same(cs[n + 1], as[Len(attempts) + 1].pcm) /\ n + 1 \in 1..Len(cs)
        BY <1>5, <1>6, <3>2, <3>6, <3>7 DEF Same
      <4> QED
        BY <1>6, <3>8, <4>1, <4>2
    <3>12. i \in 1..Len(cs) /\ cs[i].pcm = read.pcm
      BY <2>1, <3>2, <3>6, <3>7
    <3> QED
      BY <3>2, <3>9, <3>10, <3>11, <3>12
  <2>2. CASE i \in 1..n /\ ds[i].pcm = read.pcm
    <3>1. cs = OneCounted(ds, i, read.c2)
      BY <1>2, <2>2 DEF WithCandidate, OneCounted
    <3> DEFINE e == Counted(ds[i], read.c2)
    <3>2. IsSeq(cs) /\ Len(cs) = n /\ cs[i] = e /\ \A j \in 1..n : j # i => cs[j] = ds[j]
      <4> HIDE DEF ds, i, cs
      <4>1. i \in 1..Len(ds) /\ IsSeq(ds)
        BY <1>1, <2>2
      <4>2. IsSeq(cs) /\ Len(cs) = Len(ds)
        BY <3>1, <4>1, OneIsCounted
      <4>3. cs[i] = e
        BY <3>1, <4>1, OneIsCounted
      <4>4. \A j \in 1..Len(ds) : j # i => cs[j] = ds[j]
        BY <3>1, <4>1, OneIsCounted
      <4> QED
        BY <4>2, <4>3, <4>4
    <3>3. Backed(ds[i], attempts, start, frames)
      BY <1>1, <2>2
    <3>4. Backed(e, as, start, frames)
      BY <1>4, <2>2, <3>3, BackedByOneMore
    <3>5. ASSUME NEW j \in 1..n, j # i PROVE Backed(ds[j], as, start, frames)
      <4>1. Backed(ds[j], attempts, start, frames) /\ a.pcm # ds[j].pcm
        BY <1>1, <1>5, <2>2, <3>5 DEF Same
      <4> HIDE DEF a
      <4> QED
        BY <4>1, BackedByOthers
    <3>6. e.pcm = read.pcm
      <4>1. ds[i] = [pcm |-> ds[i].pcm, matches |-> ds[i].matches, c2 |-> ds[i].c2]
        BY <3>3 DEF Backed
      <4>2. PICK p, m, s : ds[i] = [pcm |-> p, matches |-> m, c2 |-> s]
        BY <4>1
      <4> QED
        BY <2>2, <4>2 DEF Counted
    <3> HIDE DEF n, e, a, as, cs, ds, start, frames, i
    <3>8. \A k : k \in 1..(Len(attempts) + 1) <=> k \in 1..Len(attempts) \/ k = Len(attempts) + 1
      BY <1>2
    <3>9. \A j \in 1..n : cs[j].pcm = ds[j].pcm
      BY <2>2, <3>2, <3>6
    <3>10. \A j \in 1..Len(cs) : Backed(cs[j], as, start, frames)
      BY <3>2, <3>4, <3>5
    <3>11. \A j, k \in 1..Len(cs) : Same(cs[j], cs[k].pcm) => j = k
      BY <1>1, <3>2, <3>9 DEF Same, n
    <3>12. \A k \in 1..Len(as) : \E j \in 1..Len(cs) : Same(cs[j], as[k].pcm)
      <4>1. ASSUME NEW k \in 1..Len(attempts) PROVE \E j \in 1..Len(cs) : Same(cs[j], as[k].pcm)
        <5>1. PICK j \in 1..n : Same(ds[j], attempts[k].pcm)
          BY <1>1 DEF n
        <5> QED
          BY <1>6, <3>2, <3>9, <5>1 DEF Same
      <4>2. Same(cs[i], as[Len(attempts) + 1].pcm) /\ i \in 1..Len(cs)
        BY <1>5, <1>6, <2>2, <3>2, <3>6 DEF Same
      <4> QED
        BY <1>6, <3>8, <4>1, <4>2
    <3>13. i \in 1..Len(cs) /\ cs[i].pcm = read.pcm
      BY <2>2, <3>2, <3>6
    <3> QED
      BY <3>2, <3>10, <3>11, <3>12, <3>13
  <2> QED
    BY <1>3, <2>1, <2>2
<1> QED
  BY <1>7 DEF CandidatesInv

-----------------------------------------------------------------------------
(* What is accepted.                                                       *)

\* What is behind the start of a piece.
LEMMA Behind ==
    ASSUME NEW S, NEW p \in Seq(S), NEW o \in Nat, NEW f \in Nat, Len(p) = o + f
    PROVE  LET u == SubSeq(p, o + 1, o + f)
           IN  u \in Seq(S) /\ Len(u) = f /\ \A k \in 1..f : u[k] = p[o + k]
<1> DEFINE u == SubSeq(p, o + 1, o + f)
<1>1. \A k \in (o + 1)..(o + f) : p[k] \in S
  BY ElementOfSeq
<1>2. o + 1 \in Int /\ o + f \in Int
  OBVIOUS
<1>3. /\ u \in Seq(S) /\ Len(u) = (IF o + 1 <= o + f THEN (o + f) - (o + 1) + 1 ELSE 0)
      /\ \A k \in 1..((o + f) - (o + 1) + 1) : u[k] = p[(o + 1) + k - 1]
  BY <1>1, <1>2, SubSeqProperties
<1> HIDE DEF u
<1>4. (o + f) - (o + 1) + 1 = f /\ (o + 1 <= o + f <=> 1 <= f)
  OBVIOUS
<1>5. \A k \in 1..f : (o + 1) + k - 1 = o + k
  OBVIOUS
<1>6. u \in Seq(S) /\ Len(u) = f
  BY <1>3, <1>4
<1>7. \A k \in 1..f : u[k] = p[o + k]
  BY <1>3, <1>4, <1>5
<1> QED
  BY <1>6, <1>7 DEF u

\* A piece of PCM behind its start is the whole again.
LEMMA JoinedAgain ==
    ASSUME NEW S, NEW pcm \in Seq(S), NEW o \in Nat, NEW f \in Nat, Len(pcm) = o + f,
           NEW t \in Seq(S), Len(t) = o, o = 0 \/ SubSeq(pcm, 1, o) = t
    PROVE  t \o SubSeq(pcm, o + 1, o + f) = pcm
<1> DEFINE u == SubSeq(pcm, o + 1, o + f)
<1>2. u \in Seq(S) /\ Len(u) = f /\ \A k \in 1..f : u[k] = pcm[o + k]
  BY Behind
<1>3. \A k \in 1..o : t[k] = pcm[k]
  <2>1. CASE o = 0
    BY <2>1
  <2>2. CASE SubSeq(pcm, 1, o) = t
    <3>1. \A k \in 1..o : pcm[k] \in S
      BY ElementOfSeq
    <3>2. \A k \in 1..(o - 1 + 1) : SubSeq(pcm, 1, o)[k] = pcm[1 + k - 1]
      BY <3>1, SubSeqProperties
    <3> QED
      BY <2>2, <3>2
  <2> QED
    BY <2>1, <2>2
<1> HIDE DEF u
<1>4. /\ t \o u \in Seq(S) /\ Len(t \o u) = o + f
      /\ \A k \in 1..(o + f) : (t \o u)[k] = IF k <= o THEN t[k] ELSE u[k - o]
  BY <1>2, ConcatProperties
<1>5. ASSUME NEW k \in 1..(o + f) PROVE (t \o u)[k] = pcm[k]
  <2>1. CASE k <= o
    BY <1>3, <1>4, <2>1
  <2>2. CASE ~(k <= o)
    <3>1. k - o \in 1..f /\ o + (k - o) = k
      BY <2>2
    <3> QED
      BY <1>2, <1>4, <2>2, <3>1
  <2> QED
    BY <2>1, <2>2
<1>6. t \o u = pcm
  BY <1>4, <1>5, SeqEqual
<1> QED
  BY <1>6 DEF u

\* The end of a piece of PCM is PCM.
LEMMA EndingIsPcm ==
    ASSUME NEW p \in Pcm, NEW n \in Nat, n <= Len(p)
    PROVE  Ending(p, n) \in Pcm /\ Len(Ending(p, n)) = n
<1> DEFINE m == Len(p)
<1>1. m \in Nat /\ \A k \in 1..m : p[k] \in CdFrames
  BY ElementOfSeq, LenProperties DEF Pcm
<1>2. Ending(p, n) = SubSeq(p, m - n + 1, m)
  BY DEF Ending
<1>3. n <= m
  OBVIOUS
<1> HIDE DEF m
<1>4. m - n + 1 \in Int /\ m \in Int /\ \A k \in (m - n + 1)..m : p[k] \in CdFrames
  BY <1>1, <1>3
<1>5. /\ SubSeq(p, m - n + 1, m) \in Seq(CdFrames)
      /\ Len(SubSeq(p, m - n + 1, m)) = IF m - n + 1 <= m THEN m - (m - n + 1) + 1 ELSE 0
  BY <1>4, SubSeqProperties
<1>6. (IF m - n + 1 <= m THEN m - (m - n + 1) + 1 ELSE 0) = n
  BY <1>1, <1>3
<1> QED
  BY <1>2, <1>5, <1>6 DEF Pcm

\* The frames behind the overlap are in place when all are.
LEMMA BehindIsInPlace ==
    ASSUME offset \in Int, NEW p, NEW start \in Int, NEW o \in Nat, NEW f \in Nat,
           InPlace(p, start, f + o)
    PROVE  InPlace(SubSeq(p, o + 1, o + f), start + o, f)
<1> DEFINE u == SubSeq(p, o + 1, o + f)
<1>1. p \in Seq(CdFrames) /\ Len(p) = o + f /\ f + o = o + f
  BY DEF InPlace, Pcm
<1>3. u \in Seq(CdFrames) /\ Len(u) = f /\ \A k \in 1..f : u[k] = p[o + k]
  BY <1>1, Behind
<1> HIDE DEF u
<1>4. ASSUME NEW k \in 1..f, NEW i \in 1..Frame
      PROVE  LET s == (start + o + k - 1) * Frame + offset + i - 1
             IN  u[k][i] \in {s, -1 - s}
  <2>1. o + k \in 1..(f + o) /\ start + (o + k) - 1 = start + o + k - 1
    OBVIOUS
  <2>2. p[o + k][i] \in {(start + (o + k) - 1) * Frame + offset + i - 1,
                         -1 - ((start + (o + k) - 1) * Frame + offset + i - 1)}
    BY <2>1 DEF InPlace
  <2> QED
    BY <1>3, <2>1, <2>2
<1>5. InPlace(u, start + o, f)
  BY <1>3, <1>4 DEF InPlace, Pcm
<1> QED
  BY <1>5 DEF u

\* The tail, with the overlap's length.
LEMMA TailIsPcm ==
    ASSUME previous \in Pcm, Continued(previous)
    PROVE  /\ tail \in Pcm /\ Len(tail) = Smaller(Overlap, Len(previous))
           /\ Len(tail) \in Nat
<1>1. Len(previous) \in Nat
  BY LenProperties DEF Pcm
<1>2. /\ Smaller(Overlap, Len(previous)) \in Nat
      /\ Smaller(Overlap, Len(previous)) <= Len(previous)
  BY <1>1, StackAssumption DEF Smaller
<1> QED
  BY <1>2, EndingIsPcm DEF Continued

\* An accepted read: its PCM was read by enough attempts behind the overlap,
\* each with a C2 status that it answers for, and the tail is its end.
LEMMA AcceptKeepsAgreed ==
    ASSUME AgreedInv, call # NoCall, NEW c, NEW candidate,
           c.frames = call.frames, c.overlap = call.overlap,
           Backed(candidate, attempts', position - call.overlap, call.frames + call.overlap),
           IsSeq(attempts'),
           Enough(candidate.matches), Continues(c, candidate), Accept(c, candidate),
           UNCHANGED <<setup, previous>>
    PROVE  AgreedInv'
<1> DEFINE o == call.overlap
           f == call.frames
           p == candidate.pcm
           u == SubSeq(p, o + 1, o + f)
           V == Votes(attempts', p)
<1>1. /\ offset \in Int /\ policy = "repeat" /\ position \in Int /\ PositionInv
      /\ f \in Nat \ {0} /\ o \in Nat
      /\ previous \in Pcm /\ Continued(previous) /\ o = Len(tail)
  BY DEF AgreedInv, PositionInv, CallInv, IsCall
<1>2. /\ InPlace(p, position - o, f + o)
      /\ candidate.matches \in Nat /\ candidate.matches <= Cardinality(V)
      /\ candidate.c2 = "clean" => \A k \in V : attempts'[k].c2s = {"clean"}
      /\ candidate.c2 = "reported" <=> \E k \in V : "reported" \in attempts'[k].c2s
  BY DEF Backed
<1>3. PositionInv'
  <2>1. UNCHANGED setup
    OBVIOUS
  <2> QED
    BY <1>1, <2>1, AcceptKeepsPosition
<1>4. /\ call' = NoCall /\ positioned' = positioned
      /\ result'.status = "ok" /\ result'.start = position /\ result'.frames = f
      /\ result'.pcm = u /\ result'.c2 = candidate.c2
      /\ tail' = SubSeq(u, f - Smaller(Overlap, f) + 1, f)
  BY DEF Accept, Finish
<1>5. UNCHANGED <<offset, policy, previous>>
  BY DEF setup
<1>6. tail \in Pcm /\ Len(tail) = Smaller(Overlap, Len(previous))
      /\ tail = Ending(previous, Smaller(Overlap, Len(previous)))
  BY <1>1, TailIsPcm DEF Continued
<1>7. o = 0 \/ SubSeq(p, 1, o) = tail
  BY DEF Continues
<1>8. InPlace(u, position, f)
  <2>1. position - o \in Int /\ (position - o) + o = position /\ f \in Nat
    BY <1>1
  <2> HIDE DEF o, f, p
  <2>2. InPlace(SubSeq(p, o + 1, o + f), (position - o) + o, f)
    BY <1>1, <1>2, <2>1, BehindIsInPlace
  <2> QED
    BY <2>1, <2>2
<1>9. tail \o u = p
  <2>1. p \in Seq(CdFrames) /\ Len(p) = o + f /\ tail \in Seq(CdFrames)
    BY <1>1, <1>2, <1>6 DEF InPlace, Pcm
  <2> HIDE DEF o, f, p
  <2> QED
    BY <1>1, <1>7, <2>1, JoinedAgain
<1> HIDE DEF o, f, p, u, V
<1>10. Agreeing' = V
  <2>1. DOMAIN attempts' = 1..Len(attempts')
    BY DEF IsSeq
  <2>2. Agreeing' = {i \in 1..Len(attempts') : attempts'[i].pcm = tail \o u}
    BY <1>1, <1>4, <1>5, <1>6, <2>1 DEF Agreeing, Ending
  <2> QED
    BY <1>9, <2>2 DEF V, Votes
<1>11. Cardinality(Agreeing') >= Required
  <2>1. candidate.matches >= Required
    BY DEF Enough
  <2>2. Cardinality(V) \in Nat
    BY VotesAreFinite DEF V
  <2> QED
    BY <1>2, <1>10, <2>1, <2>2, StackAssumption
<1>12. AcceptedIsAgreed'
  <2>1. /\ Len(result'.pcm) = result'.frames
        /\ \A g \in 1..result'.frames, i \in 1..Frame :
              LET s == (result'.start + g - 1) * Frame + offset' + i - 1
              IN  result'.pcm[g][i] \in {s, -1 - s}
    BY <1>4, <1>5, <1>8 DEF InPlace
  <2>2. /\ result'.c2 = "clean" => \A k \in Agreeing' : attempts'[k].c2s = {"clean"}
        /\ result'.c2 = "reported" <=> \E k \in Agreeing' : "reported" \in attempts'[k].c2s
    BY <1>2, <1>4, <1>10
  <2> QED
    BY <1>1, <1>5, <1>11, <2>1, <2>2 DEF AcceptedIsAgreed
<1>13. ResultInv'
  <2>1. result'.pcm \in Pcm /\ Len(result'.pcm) = f
    BY <1>4, <1>8 DEF InPlace
  <2>2. Delivered(result') = u
    BY <1>4 DEF Delivered
  <2>3. Continued(Delivered(result))'
    BY <1>4, <2>1, <2>2 DEF Continued, Ending
  <2> QED
    BY <1>12, <2>1, <2>3 DEF ResultInv
<1>14. CallInv'
  BY <1>4 DEF CallInv
<1> QED
  BY <1>1, <1>3, <1>5, <1>13, <1>14 DEF AgreedInv

\* A rejected read delivers nothing and wants a seek.
LEMMA RejectKeepsAgreed ==
    ASSUME AgreedInv, NEW c, Reject(c), IsSeq(attempts'), UNCHANGED <<setup, previous>>
    PROVE  AgreedInv'
<1>1. PositionInv'
  BY RejectKeepsPosition DEF AgreedInv
<1>2. result'.status = "error" /\ call' = NoCall /\ positioned' = FALSE
  BY DEF Reject, Finish
<1> QED
  BY <1>1, <1>2 DEF AgreedInv, CallInv, ResultInv

\* A reader that was just made has delivered nothing.
LEMMA InitAgreed == Init => AgreedInv
<1> SUFFICES ASSUME Init PROVE AgreedInv
  OBVIOUS
<1>1. PositionInv
  BY InitPosition
<1>2. IsSeq(attempts)
  BY DEF Init, IsSeq
<1>3. previous \in Pcm
  BY EmptySeq DEF Init, Pcm
<1>4. CallInv /\ ResultInv
  BY DEF Init, CallInv, ResultInv, NoResult
<1> QED
  BY <1>1, <1>2, <1>3, <1>4 DEF AgreedInv

\* A seek forgets what was delivered.
LEMMA SeekKeepsAgreed ==
    ASSUME AgreedInv, NEW lba \in SeekTo[policy], Seek(lba)
    PROVE  AgreedInv'
<1>1. PositionInv'
  BY SeekKeepsPosition DEF AgreedInv
<1>2. /\ call' = NoCall /\ result' = NoResult /\ attempts' = <<>> /\ previous' = <<>> /\ tail' = <<>>
  BY DEF Seek, ForgetTail
<1>3. IsSeq(attempts') /\ previous' \in Pcm
  BY <1>2, EmptySeq DEF IsSeq, Pcm
<1>4. Continued(Delivered(result))'
  <2>1. Delivered(result') = <<>>
    BY <1>2 DEF Delivered, NoResult
  <2>2. Smaller(Overlap, Len(<<>>)) = 0 /\ Len(<<>>) = 0
    BY StackAssumption DEF Smaller
  <2>3. Ending(<<>>, 0) = <<>>
    BY SubSeqEmpty, <2>2 DEF Ending
  <2> QED
    BY <1>2, <2>1, <2>2, <2>3 DEF Continued
<1>5. CallInv' /\ ResultInv'
  BY <1>2, <1>4 DEF CallInv, ResultInv, NoResult
<1> QED
  BY <1>1, <1>3, <1>5 DEF AgreedInv

\* A verified read begins without candidates, after what was delivered.
LEMMA BeginKeepsAgreed ==
    ASSUME AgreedInv, NEW frames \in 1..MaxFrames, BeginVerified(frames)
    PROVE  AgreedInv'
<1>1. PositionInv'
  BY BeginKeepsPosition DEF AgreedInv
<1>2. /\ result' = NoResult /\ attempts' = <<>> /\ previous' = Delivered(result)
      /\ call'.candidates = <<>> /\ call'.overlap = Smaller(Overlap, Len(tail)) /\ policy' = "repeat"
      /\ UNCHANGED <<position, tail, policy>>
  BY DEF BeginVerified, setup, readerState
<1>3. Continued(Delivered(result))
  BY DEF BeginVerified, AgreedInv, ResultInv
<1>4. Delivered(result) \in Pcm
  BY EmptySeq DEF AgreedInv, ResultInv, Delivered, Pcm
<1>5. previous' \in Pcm /\ Continued(previous)' /\ IsSeq(attempts')
  BY <1>2, <1>3, <1>4 DEF Continued, IsSeq
<1>6. call'.overlap = Len(tail')
  <2> DEFINE d == Delivered(result)
  <2>1. Len(d) \in Nat
    BY <1>4, LenProperties DEF Pcm
  <2>2. Smaller(Overlap, Len(d)) \in Nat /\ Smaller(Overlap, Len(d)) <= Len(d)
    BY <2>1, StackAssumption DEF Smaller
  <2> HIDE DEF d
  <2>3. d \in Pcm /\ tail = Ending(d, Smaller(Overlap, Len(d)))
    BY <1>3, <1>4 DEF d, Continued
  <2>4. Len(tail) = Smaller(Overlap, Len(d))
    BY <2>2, <2>3, EndingIsPcm
  <2>5. Smaller(Overlap, Len(tail)) = Len(tail)
    BY <2>1, <2>4, StackAssumption DEF Smaller
  <2> QED
    BY <1>2, <2>5
<1>7. CandidatesInv(call, attempts)'
  BY <1>2 DEF CandidatesInv, IsSeq
<1>8. CallInv'
  BY <1>2, <1>5, <1>6, <1>7 DEF CallInv
<1>9. call' # NoCall
  <2>1. call'.frames = frames
    BY DEF BeginVerified
  <2> QED
    BY <2>1, StackAssumption DEF NoCall
<1>10. ResultInv'
  BY <1>2, <1>9 DEF ResultInv, NoResult
<1> QED
  BY <1>1, <1>5, <1>8, <1>10 DEF AgreedInv

\* A sequence of one.
LEMMA SingletonIsSeq == ASSUME NEW x PROVE IsSeq(<<x>>)
<1>1. <<x>> \in Seq({x}) /\ Len(<<x>>) = 1
  OBVIOUS
<1>2. <<x>> = [k \in 1..Len(<<x>>) |-> <<x>>[k]]
  BY <1>1, LenProperties
<1> QED
  BY <1>1, <1>2 DEF IsSeq

\* A read without verification delivers what it read, or nothing.
LEMMA ReadOnceKeepsAgreed ==
    ASSUME AgreedInv, NEW frames \in 1..MaxFrames, ReadOnce(frames)
    PROVE  AgreedInv'
<1>1. PICK answer :
        LET read == InnerRead(position, frames, answer)
        IN  /\ result' = [status |-> IF read.complete THEN "ok" ELSE "error",
                          start |-> position, frames |-> frames,
                          pcm |-> IF read.complete THEN read.pcm ELSE <<>>,
                          c2 |-> read.c2, retried |-> read.retried,
                          attempts |-> 0, matching |-> 0, mismatches |-> 0]
            /\ attempts' = IF read.complete THEN <<[pcm |-> read.pcm, c2s |-> read.c2s]>> ELSE <<>>
  BY DEF ReadOnce, Finish
<1> DEFINE read == InnerRead(position, frames, answer)
<1>2. /\ call' = NoCall /\ policy = "single" /\ previous' = Delivered(result)
      /\ UNCHANGED <<offset, policy>>
  BY DEF ReadOnce, Finish, setup
<1>3. PositionInv'
  BY ReadOnceKeepsPosition DEF AgreedInv
<1>4. previous' \in Pcm
  BY <1>2, EmptySeq DEF AgreedInv, ResultInv, Delivered, Pcm
<1>5. frames \in Nat /\ frames \in Int /\ position \in Int /\ offset \in Int
  BY StackAssumption DEF AgreedInv, PositionInv
<1>6. InPlace(read.pcm, position, frames)
  BY <1>5, InnerReadPcm, CorrectedIsInPlace
<1>7. /\ read.c2 = "clean" => read.c2s = {"clean"}
      /\ read.c2 = "reported" <=> "reported" \in read.c2s
  BY InnerReadC2
<1>8. IsSeq(attempts')
  <2> HIDE DEF read
  <2>1. attempts' = <<[pcm |-> read.pcm, c2s |-> read.c2s]>> \/ attempts' = <<>>
    BY <1>1 DEF read
  <2>2. IsSeq(<<>>)
    BY DEF IsSeq
  <2> QED
    BY <2>1, <2>2, SingletonIsSeq
<1>9. CallInv'
  BY <1>2 DEF CallInv
<1>10. ResultInv'
  <2>1. CASE ~read.complete
    <3>1. result'.status = "error"
      BY <1>1, <2>1
    <3> QED
      BY <1>2, <3>1 DEF ResultInv
  <2>2. CASE read.complete
    <3> DEFINE a == [pcm |-> read.pcm, c2s |-> read.c2s]
    <3>1. /\ result'.status = "ok" /\ result'.start = position /\ result'.frames = frames
          /\ result'.pcm = read.pcm /\ result'.c2 = read.c2
      BY <1>1, <2>2
    <3>2. attempts' = <<a>>
      BY <1>1, <2>2
    <3>3. a.pcm = read.pcm /\ a.c2s = read.c2s
      OBVIOUS
    <3> HIDE DEF read, a
    <3>4. read.pcm \in Pcm /\ Len(read.pcm) = frames
      BY <1>6 DEF InPlace
    <3>5. Agreeing' = {1} /\ attempts'[1] = a
      <4> DEFINE n == Len(previous')
      <4>1. n \in Nat
        BY <1>4, LenProperties DEF Pcm
      <4>2. DOMAIN attempts' = {1} /\ attempts'[1] = a
        BY <3>2
      <4>3. SubSeq(previous', n - 0 + 1, n) = <<>>
        <5> HIDE DEF n
        <5>1. n - 0 + 1 \in Int /\ n \in Int /\ n < n - 0 + 1
          BY <4>1
        <5> QED
          BY <5>1, SubSeqEmpty
      <4>4. <<>> \o read.pcm = read.pcm
        BY <3>4, ConcatEmptySeq DEF Pcm
      <4>5. Agreeing' = {i \in DOMAIN attempts' : attempts'[i].pcm = <<>> \o read.pcm}
        BY <1>2, <3>1, <4>3 DEF Agreeing
      <4> QED
        BY <3>3, <4>2, <4>4, <4>5
    <3>6. Cardinality(Agreeing') = 1
      BY <3>5, FS_Singleton
    <3>7. /\ Len(result'.pcm) = result'.frames
          /\ \A f \in 1..result'.frames, i \in 1..Frame :
                LET s == (result'.start + f - 1) * Frame + offset' + i - 1
                IN  result'.pcm[f][i] \in {s, -1 - s}
      BY <1>2, <1>6, <3>1 DEF InPlace
    <3>8. /\ result'.c2 = "clean" => \A k \in Agreeing' : attempts'[k].c2s = {"clean"}
          /\ result'.c2 = "reported" <=> \E k \in Agreeing' : "reported" \in attempts'[k].c2s
      BY <1>7, <3>1, <3>3, <3>5
    <3>9. AcceptedIsAgreed'
      BY <1>2, <3>6, <3>7, <3>8 DEF AcceptedIsAgreed
    <3> QED
      BY <1>2, <3>1, <3>4, <3>9 DEF ResultInv
  <2> QED
    BY <2>1, <2>2
<1> QED
  BY <1>3, <1>4, <1>8, <1>9, <1>10 DEF AgreedInv

\* An attempt counts a candidate, and accepts it, rejects the read or leaves it
\* to the next attempt.
LEMMA AttemptKeepsAgreed ==
    ASSUME AgreedInv, AttemptRead
    PROVE  AgreedInv'
<1>1. PICK answer : Attempt(answer)
  BY DEF AttemptRead
<1> DEFINE start == position - call.overlap
           frames == call.frames + call.overlap
           read == InnerRead(start, frames, answer)
           c    == WithAttempt(read)
           candidate == c.candidates[Found(read)]
           a == [pcm |-> read.pcm, c2s |-> read.c2s]
<1>2. /\ call # NoCall /\ IsCall(call) /\ PositionInv /\ CallInv /\ IsSeq(attempts)
      /\ previous \in Pcm /\ CandidatesInv(call, attempts)
  BY DEF AttemptRead, AgreedInv, PositionInv, CallInv
<1>3. IsCall(c) /\ c.frames = call.frames /\ c.overlap = call.overlap
  BY <1>2, AttemptKeepsCall
<1>4. GoodRead(read)
  <2>1. offset \in Int /\ start \in Int /\ frames \in Nat
    BY SMTT(30), <1>2 DEF PositionInv, IsCall
  <2>2. InPlace(read.pcm, start, frames)
    BY <2>1, InnerReadPcm, CorrectedIsInPlace
  <2> QED
    BY <2>2, InnerReadC2 DEF GoodRead
<1>5. UNCHANGED <<setup, previous>>
  BY <1>1 DEF Attempt
<1>6. /\ attempts' = IF read.complete THEN Append(attempts, a) ELSE attempts
      /\ \/ read.complete /\ Enough(candidate.matches) /\ Continues(c, candidate) /\ Accept(c, candidate)
         \/ Reject(c)
         \/ call' = c /\ UNCHANGED <<readerState, result, recorded>>
  BY <1>1 DEF Attempt
<1>7. read.complete => c.candidates = WithCandidate(read)
  BY <1>2 DEF WithAttempt, IsCall, CallFields
<1>8. ~read.complete => c.candidates = call.candidates
  BY <1>2 DEF WithAttempt, IsCall, CallFields
<1> HIDE DEF read, c
<1>9. /\ CandidatesInv(c, attempts') /\ IsSeq(attempts')
      /\ read.complete => Found(read) \in 1..Len(c.candidates)
  <2>1. CASE read.complete
    <3>1. attempts' = Append(attempts, a)
      BY <1>6, <2>1
    <3>2. IsSeq(Append(attempts, a))
      BY <1>2, OneMore
    <3>3. c.candidates = WithCandidate(read)
      BY <1>7, <2>1
    <3>4. CandidatesInv(c, Append(attempts, a)) /\ Found(read) \in 1..Len(WithCandidate(read))
      BY <1>2, <1>3, <1>4, <3>3, CandidatesWithOneMore
    <3> QED
      BY <3>1, <3>2, <3>3, <3>4
  <2>2. CASE ~read.complete
    <3>1. attempts' = attempts /\ c.candidates = call.candidates
      BY <1>6, <1>8, <2>2
    <3> QED
      BY <1>2, <1>3, <2>2, <3>1 DEF CandidatesInv
  <2> QED
    BY <2>1, <2>2
<1>10. CASE read.complete /\ Enough(candidate.matches) /\ Continues(c, candidate) /\ Accept(c, candidate)
  <2>1. Backed(candidate, attempts', position - call.overlap, call.frames + call.overlap)
    BY <1>3, <1>9, <1>10 DEF CandidatesInv
  <2> HIDE DEF candidate
  <2> QED
    BY <1>2, <1>3, <1>5, <1>9, <1>10, <2>1, AcceptKeepsAgreed
<1>11. CASE Reject(c)
  BY <1>5, <1>9, <1>11, RejectKeepsAgreed
<1>12. CASE call' = c /\ UNCHANGED <<readerState, result, recorded>>
  <2>1. UNCHANGED <<position, positioned, tail, result, policy, previous>>
    BY <1>5, <1>12 DEF readerState, setup
  <2>2. PositionInv'
    BY AttemptKeepsPosition DEF AgreedInv
  <2>3. CandidatesInv(call, attempts)'
    <3>1. offset' = offset
      BY <1>5 DEF setup
    <3> QED
      BY <1>9, <1>12, <2>1, <3>1, BackedKept DEF CandidatesInv
  <2>4. result' = NoResult /\ policy' = "repeat" /\ Continued(previous)' /\ call'.overlap = Len(tail')
    BY <1>2, <1>3, <1>12, <2>1 DEF CallInv, Continued
  <2>5. CallInv'
    BY <2>3, <2>4 DEF CallInv
  <2>6. call' # NoCall
    BY <1>3, <1>12 DEF IsCall, NoCall
  <2>7. ResultInv'
    BY <2>4, <2>6 DEF ResultInv, NoResult
  <2> QED
    BY <1>2, <1>9, <2>1, <2>2, <2>5, <2>7 DEF AgreedInv
<1> QED
  BY <1>6, <1>10, <1>11, <1>12

\* Every step keeps it.
LEMMA NextKeepsAgreed == AgreedInv /\ [Next]_vars => AgreedInv'
<1> SUFFICES ASSUME AgreedInv, [Next]_vars PROVE AgreedInv'
  OBVIOUS
<1>1. ASSUME NEW lba \in SeekTo[policy], Seek(lba) PROVE AgreedInv'
  BY <1>1, SeekKeepsAgreed
<1>2. ASSUME NEW frames \in 1..MaxFrames, BeginVerified(frames) PROVE AgreedInv'
  BY <1>2, BeginKeepsAgreed
<1>3. ASSUME NEW frames \in 1..MaxFrames, ReadOnce(frames) PROVE AgreedInv'
  BY <1>3, ReadOnceKeepsAgreed
<1>4. CASE AttemptRead
  BY <1>4, AttemptKeepsAgreed
<1>5. CASE OutOfTime
  <2>1. Reject(call) /\ UNCHANGED <<setup, previous>> /\ IsSeq(attempts')
    BY <1>5 DEF OutOfTime, AgreedInv
  <2> QED
    BY <2>1, RejectKeepsAgreed
<1>6. CASE UNCHANGED vars
  <2>1. UNCHANGED <<offset, policy, position, positioned, tail, call, result, attempts, previous>>
    BY <1>6 DEF vars, setup, readerState
  <2>2. PositionInv' /\ IsSeq(attempts') /\ previous' \in Pcm
    BY <2>1, <1>6, NextKeepsPosition DEF AgreedInv
  <2>3. CallInv'
    <3>1. CandidatesInv(call, attempts) => CandidatesInv(call, attempts)'
      BY <2>1, BackedKept DEF CandidatesInv
    <3> QED
      BY <2>1, <3>1 DEF AgreedInv, CallInv, Continued
  <2>4. AcceptedIsAgreed' <=> AcceptedIsAgreed
    BY <2>1 DEF AcceptedIsAgreed, Agreeing
  <2>5. ResultInv'
    BY <2>1, <2>4 DEF AgreedInv, ResultInv, Continued
  <2> QED
    BY <2>2, <2>3, <2>5 DEF AgreedInv
<1> QED
  BY <1>1, <1>2, <1>3, <1>4, <1>5, <1>6 DEF Next

\* PCM that leaves the reader is, for every disc, offset and policy, and for
\* every number of attempts and frames of overlap, what enough whole reads of
\* those frames agreed on, each sample in its place, in one piece with what was
\* delivered before, and with the C2 status of exactly those reads
\* (RepeatedReadVerifier::read over OffsetReader::read over LinuxIoctlReader::read).
THEOREM AcceptedIsAgreedAlways == Spec => []AcceptedIsAgreed
<1>1. Spec => []AgreedInv
  BY InitAgreed, NextKeepsAgreed, PTL DEF Spec
<1>2. AgreedInv => AcceptedIsAgreed
  BY DEF AgreedInv, ResultInv, AcceptedIsAgreed
<1> QED
  BY <1>1, <1>2, PTL

-----------------------------------------------------------------------------
(* What is recorded of the reads.                                          *)

\* A set of numbers has a least element.
LEMMA LeastExists == ASSUME NEW S \in SUBSET Nat, S # {} PROVE \E m \in S : \A y \in S : m <= y
<1>1. IsWellFoundedOn(OpToRel(<, Nat), Nat)
  BY NatLessThanWellFounded
<1>2. PICK x \in S : \A y \in S : ~ (<<y, x>> \in OpToRel(<, Nat))
  BY <1>1, WFMin
<1>3. \A y \in S : x <= y
  <2> SUFFICES ASSUME NEW y \in S PROVE ~(y < x)
    OBVIOUS
  <2> QED
    BY <1>2 DEF OpToRel
<1> QED
  BY <1>3

\* A bound of a set that is in it is what Min, or Max, gives.
LEMMA MinIs == ASSUME NEW S \in SUBSET Int, NEW m \in S, \A y \in S : m <= y PROVE Min(S) = m
<1>1. Min(S) \in S /\ \A y \in S : Min(S) <= y
  BY DEF Min
<1>2. Min(S) \in Int /\ m \in Int /\ Min(S) <= m /\ m <= Min(S)
  BY <1>1
<1> QED
  BY <1>2

LEMMA MaxIs == ASSUME NEW S \in SUBSET Int, NEW m \in S, \A y \in S : m >= y PROVE Max(S) = m
<1>1. Max(S) \in S /\ \A y \in S : Max(S) >= y
  BY DEF Max
<1>2. Max(S) \in Int /\ m \in Int /\ Max(S) >= m /\ m >= Max(S)
  BY <1>1
<1> QED
  BY <1>2

\* Intervals of frames: begin.. end - 1, and at least one.
IsInterval(r) == r.begin \in Int /\ r.end \in Int /\ r.begin < r.end

Intervals == {r \in [begin : Int, end : Int] : r.begin < r.end}

Separated(s) == \A i, j \in DOMAIN s : i < j => s[i].end < s[j].begin

\* The frames of some regions of a sequence.
Within(s, a, b) == {f \in Int : \E i \in a..b : InRegion(f, s[i])}
FramesOf(r) == {f \in Int : InRegion(f, r)}

\* An interval holds as many frames as its size says.
LEMMA FramesCounted ==
    ASSUME NEW r, IsInterval(r)
    PROVE  IsFiniteSet(FramesOf(r)) /\ Cardinality(FramesOf(r)) = Size(r)
<1>1. FramesOf(r) = r.begin..(r.end - 1)
  BY DEF FramesOf, InRegion, IsInterval
<1>2. r.begin \in Int /\ r.end - 1 \in Int /\ r.begin < r.end
  BY DEF IsInterval
<1>3. /\ IsFiniteSet(r.begin..(r.end - 1))
      /\ Cardinality(r.begin..(r.end - 1)) = IF r.begin > r.end - 1 THEN 0 ELSE (r.end - 1) - r.begin + 1
  BY <1>2, FS_Interval
<1> QED
  BY <1>1, <1>2, <1>3 DEF Size, IsInterval

\* The sums of the sizes of the first regions exist: if they did up to one
\* place and not up to the next, that one could be added.
LEMMA TotalSizeIs ==
    ASSUME NEW s \in Seq(Intervals)
    PROVE  \E sum : /\ sum = [i \in 0..Len(s) |-> IF i = 0 THEN 0 ELSE sum[i - 1] + Size(s[i])]
                    /\ TotalSize(s) = sum[Len(s)]
<1> DEFINE Sums(f, n) == f = [i \in 0..n |-> IF i = 0 THEN 0 ELSE f[i - 1] + Size(s[i])]
           missing == {n \in Nat : ~\E f : Sums(f, n)}
<1>1. missing = {}
  <2> SUFFICES ASSUME missing # {} PROVE FALSE
    OBVIOUS
  <2>1. PICK n \in missing : \A m \in missing : n <= m
    BY LeastExists
  <2>2. n # 0
    <3>1. Sums([i \in 0..0 |-> 0], 0)
      OBVIOUS
    <3> QED
      BY <3>1
  <2>3. n - 1 \in Nat /\ n - 1 \notin missing
    <3>1. n \in Nat /\ \A m \in missing : n <= m
      BY <2>1
    <3> HIDE DEF missing
    <3> QED
      BY <2>2, <3>1
  <2>4. PICK f : Sums(f, n - 1)
    BY <2>3
  <2> DEFINE g == [i \in 0..n |-> IF i = n THEN f[n - 1] + Size(s[n]) ELSE f[i]]
  <2>5. Sums(g, n)
    <3>1. ASSUME NEW i \in 0..n
          PROVE  g[i] = IF i = 0 THEN 0 ELSE g[i - 1] + Size(s[i])
      <4>1. CASE i = n
        <5>1. g[i] = f[n - 1] + Size(s[n]) /\ g[n - 1] = f[n - 1]
          BY <2>3, <4>1
        <5> QED
          BY <2>2, <4>1, <5>1
      <4>2. CASE i # n
        <5>1. i \in 0..(n - 1) /\ g[i] = f[i]
          BY <2>1, <4>2
        <5>2. f[i] = IF i = 0 THEN 0 ELSE f[i - 1] + Size(s[i])
          BY <2>4, <5>1
        <5>3. i # 0 => i - 1 \in 0..n /\ i - 1 # n
          BY <2>1, <5>1
        <5>4. i # 0 => g[i - 1] = f[i - 1]
          BY <5>3
        <5> QED
          BY <5>1, <5>2, <5>4
      <4> QED
        BY <4>1, <4>2
    <3>2. g = [i \in 0..n |-> g[i]]
      OBVIOUS
    <3> HIDE DEF g
    <3> QED
      BY <3>1, <3>2
  <2> QED
    BY <2>1, <2>5
<1>2. Len(s) \in Nat
  OBVIOUS
<1>3. \E f : Sums(f, Len(s))
  BY <1>1, <1>2
<1> DEFINE chosen == CHOOSE f : Sums(f, Len(s))
<1>4. Sums(chosen, Len(s))
  BY <1>3
<1>5. TotalSize(s) = chosen[Len(s)]
  BY DEF TotalSize
<1> QED
  BY <1>4, <1>5

\* Sets that share nothing have, together, as many elements as they have.
LEMMA DisjointUnion ==
    ASSUME NEW S, IsFiniteSet(S), NEW T, IsFiniteSet(T), S \cap T = {}
    PROVE  IsFiniteSet(S \cup T) /\ Cardinality(S \cup T) = Cardinality(S) + Cardinality(T)
<1>1. /\ IsFiniteSet(S \cup T)
      /\ Cardinality(S \cup T) = Cardinality(S) + Cardinality(T) - Cardinality(S \cap T)
  BY FS_Union
<1>2. Cardinality(S) \in Nat /\ Cardinality(T) \in Nat
  BY FS_CardinalityType
<1>3. Cardinality(S \cap T) = 0
  <2>1. IsFiniteSet(S \cap T)
    BY FS_Intersection
  <2> QED
    BY <2>1, FS_EmptySet
<1> QED
  BY <1>1, <1>2, <1>3

\* The sizes of separated regions, added up, count their frames.
LEMMA SizesCountFrames ==
    ASSUME NEW s \in Seq(Intervals), Separated(s)
    PROVE  /\ IsFiniteSet(Within(s, 1, Len(s)))
           /\ TotalSize(s) = Cardinality(Within(s, 1, Len(s)))
<1>1. PICK sum : /\ sum = [i \in 0..Len(s) |-> IF i = 0 THEN 0 ELSE sum[i - 1] + Size(s[i])]
                 /\ TotalSize(s) = sum[Len(s)]
  BY TotalSizeIs
<1> DEFINE SumsTo(k) == IsFiniteSet(Within(s, 1, k)) /\ sum[k] = Cardinality(Within(s, 1, k))
           wrong == {k \in 0..Len(s) : ~SumsTo(k)}
<1>2. wrong = {}
  <2> SUFFICES ASSUME wrong # {} PROVE FALSE
    OBVIOUS
  <2>0. wrong \in SUBSET Nat
    OBVIOUS
  <2>1. PICK k \in wrong : \A m \in wrong : k <= m
    <3> HIDE DEF wrong
    <3> QED
      BY <2>0, LeastExists
  <2>2. k \in 0..Len(s) /\ ~SumsTo(k) /\ \A m \in wrong : k <= m
    BY <2>1
  <2>3. k # 0
    <3>1. Within(s, 1, 0) = {}
      BY DEF Within
    <3>2. sum[0] = 0
      BY <1>1
    <3> QED
      BY <2>2, <3>1, <3>2, FS_EmptySet
  <2>4. k - 1 \in 0..Len(s) /\ k \in 1..Len(s)
    BY <2>2, <2>3
  <2>5. SumsTo(k - 1)
    <3>1. k - 1 \notin wrong
      <4> HIDE DEF wrong
      <4> QED
        BY <2>2, <2>4
    <3> QED
      BY <2>4, <3>1
  <2>6. IsInterval(s[k])
    BY <2>4 DEF Intervals, IsInterval
  <2>7. IsFiniteSet(FramesOf(s[k])) /\ Cardinality(FramesOf(s[k])) = Size(s[k])
    BY <2>6, FramesCounted
  <2>8. Within(s, 1, k) = Within(s, 1, k - 1) \cup FramesOf(s[k])
    BY <2>4 DEF Within, FramesOf
  <2>9. Within(s, 1, k - 1) \cap FramesOf(s[k]) = {}
    <3> SUFFICES ASSUME NEW f \in Int, NEW i \in 1..(k - 1), InRegion(f, s[i]), InRegion(f, s[k])
                 PROVE  FALSE
      BY DEF Within, FramesOf
    <3>1. i \in DOMAIN s /\ k \in DOMAIN s /\ i < k
      BY <2>4
    <3>2. s[i].end < s[k].begin
      BY <3>1 DEF Separated
    <3>3. s[i].end \in Int /\ s[k].begin \in Int
      BY <3>1 DEF Intervals
    <3> QED
      BY <3>2, <3>3 DEF InRegion
  <2>10. /\ IsFiniteSet(Within(s, 1, k))
         /\ Cardinality(Within(s, 1, k)) = Cardinality(Within(s, 1, k - 1)) + Size(s[k])
    <3>1. /\ IsFiniteSet(Within(s, 1, k - 1) \cup FramesOf(s[k]))
          /\ Cardinality(Within(s, 1, k - 1) \cup FramesOf(s[k]))
               = Cardinality(Within(s, 1, k - 1)) + Cardinality(FramesOf(s[k]))
      BY <2>5, <2>7, <2>9, DisjointUnion
    <3> QED
      BY <2>7, <2>8, <3>1
  <2>11. sum[k] = sum[k - 1] + Size(s[k])
    BY <1>1, <2>4
  <2> QED
    BY <2>2, <2>5, <2>10, <2>11
<1>3. Len(s) \in 0..Len(s)
  OBVIOUS
<1> QED
  BY <1>1, <1>2, <1>3

\* The coverage loop's first region is where the search ends.
LEMMA FirstReachedIs ==
    ASSUME NEW s \in Seq(Intervals), NEW new \in Intervals
    PROVE  /\ FirstReached(s, new) \in 1..(Len(s) + 1)
           /\ \A j \in 1..(FirstReached(s, new) - 1) : s[j].end < new.begin
           /\ FirstReached(s, new) <= Len(s) => s[FirstReached(s, new)].end >= new.begin
<1> DEFINE stops == {i \in 1..(Len(s) + 1) : i <= Len(s) => s[i].end >= new.begin}
<1>1. Len(s) + 1 \in stops /\ stops \in SUBSET Nat
  OBVIOUS
<1>2. PICK i \in stops : \A y \in stops : i <= y
  <2> HIDE DEF stops
  <2> QED
    BY <1>1, LeastExists
<1>3. i \in 1..(Len(s) + 1) /\ (i <= Len(s) => s[i].end >= new.begin)
  BY <1>2
<1>4. ASSUME NEW j \in 1..(i - 1) PROVE s[j].end < new.begin
  <2>1. j \in 1..(Len(s) + 1) /\ j < i /\ j \in 1..Len(s)
    BY <1>3
  <2>2. j \notin stops
    <3> HIDE DEF stops
    <3> QED
      BY <1>2, <1>3, <2>1
  <2>3. s[j].end \in Int /\ new.begin \in Int
    BY <2>1 DEF Intervals
  <2> QED
    BY <2>1, <2>2, <2>3
<1> QED
  BY <1>3, <1>4 DEF FirstReached

\* The hull of an interval is one.
LEMMA HullIs ==
    ASSUME NEW new \in Intervals, NEW absorbed
    PROVE  Hull(new, absorbed) = [begin |-> Min({new.begin} \cup {r.begin : r \in absorbed}),
                                  end   |-> Max({new.end} \cup {r.end : r \in absorbed})]
<1> DEFINE b == Min({new.begin} \cup {r.begin : r \in absorbed})
           e == Max({new.end} \cup {r.end : r \in absorbed})
<1>1. Hull(new, absorbed) = [new EXCEPT !.begin = b, !.end = e]
  BY DEF Hull
<1> HIDE DEF b, e
<1>2. [new EXCEPT !.begin = b] = [begin |-> b, end |-> new.end]
  BY DEF Intervals
<1>3. [[begin |-> b, end |-> new.end] EXCEPT !.end = e] = [begin |-> b, end |-> e]
  OBVIOUS
<1> QED
  BY <1>1, <1>2, <1>3 DEF b, e

\* What a run of separated regions and the new interval come to.
LEMMA MergedToIs ==
    ASSUME NEW s \in Seq(Intervals), Separated(s), NEW new \in Intervals,
           NEW first \in 1..(Len(s) + 1), NEW l \in (first - 1)..Len(s)
    PROVE  MergedTo(s, new, first, l)
             = [begin |-> IF l < first THEN new.begin ELSE Smaller(new.begin, s[first].begin),
                end   |-> IF l < first THEN new.end ELSE Larger(new.end, s[l].end)]
<1> DEFINE run == {s[i] : i \in first..l}
           begins == {new.begin} \cup {r.begin : r \in run}
           ends   == {new.end} \cup {r.end : r \in run}
           b == IF l < first THEN new.begin ELSE Smaller(new.begin, s[first].begin)
           e == IF l < first THEN new.end ELSE Larger(new.end, s[l].end)
<1>1. new = [begin |-> new.begin, end |-> new.end] /\ new.begin \in Int /\ new.end \in Int
  BY DEF Intervals
<1>2. ASSUME NEW i \in first..l
      PROVE  /\ i \in DOMAIN s /\ s[i].begin \in Int /\ s[i].end \in Int /\ s[i].begin < s[i].end
  <2>1. i \in DOMAIN s
    OBVIOUS
  <2> QED
    BY <2>1 DEF Intervals
<1>3. begins \in SUBSET Int /\ ends \in SUBSET Int
  BY <1>1, <1>2
<1>4. ASSUME NEW i \in first..l, NEW j \in first..l, i < j PROVE s[i].end < s[j].begin
  BY <1>2, <1>4 DEF Separated
<1>7. MergedTo(s, new, first, l) = [begin |-> Min(begins), end |-> Max(ends)]
  BY HullIs DEF MergedTo
<1>5. CASE l < first
  <2>1. begins = {new.begin} /\ ends = {new.end}
    BY <1>5
  <2>2. Min(begins) = new.begin /\ Max(ends) = new.end
    <3> HIDE DEF begins, ends
    <3>1. new.begin \in begins /\ \A y \in begins : new.begin <= y
      BY <1>1, <2>1
    <3>2. new.end \in ends /\ \A y \in ends : new.end >= y
      BY <1>1, <2>1
    <3> QED
      BY <1>3, <3>1, <3>2, MinIs, MaxIs
  <2> HIDE DEF begins, ends
  <2> QED
    BY <1>5, <1>7, <2>2
<1>6. CASE first <= l
  <2>1. first \in first..l /\ l \in first..l
    BY <1>6
  <2>2. \A i \in first..l : s[first].begin <= s[i].begin /\ s[i].end <= s[l].end
    <3> SUFFICES ASSUME NEW i \in first..l
                 PROVE  s[first].begin <= s[i].begin /\ s[i].end <= s[l].end
      OBVIOUS
    <3>1. i = first \/ first < i
      OBVIOUS
    <3>2. i = l \/ i < l
      OBVIOUS
    <3>3. /\ s[i].begin \in Int /\ s[i].end \in Int /\ s[i].begin < s[i].end
          /\ s[first].begin \in Int /\ s[first].end \in Int /\ s[first].begin < s[first].end
          /\ s[l].begin \in Int /\ s[l].end \in Int /\ s[l].begin < s[l].end
      BY <1>2, <2>1
    <3>4. s[first].begin <= s[i].begin
      <4>1. first < i => s[first].end < s[i].begin
        BY <1>4, <2>1
      <4> QED
        BY <3>1, <3>3, <4>1
    <3>5. s[i].end <= s[l].end
      <4>1. i < l => s[i].end < s[l].begin
        BY <1>4, <2>1
      <4> QED
        BY <3>2, <3>3, <4>1
    <3> QED
      BY <3>4, <3>5
  <2>6. ~(l < first) /\ s[first].begin \in Int /\ s[l].end \in Int
    BY <1>2, <1>6, <2>1
  <2>3. b \in begins /\ \A y \in begins : b <= y
    <3>1. b = Smaller(new.begin, s[first].begin) /\ s[first].begin \in begins
      BY <2>1, <2>6
    <3>2. \A y \in begins : y = new.begin \/ (y \in Int /\ s[first].begin <= y)
      BY <1>2, <2>2
    <3>3. new.begin \in begins
      OBVIOUS
    <3> HIDE DEF b, begins
    <3> QED
      BY <1>1, <2>6, <3>1, <3>2, <3>3 DEF Smaller
  <2>4. e \in ends /\ \A y \in ends : e >= y
    <3>1. e = Larger(new.end, s[l].end) /\ s[l].end \in ends
      BY <2>1, <2>6
    <3>2. \A y \in ends : y = new.end \/ (y \in Int /\ y <= s[l].end)
      BY <1>2, <2>2
    <3>3. new.end \in ends
      OBVIOUS
    <3> HIDE DEF e, ends
    <3> QED
      BY <1>1, <2>6, <3>1, <3>2, <3>3 DEF Larger
  <2> HIDE DEF b, e, begins, ends
  <2>5. Min(begins) = b /\ Max(ends) = e
    BY <1>3, <2>3, <2>4, MinIs, MaxIs
  <2> QED
    BY <1>7, <2>5 DEF b, e
<1> QED
  BY <1>5, <1>6

\* The run of absorbed regions ends where what it came to reaches no further.
LEMMA LastReachedIs ==
    ASSUME NEW s \in Seq(Intervals), Separated(s), NEW new \in Intervals, NEW first \in 1..(Len(s) + 1)
    PROVE  LET l == LastReached(s, new, first)
           IN  /\ l \in (first - 1)..Len(s)
               /\ \A i \in first..l : s[i].begin <= MergedTo(s, new, first, i - 1).end
               /\ l < Len(s) => s[l + 1].begin > MergedTo(s, new, first, l).end
<1> DEFINE To(l) == MergedTo(s, new, first, l).end
           stops == {l \in (first - 1)..Len(s) : l < Len(s) => s[l + 1].begin > To(l)}
<1>1. Len(s) \in stops /\ stops \in SUBSET Nat
  OBVIOUS
<1>2. PICK l \in stops : \A y \in stops : l <= y
  <2> HIDE DEF stops
  <2> QED
    BY <1>1, LeastExists
<1>3. l \in (first - 1)..Len(s) /\ (l < Len(s) => s[l + 1].begin > To(l))
  BY <1>2
<1>4. ASSUME NEW i \in first..l PROVE s[i].begin <= To(i - 1)
  <2>1. i - 1 \in (first - 1)..Len(s) /\ i - 1 < l /\ i \in 1..Len(s) /\ i - 1 < Len(s)
    BY <1>3
  <2>2. i - 1 \notin stops
    <3> HIDE DEF stops
    <3> QED
      BY <1>2, <1>3, <2>1
  <2>3. ~(s[i].begin > To(i - 1))
    <3> HIDE DEF To
    <3>1. (i - 1) + 1 = i
      BY <2>1
    <3> QED
      BY <2>1, <2>2, <3>1
  <2>4. s[i].begin \in Int
    BY <2>1 DEF Intervals
  <2>5. To(i - 1) \in Int
    <3>1. To(i - 1) = IF i - 1 < first THEN new.end ELSE Larger(new.end, s[i - 1].end)
      BY <2>1, MergedToIs
    <3>2. i - 1 < first \/ i - 1 \in 1..Len(s)
      BY <2>1
    <3>3. new.end \in Int /\ (i - 1 \in 1..Len(s) => s[i - 1].end \in Int)
      BY DEF Intervals
    <3> HIDE DEF To
    <3> QED
      BY <3>1, <3>2, <3>3 DEF Larger
  <2> HIDE DEF To
  <2> QED
    BY <2>3, <2>4, <2>5
<1> QED
  BY <1>3, <1>4 DEF LastReached

\* What a new interval becomes in the coverage: an interval of its frames and
\* of those of the regions it absorbs, apart from the others.
LEMMA MergedIs ==
    ASSUME NEW s \in Seq(Intervals), Separated(s), NEW new \in Intervals,
           NEW first, first = FirstReached(s, new),
           NEW last, last = LastReached(s, new, first),
           NEW m, m = MergedTo(s, new, first, last)
    PROVE  /\ first \in 1..(Len(s) + 1) /\ last \in (first - 1)..Len(s)
           /\ m \in Intervals
           /\ \A f \in Int : InRegion(f, m) <=> InRegion(f, new) \/ \E i \in first..last : InRegion(f, s[i])
           /\ \A i \in 1..(first - 1) : s[i].end < m.begin
           /\ \A i \in (last + 1)..Len(s) : m.end < s[i].begin
<1>1. /\ first \in 1..(Len(s) + 1)
      /\ \A j \in 1..(first - 1) : s[j].end < new.begin
      /\ first <= Len(s) => s[first].end >= new.begin
  BY FirstReachedIs
<1>2. /\ last \in (first - 1)..Len(s)
      /\ \A i \in first..last : s[i].begin <= MergedTo(s, new, first, i - 1).end
      /\ last < Len(s) => s[last + 1].begin > MergedTo(s, new, first, last).end
  BY <1>1, LastReachedIs
<1>3. new.begin \in Int /\ new.end \in Int /\ new.begin < new.end
  BY DEF Intervals
<1>4. ASSUME NEW i \in 1..Len(s) PROVE s[i].begin \in Int /\ s[i].end \in Int /\ s[i].begin < s[i].end
  BY DEF Intervals
<1>5. ASSUME NEW i \in 1..Len(s), NEW j \in 1..Len(s), i < j PROVE s[i].end < s[j].begin
  BY <1>5 DEF Separated
<1>6. m = [begin |-> IF last < first THEN new.begin ELSE Smaller(new.begin, s[first].begin),
           end   |-> IF last < first THEN new.end ELSE Larger(new.end, s[last].end)]
  BY <1>1, <1>2, MergedToIs
<1>7. first <= last => /\ first \in 1..Len(s) /\ last \in 1..Len(s)
                       /\ first \in first..last /\ last \in first..last
  BY <1>1, <1>2
<1>8. ASSUME NEW i \in first..last PROVE i \in 1..Len(s) /\ s[i].begin <= new.end
  <2>1. i \in 1..Len(s) /\ i - 1 \in (first - 1)..Len(s)
    BY <1>1, <1>2
  <2>2. MergedTo(s, new, first, i - 1).end
          = IF i - 1 < first THEN new.end ELSE Larger(new.end, s[i - 1].end)
    BY <1>1, <2>1, MergedToIs
  <2>3. s[i].begin <= IF i - 1 < first THEN new.end ELSE Larger(new.end, s[i - 1].end)
    BY <1>2, <2>2
  <2>4. CASE i - 1 < first
    BY <2>1, <2>3, <2>4
  <2>5. CASE i - 1 >= first
    <3>1. i - 1 \in 1..Len(s) /\ i - 1 < i
      BY <1>1, <2>1, <2>5
    <3>2. s[i - 1].end < s[i].begin
      BY <1>5, <2>1, <3>1
    <3>3. s[i].begin <= Larger(new.end, s[i - 1].end)
      BY <1>1, <2>1, <2>3, <2>5
    <3> QED
      BY <1>3, <1>4, <2>1, <3>1, <3>2, <3>3 DEF Larger
  <2> QED
    BY <1>1, <2>1, <2>4, <2>5
<1>9. ASSUME NEW i \in first..last PROVE s[first].begin <= s[i].begin /\ s[i].end <= s[last].end
  <2>1. first <= last /\ i \in 1..Len(s)
    BY <1>1, <1>2
  <2>2. (i = first \/ first < i) /\ (i = last \/ i < last)
    BY <1>1, <1>2
  <2> QED
    BY <1>4, <1>5, <1>7, <2>1, <2>2
<1>10. m \in Intervals /\ m.begin \in Int /\ m.end \in Int /\ m.begin <= new.begin /\ new.end <= m.end
  <2>1. CASE last < first
    BY <1>3, <1>6, <2>1 DEF Intervals
  <2>2. CASE first <= last
    BY <1>3, <1>4, <1>6, <1>7, <2>2 DEF Intervals, Smaller, Larger
  <2> QED
    BY <1>1, <1>2, <2>1, <2>2
<1>11. ASSUME NEW f \in Int
       PROVE  InRegion(f, m) <=> InRegion(f, new) \/ \E i \in first..last : InRegion(f, s[i])
  <2>1. CASE last < first
    BY <1>1, <1>2, <1>6, <2>1 DEF InRegion
  <2>2. CASE first <= last
    <3>1. m.begin = Smaller(new.begin, s[first].begin) /\ m.end = Larger(new.end, s[last].end)
      BY <1>1, <1>2, <1>6, <2>2
    <3>2. ASSUME InRegion(f, m) PROVE InRegion(f, new) \/ \E i \in first..last : InRegion(f, s[i])
      <4>1. m.begin <= f /\ f < m.end
        BY <3>2 DEF InRegion
      <4>2. CASE f < new.begin
        <5>1. s[first].begin <= f /\ f < s[first].end
          BY <1>1, <1>3, <1>4, <1>7, <2>2, <3>1, <4>1, <4>2 DEF Smaller
        <5> QED
          BY <1>7, <2>2, <5>1 DEF InRegion
      <4>3. CASE new.begin <= f /\ f < new.end
        BY <4>3 DEF InRegion
      <4>4. CASE new.end <= f
        <5>1. s[last].begin <= f /\ f < s[last].end
          BY <1>3, <1>4, <1>7, <1>8, <2>2, <3>1, <4>1, <4>4 DEF Larger
        <5> QED
          BY <1>7, <2>2, <5>1 DEF InRegion
      <4> QED
        BY <1>3, <4>2, <4>3, <4>4
    <3>3. InRegion(f, new) => InRegion(f, m)
      BY <1>3, <1>10 DEF InRegion
    <3>4. ASSUME NEW i \in first..last, InRegion(f, s[i]) PROVE InRegion(f, m)
      <4>1. /\ s[i].begin <= f /\ f < s[i].end /\ s[first].begin <= s[i].begin /\ s[i].end <= s[last].end
            /\ i \in 1..Len(s)
        BY <1>8, <1>9, <3>4 DEF InRegion
      <4>2. m.begin <= s[first].begin /\ s[last].end <= m.end
        BY <1>3, <1>4, <1>7, <2>2, <3>1 DEF Smaller, Larger
      <4>3. /\ s[i].begin \in Int /\ s[i].end \in Int
            /\ s[first].begin \in Int /\ s[last].end \in Int /\ m.begin \in Int /\ m.end \in Int
        BY <1>4, <1>7, <1>10, <2>2, <4>1
      <4>4. m.begin <= f /\ f < m.end
        BY <4>1, <4>2, <4>3
      <4> QED
        BY <4>4 DEF InRegion
    <3> QED
      BY <3>2, <3>3, <3>4
  <2> QED
    BY <1>1, <1>2, <2>1, <2>2
<1>12. ASSUME NEW i \in 1..(first - 1) PROVE s[i].end < m.begin
  <2>1. i \in 1..Len(s) /\ i < first
    BY <1>1
  <2>2. s[i].end < new.begin
    BY <1>1
  <2>3. first <= last => s[i].end < s[first].begin
    BY <1>5, <1>7, <2>1
  <2> QED
    BY <1>1, <1>2, <1>3, <1>4, <1>6, <1>7, <2>1, <2>2, <2>3 DEF Smaller
<1>13. ASSUME NEW i \in (last + 1)..Len(s) PROVE m.end < s[i].begin
  <2>1. i \in 1..Len(s) /\ last + 1 \in 1..Len(s) /\ (i = last + 1 \/ last + 1 < i) /\ last < Len(s)
    BY <1>1, <1>2
  <2>2. m.end < s[last + 1].begin
    BY <1>2, <1>4, <1>10, <2>1
  <2>3. s[last + 1].begin <= s[i].begin
    BY <1>4, <1>5, <2>1
  <2> QED
    BY <1>4, <1>10, <2>1, <2>2, <2>3
<1> QED
  BY <1>1, <1>2, <1>10, <1>11, <1>12, <1>13

\* A sequence with one element in the place of a run of its elements.
Replaced(s, first, last, m) == SubSeq(s, 1, first - 1) \o <<m>> \o SubSeq(s, last + 1, Len(s))

LEMMA ReplacedRun ==
    ASSUME NEW s \in Seq(Intervals), NEW m \in Intervals,
           NEW first \in 1..(Len(s) + 1), NEW last \in (first - 1)..Len(s)
    PROVE  LET t == Replaced(s, first, last, m)
           IN  /\ t \in Seq(Intervals) /\ Len(t) = Len(s) + first - last
               /\ \A i \in 1..(Len(s) + first - last) :
                     t[i] = IF i < first THEN s[i] ELSE IF i = first THEN m ELSE s[i + last - first]
<1> DEFINE t == Replaced(s, first, last, m)
           a == SubSeq(s, 1, first - 1)
           c == SubSeq(s, last + 1, Len(s))
           b == a \o <<m>>
<1>1. Len(s) \in Nat /\ first \in Nat /\ last \in Nat
  OBVIOUS
<1>2. a \in Seq(Intervals) /\ Len(a) = first - 1 /\ \A i \in 1..(first - 1) : a[i] = s[i]
  <2>1. \A i \in 1..(first - 1) : s[i] \in Intervals
    OBVIOUS
  <2> QED
    BY <1>1, <2>1, SubSeqProperties
<1>3. c \in Seq(Intervals) /\ Len(c) = Len(s) - last /\ \A i \in 1..(Len(s) - last) : c[i] = s[last + i]
  <2>1. \A i \in (last + 1)..Len(s) : s[i] \in Intervals
    OBVIOUS
  <2> QED
    BY <1>1, <2>1, SubSeqProperties
<1> HIDE DEF a, c
<1>4. b \in Seq(Intervals) /\ Len(b) = first /\ \A i \in 1..first : b[i] = IF i < first THEN s[i] ELSE m
  <2>1. <<m>> \in Seq(Intervals) /\ Len(<<m>>) = 1 /\ <<m>>[1] = m
    OBVIOUS
  <2>2. /\ b \in Seq(Intervals) /\ Len(b) = first
        /\ \A i \in 1..Len(b) : b[i] = IF i <= Len(a) THEN a[i] ELSE <<m>>[i - Len(a)]
    BY <1>1, <1>2, <2>1, ConcatProperties
  <2> HIDE DEF b
  <2> QED
    BY <1>1, <1>2, <2>1, <2>2
<1> HIDE DEF b
<1>5. /\ t = b \o c /\ t \in Seq(Intervals) /\ Len(t) = Len(b) + Len(c)
      /\ \A i \in 1..Len(t) : t[i] = IF i <= Len(b) THEN b[i] ELSE c[i - Len(b)]
  <2>1. t = b \o c
    BY DEF a, b, c, Replaced
  <2> HIDE DEF t
  <2>2. /\ b \o c \in Seq(Intervals) /\ Len(b \o c) = Len(b) + Len(c)
        /\ \A i \in 1..(Len(b) + Len(c)) : (b \o c)[i] = IF i <= Len(b) THEN b[i] ELSE c[i - Len(b)]
    BY <1>3, <1>4, ConcatProperties
  <2> QED
    BY <2>1, <2>2
<1> HIDE DEF t
<1>7. Len(b) = first /\ Len(c) = Len(s) - last /\ Len(t) = Len(s) + first - last
  BY <1>1, <1>3, <1>4, <1>5
<1>6. ASSUME NEW i \in 1..(Len(s) + first - last)
      PROVE  t[i] = IF i < first THEN s[i] ELSE IF i = first THEN m ELSE s[i + last - first]
  <2>0. i \in Nat /\ 1 <= i /\ i <= Len(s) + first - last
    BY <1>1, <1>7
  <2>1. CASE i <= first
    <3>1. i \in 1..first /\ t[i] = b[i]
      BY <1>1, <1>5, <1>7, <2>0, <2>1
    <3> QED
      BY <1>1, <1>4, <2>0, <3>1
  <2>2. CASE i > first
    <3>1. i - first \in 1..(Len(s) - last)
      BY <1>1, <2>0, <2>2
    <3>3. t[i] = c[i - first]
      <4>1. i \in 1..Len(t) /\ ~(i <= Len(b))
        BY <1>1, <1>7, <2>0, <2>2
      <4>2. t[i] = c[i - Len(b)]
        BY <1>5, <4>1
      <4> QED
        BY <1>7, <4>2
    <3>2. last + (i - first) = i + last - first
      BY <1>1
    <3>4. c[i - first] = s[last + (i - first)]
      BY <1>3, <3>1
    <3> QED
      BY <1>1, <2>0, <2>2, <3>2, <3>3, <3>4
  <2> QED
    BY <1>1, <2>0, <2>1, <2>2
<1> QED
  BY <1>5, <1>6, <1>7 DEF t

\* The coverage holds separated regions, in order and no more of them than its
\* array, of frames that were accepted: of all of them while it is complete.
CoverageOf(c, frames) ==
    LET covered == Within(c.regions, 1, Len(c.regions))
    IN  /\ c \in [regions : Seq(Intervals), unique : Int, complete : BOOLEAN]
        /\ Len(c.regions) <= CoverageCapacity /\ Separated(c.regions)
        /\ c.unique = Cardinality(covered)
        /\ covered \subseteq frames
        /\ c.complete => covered = frames

\* One more accepted read keeps it so.
LEMMA CoverIsSound ==
    ASSUME NEW c, NEW frames, CoverageOf(c, frames), NEW begin \in Int, NEW end \in Int, begin < end
    PROVE  CoverageOf(Cover(c, begin, end), frames \cup begin..(end - 1))
<1> DEFINE s      == c.regions
           new    == [begin |-> begin, end |-> end]
           first  == FirstReached(s, new)
           last   == LastReached(s, new, first)
           m      == MergedTo(s, new, first, last)
           t      == Replaced(s, first, last, m)
           run    == SubSeq(s, first, last)
           d      == [c EXCEPT !.regions = t, !.unique = UniqueWith(c, run, m)]
           all    == Within(s, 1, Len(s))
           then   == Within(t, 1, Len(t))
           gone   == Within(s, first, last)
           more   == frames \cup begin..(end - 1)
<1>1. /\ c \in [regions : Seq(Intervals), unique : Int, complete : BOOLEAN]
      /\ s \in Seq(Intervals) /\ Len(s) \in Nat /\ Len(s) <= CoverageCapacity /\ Separated(s)
      /\ c.unique = Cardinality(all) /\ all \subseteq frames /\ (c.complete => all = frames)
  BY DEF CoverageOf
<1>2. new \in Intervals /\ new.begin = begin /\ new.end = end
  BY DEF Intervals
<1>3. Cover(c, begin, end)
        = IF ~c.complete THEN c
          ELSE IF last < first /\ Len(s) = CoverageCapacity THEN [c EXCEPT !.complete = FALSE]
          ELSE d
  BY DEF Cover, Replaced
<1> HIDE DEF new, first, last, m
<1>4. /\ first \in 1..(Len(s) + 1) /\ last \in (first - 1)..Len(s)
      /\ m \in Intervals
      /\ \A f \in Int : InRegion(f, m) <=> InRegion(f, new) \/ \E i \in first..last : InRegion(f, s[i])
      /\ \A i \in 1..(first - 1) : s[i].end < m.begin
      /\ \A i \in (last + 1)..Len(s) : m.end < s[i].begin
  BY <1>1, <1>2, MergedIs DEF first, last, m
<1>5. /\ t \in Seq(Intervals) /\ Len(t) = Len(s) + first - last
      /\ \A i \in 1..Len(t) : t[i] = IF i < first THEN s[i]
                                     ELSE IF i = first THEN m ELSE s[i + last - first]
  <2> HIDE DEF s
  <2>0. /\ s \in Seq(Intervals) /\ m \in Intervals
        /\ first \in 1..(Len(s) + 1) /\ last \in (first - 1)..Len(s)
    BY <1>1, <1>4
  <2>1. /\ t \in Seq(Intervals) /\ Len(t) = Len(s) + first - last
        /\ \A i \in 1..(Len(s) + first - last) :
              t[i] = IF i < first THEN s[i] ELSE IF i = first THEN m ELSE s[i + last - first]
    BY <2>0, ReplacedRun
  <2> HIDE DEF t
  <2> QED
    BY <2>1
<1>9. ASSUME NEW i \in 1..Len(s)
      PROVE  s[i].begin \in Int /\ s[i].end \in Int /\ s[i].begin < s[i].end
  BY <1>1 DEF Intervals
<1>10. m.begin \in Int /\ m.end \in Int /\ m.begin < m.end
  BY <1>4 DEF Intervals
<1>6. CASE ~c.complete
  BY <1>1, <1>3, <1>6 DEF CoverageOf
<1>7. CASE c.complete /\ last < first /\ Len(s) = CoverageCapacity
  <2> DEFINE e == [c EXCEPT !.complete = FALSE]
  <2>1. /\ e \in [regions : Seq(Intervals), unique : Int, complete : BOOLEAN]
        /\ e.regions = s /\ e.unique = c.unique /\ ~e.complete
    BY <1>1
  <2>2. Cover(c, begin, end) = e
    BY <1>3, <1>7
  <2> HIDE DEF e, s
  <2> QED
    BY <1>1, <2>1, <2>2 DEF CoverageOf
<1>8. CASE c.complete /\ ~(last < first /\ Len(s) = CoverageCapacity)
  <2> HIDE DEF t, run
  <2>1. Len(t) <= CoverageCapacity
    BY <1>1, <1>4, <1>5, <1>8, MapAssumption
  <2>2. Separated(t)
    <3> SUFFICES ASSUME NEW i \in 1..Len(t), NEW j \in 1..Len(t), i < j
                 PROVE  t[i].end < t[j].begin
      BY <1>5 DEF Separated
    <3>0. /\ Len(s) \in Nat /\ first \in Nat /\ last \in Nat /\ first <= last + 1 /\ last <= Len(s)
          /\ i \in Nat /\ j \in Nat /\ 1 <= i /\ 1 <= first
          /\ i <= Len(s) + first - last /\ j <= Len(s) + first - last
      BY <1>1, <1>4, <1>5
    <3>1. \A k, n \in 1..Len(s) : k < n => s[k].end < s[n].begin
      BY <1>1 DEF Separated
    <3> DEFINE Old(k) == IF k < first THEN k ELSE k + last - first
    <3>2. ASSUME NEW k \in 1..(Len(s) + first - last), k # first
          PROVE  /\ Old(k) \in 1..Len(s) /\ t[k] = s[Old(k)]
                 /\ k < first => Old(k) \in 1..(first - 1)
                 /\ k > first => Old(k) \in (last + 1)..Len(s)
      <4>1. k \in Nat /\ 1 <= k /\ k <= Len(s) + first - last
        BY <3>0
      <4>2. t[k] = s[Old(k)]
        BY <1>5, <3>2
      <4> HIDE DEF t, s
      <4> QED
        BY <3>0, <3>2, <4>1, <4>2
    <3>3. i \in 1..(Len(s) + first - last) /\ j \in 1..(Len(s) + first - last)
      BY <3>0
    <3>4. first \in 1..(Len(s) + first - last) => t[first] = m
      BY <1>5, <3>0
    <3>5. CASE i # first /\ j # first
      <4>1. Old(i) < Old(j)
        BY <3>0, <3>5
      <4>2. /\ Old(i) \in 1..Len(s) /\ Old(j) \in 1..Len(s)
            /\ t[i] = s[Old(i)] /\ t[j] = s[Old(j)]
        BY <3>2, <3>3, <3>5
      <4> HIDE DEF Old
      <4> QED
        BY <3>1, <4>1, <4>2
    <3>6. CASE j = first
      <4>1. Old(i) \in 1..(first - 1) /\ t[i] = s[Old(i)]
        BY <3>0, <3>2, <3>3, <3>6
      <4> HIDE DEF Old
      <4> QED
        BY <1>4, <3>3, <3>4, <3>6, <4>1
    <3>7. CASE i = first
      <4>1. Old(j) \in (last + 1)..Len(s) /\ t[j] = s[Old(j)]
        BY <3>0, <3>2, <3>3, <3>7
      <4> HIDE DEF Old
      <4> QED
        BY <1>4, <3>3, <3>4, <3>7, <4>1
    <3> QED
      BY <3>5, <3>6, <3>7
  <2>3. ASSUME NEW f \in Int
        PROVE  f \in then <=> InRegion(f, m) \/ \E i \in 1..Len(s) : i \notin first..last /\ InRegion(f, s[i])
    <3>1. ASSUME NEW i \in 1..Len(t), InRegion(f, t[i]), i # first
          PROVE  \E k \in 1..Len(s) : k \notin first..last /\ InRegion(f, s[k])
      <4>1. CASE i < first
        <5>1. i \in 1..Len(s) /\ i \notin first..last /\ t[i] = s[i]
          BY <1>1, <1>4, <1>5, <4>1
        <5> QED
          BY <3>1, <5>1
      <4>2. CASE i > first
        <5>1. i + last - first \in 1..Len(s) /\ i + last - first \notin first..last
          BY <1>1, <1>4, <1>5, <4>2
        <5>2. i \in 1..(Len(s) + first - last) /\ ~(i < first) /\ i # first
          BY <1>4, <1>5, <4>2
        <5>3. t[i] = s[i + last - first]
          BY <1>5, <5>2
        <5> QED
          BY <3>1, <5>1, <5>3
      <4> QED
        BY <1>4, <3>1, <4>1, <4>2
    <3>2. InRegion(f, m) => \E i \in 1..Len(t) : InRegion(f, t[i])
      <4>1. first \in 1..Len(t) /\ t[first] = m
        BY <1>1, <1>4, <1>5
      <4> QED
        BY <4>1
    <3>3. ASSUME NEW k \in 1..Len(s), k \notin first..last, InRegion(f, s[k])
          PROVE  \E i \in 1..Len(t) : InRegion(f, t[i])
      <4>1. CASE k < first
        <5>1. k \in 1..Len(t) /\ t[k] = s[k]
          BY <1>1, <1>4, <1>5, <4>1
        <5> QED
          BY <3>3, <5>1
      <4>2. CASE k > last
        <5> DEFINE i == k + first - last
        <5>1. i \in 1..Len(t) /\ i > first /\ i + last - first = k
          BY <1>1, <1>4, <1>5, <4>2
        <5>2. t[i] = s[k]
          <6>1. i \in 1..(Len(s) + first - last) /\ ~(i < first) /\ i # first
            BY <1>1, <1>4, <1>5, <4>2
          <6> HIDE DEF i
          <6>2. t[i] = s[i + last - first]
            BY <1>5, <6>1
          <6> QED
            BY <5>1, <6>2
        <5> QED
          BY <3>3, <5>1, <5>2
      <4> QED
        BY <1>4, <3>3, <4>1, <4>2
    <3>4. f \in then <=> \E i \in 1..Len(t) : InRegion(f, t[i])
      BY DEF Within
    <3>5. \A i \in 1..Len(t) : i = first => t[i] = m
      BY <1>4, <1>5
    <3> HIDE DEF then
    <3> QED
      BY <3>1, <3>2, <3>3, <3>4, <3>5
  <2>4. ASSUME NEW f \in Int
        PROVE  f \in then <=> f \in all \/ f \in begin..(end - 1)
    <3>1. InRegion(f, new) <=> f \in begin..(end - 1)
      BY <1>2 DEF InRegion
    <3>2. f \in all <=> \E i \in 1..Len(s) : InRegion(f, s[i])
      BY DEF Within
    <3>3. \A i \in first..last : i \in 1..Len(s)
      BY <1>4
    <3> HIDE DEF then, all
    <3> QED
      BY <1>4, <2>3, <3>1, <3>2, <3>3
  <2>5. then = all \cup begin..(end - 1)
    <3>1. then \subseteq Int /\ all \subseteq Int /\ begin..(end - 1) \subseteq Int
      BY DEF Within
    <3> HIDE DEF then, all
    <3> QED
      BY <2>4, <3>1
  <2>6. then = more
    BY <1>1, <1>8, <2>5
  <2>7. /\ IsFiniteSet(all) /\ Cardinality(all) = c.unique
    BY <1>1, SizesCountFrames
  <2>8. run \in Seq(Intervals) /\ Separated(run) /\ Within(run, 1, Len(run)) = gone
    <3>1. /\ run \in Seq(Intervals) /\ Len(run) = last - first + 1
          /\ \A i \in 1..Len(run) : run[i] = s[first + i - 1]
      <4>1. \A i \in first..last : s[i] \in Intervals
        BY <1>1, <1>4
      <4>2. first \in Int /\ last \in Int /\ first <= last + 1
        BY <1>1, <1>4
      <4> QED
        BY <4>1, <4>2, SubSeqProperties DEF run
    <3>2. Separated(run)
      <4> SUFFICES ASSUME NEW i \in 1..Len(run), NEW j \in 1..Len(run), i < j
                   PROVE  run[i].end < run[j].begin
        BY <3>1 DEF Separated
      <4>1. /\ first + i - 1 \in 1..Len(s) /\ first + j - 1 \in 1..Len(s)
            /\ first + i - 1 < first + j - 1
        BY <1>1, <1>4, <3>1
      <4>2. s[first + i - 1].end < s[first + j - 1].begin
        <5>1. \A k, n \in 1..Len(s) : k < n => s[k].end < s[n].begin
          BY <1>1 DEF Separated
        <5> QED
          BY <4>1, <5>1
      <4> QED
        BY <3>1, <4>2
    <3>3. ASSUME NEW f \in Int
          PROVE  (\E i \in 1..Len(run) : InRegion(f, run[i])) <=> \E i \in first..last : InRegion(f, s[i])
      <4>1. ASSUME NEW i \in 1..Len(run), InRegion(f, run[i]) PROVE \E k \in first..last : InRegion(f, s[k])
        <5>1. first + i - 1 \in first..last
          BY <1>4, <3>1
        <5> QED
          BY <3>1, <4>1, <5>1
      <4>2. ASSUME NEW k \in first..last, InRegion(f, s[k]) PROVE \E i \in 1..Len(run) : InRegion(f, run[i])
        <5> DEFINE i == k - first + 1
        <5>1. i \in 1..Len(run) /\ first + i - 1 = k
          BY <1>4, <3>1
        <5>2. run[i] = s[k]
          BY <3>1, <5>1
        <5> HIDE DEF i
        <5> QED
          BY <4>2, <5>1, <5>2
      <4> QED
        BY <4>1, <4>2
    <3> QED
      BY <3>1, <3>2, <3>3 DEF Within
  <2>9. IsFiniteSet(gone) /\ TotalSize(run) = Cardinality(gone)
    BY <2>8, SizesCountFrames
  <2>10. IsFiniteSet(FramesOf(m)) /\ Cardinality(FramesOf(m)) = Size(m)
    <3>1. IsInterval(m)
      BY <1>4 DEF Intervals, IsInterval
    <3> QED
      BY <3>1, FramesCounted
  <2>11. then = (all \ gone) \cup FramesOf(m) /\ (all \ gone) \cap FramesOf(m) = {} /\ gone \subseteq all
    <3>1. ASSUME NEW i \in 1..Len(s), i \notin first..last, NEW f \in Int, InRegion(f, s[i])
          PROVE  ~InRegion(f, m) /\ \A k \in first..last : ~InRegion(f, s[k])
      <4>1. ~InRegion(f, m)
        <5>1. (i \in 1..(first - 1) /\ s[i].end < m.begin) \/ (i \in (last + 1)..Len(s) /\ m.end < s[i].begin)
          BY <1>4, <3>1
        <5>2. s[i].end \in Int /\ s[i].begin \in Int /\ m.begin \in Int /\ m.end \in Int
          BY <1>9, <1>10
        <5> QED
          BY <3>1, <5>1, <5>2 DEF InRegion
      <4> QED
        BY <1>4, <3>1, <4>1
    <3>2. \A f \in Int : f \in all <=> \E i \in 1..Len(s) : InRegion(f, s[i])
      BY DEF Within
    <3>3. \A f \in Int : f \in gone <=> \E i \in first..last : InRegion(f, s[i])
      BY DEF Within
    <3>4. \A f \in Int : f \in FramesOf(m) <=> InRegion(f, m)
      BY DEF FramesOf
    <3>5. all \subseteq Int /\ gone \subseteq Int /\ FramesOf(m) \subseteq Int /\ then \subseteq Int
      BY DEF Within, FramesOf
    <3>6. \A i \in first..last : i \in 1..Len(s)
      BY <1>4
    <3> HIDE DEF all, gone, then
    <3>7. gone \subseteq all
      BY <3>2, <3>3, <3>5, <3>6
    <3>8. (all \ gone) \cap FramesOf(m) = {}
      BY <3>1, <3>2, <3>3, <3>4, <3>5
    <3>9. ASSUME NEW f \in Int PROVE f \in then <=> f \in (all \ gone) \/ f \in FramesOf(m)
      BY <1>4, <2>3, <3>1, <3>2, <3>3, <3>4, <3>6
    <3>10. then = (all \ gone) \cup FramesOf(m)
      BY <3>5, <3>9
    <3> QED
      BY <3>7, <3>8, <3>10
  <2> HIDE DEF all, gone, then, more
  <2>12. Cardinality(then) = c.unique - Cardinality(gone) + Size(m)
    <3>1. IsFiniteSet(all \ gone) /\ Cardinality(all \ gone) = Cardinality(all) - Cardinality(gone)
      <4>1. /\ IsFiniteSet(all \ gone)
            /\ Cardinality(all \ gone) = Cardinality(all) - Cardinality(all \cap gone)
        BY <2>7, FS_Difference
      <4>2. all \cap gone = gone
        BY <2>11
      <4> QED
        BY <4>1, <4>2
    <3>2. Cardinality((all \ gone) \cup FramesOf(m)) = Cardinality(all \ gone) + Cardinality(FramesOf(m))
      BY <2>10, <2>11, <3>1, DisjointUnion
    <3> QED
      BY <2>7, <2>10, <2>11, <3>1, <3>2
  <2>13. UniqueWith(c, run, m) = Cardinality(then) /\ UniqueWith(c, run, m) \in Int
    <3>1. Cardinality(gone) \in Int /\ Size(m) \in Int /\ c.unique \in Int
      <4>1. Cardinality(gone) \in Nat /\ Cardinality(FramesOf(m)) \in Nat
        BY <2>9, <2>10, FS_CardinalityType
      <4> QED
        BY <1>1, <2>10, <4>1
    <3> QED
      BY <2>9, <2>12, <3>1 DEF UniqueWith
  <2>14. /\ d \in [regions : Seq(Intervals), unique : Int, complete : BOOLEAN]
         /\ d.regions = t /\ d.unique = UniqueWith(c, run, m) /\ d.complete = c.complete
    <3> DEFINE u == UniqueWith(c, run, m)
    <3>1. u \in Int
      BY <2>13
    <3> HIDE DEF u, s
    <3>2. /\ [c EXCEPT !.regions = t, !.unique = u] \in [regions : Seq(Intervals), unique : Int, complete : BOOLEAN]
          /\ [c EXCEPT !.regions = t, !.unique = u].regions = t
          /\ [c EXCEPT !.regions = t, !.unique = u].unique = u
          /\ [c EXCEPT !.regions = t, !.unique = u].complete = c.complete
      BY <1>1, <1>5, <3>1
    <3> QED
      BY <3>2 DEF u
  <2>15. Cover(c, begin, end) = d
    BY <1>3, <1>8
  <2> HIDE DEF d
  <2> QED
    BY <2>1, <2>2, <2>6, <2>13, <2>14, <2>15 DEF CoverageOf, then, more
<1> QED
  BY <1>6, <1>7, <1>8

\* Regions of the map, and those of one kind of facts apart from each other.
FactNames == {"attempted", "accepted", "retry", "repeated", "recovered", "uncertain"}
MapRegions == {r \in [begin : Int, end : Int, facts : SUBSET FactNames] : r.begin < r.end}

Apart(regions) ==
    \A r, q \in regions : r # q /\ r.facts = q.facts => r.end < q.begin \/ q.end < r.begin

Touched(regions, new) == {r \in regions : r.facts = new.facts /\ Touching(r, new)}

\* Regions that are apart are merged in one step: no other touches those that
\* the new one touches.
LEMMA AbsorbedIs ==
    ASSUME NEW regions \in SUBSET MapRegions, Apart(regions), NEW new \in MapRegions
    PROVE  Absorbed(regions, new) = Touched(regions, new)
<1> DEFINE same == {r \in regions : r.facts = new.facts}
           Closed(merged) == \A r \in same : (\E q \in merged \cup {new} : Touching(r, q)) => r \in merged
           Least(merged) ==
               Closed(merged) /\ \A others \in SUBSET same : Closed(others) => merged \subseteq others
           touched == {r \in regions : r.facts = new.facts /\ Touching(r, new)}
<1>1. Closed(touched)
  <2> SUFFICES ASSUME NEW r \in same, NEW q \in touched \cup {new}, Touching(r, q)
               PROVE  Touching(r, new)
    OBVIOUS
  <2>1. CASE q = new
    BY <2>1
  <2>2. CASE q \in touched /\ q # r
    <3>1. r \in regions /\ q \in regions /\ q.facts = r.facts /\ r \in MapRegions /\ q \in MapRegions
      BY <2>2
    <3>2. r.end < q.begin \/ q.end < r.begin
      BY <2>2, <3>1 DEF Apart
    <3> QED
      BY <3>1, <3>2 DEF Touching, MapRegions
  <2>3. CASE q \in touched /\ q = r
    BY <2>3
  <2> QED
    BY <2>1, <2>2, <2>3
<1>2. \A others \in SUBSET same : Closed(others) => touched \subseteq others
  OBVIOUS
<1>3. touched \in SUBSET same
  OBVIOUS
<1>4. Absorbed(regions, new) = CHOOSE merged \in SUBSET same : Least(merged)
  BY DEF Absorbed
<1> HIDE DEF same, touched, Closed
<1>5. Absorbed(regions, new) \in SUBSET same /\ Least(Absorbed(regions, new))
  BY <1>1, <1>2, <1>3, <1>4
<1>6. Absorbed(regions, new) \subseteq touched /\ touched \subseteq Absorbed(regions, new)
  BY <1>1, <1>2, <1>3, <1>5
<1> QED
  BY <1>6 DEF touched, Touched

\* What a read and the regions it touches come to: its frames and theirs.
LEMMA TouchedHull ==
    ASSUME NEW regions \in SUBSET MapRegions, Apart(regions), NEW new \in MapRegions,
           NEW touched, touched = Touched(regions, new), NEW h, h = Hull(new, touched)
    PROVE  /\ h \in MapRegions /\ h.facts = new.facts
           /\ \A r \in touched \cup {new} : h.begin <= r.begin /\ r.end <= h.end
           /\ \E r \in touched \cup {new} : h.begin = r.begin
           /\ \E r \in touched \cup {new} : h.end = r.end
<1>0. touched = {r \in regions : r.facts = new.facts /\ Touching(r, new)}
  BY DEF Touched
<1> DEFINE both == touched \cup {new}
           begins == {new.begin} \cup {r.begin : r \in touched}
           ends == {new.end} \cup {r.end : r \in touched}
<1>1. ASSUME NEW r \in both
      PROVE  r.begin \in Int /\ r.end \in Int /\ r.begin < r.end /\ r.begin <= new.end /\ new.begin <= r.end
  BY <1>0 DEF MapRegions, Touching
<1>2. ASSUME NEW r \in touched, NEW q \in touched, r # q PROVE r.end < q.begin \/ q.end < r.begin
  BY <1>0, <1>2 DEF Apart
<1>3. begins \in SUBSET Int /\ ends \in SUBSET Int
  BY <1>1
<1>4. PICK a \in both : \A q \in both : a.begin <= q.begin
  <2>1. CASE \E r \in touched : r.begin < new.begin
    <3>1. PICK r \in touched : r.begin < new.begin
      BY <2>1
    <3>2. ASSUME NEW q \in both PROVE r.begin <= q.begin
      <4>1. CASE q \in touched /\ r # q
        BY <1>1, <1>2, <3>1, <4>1
      <4> QED
        BY <1>1, <3>1, <4>1
    <3> QED
      BY <3>2
  <2>2. CASE ~\E r \in touched : r.begin < new.begin
    BY <1>1, <2>2
  <2> QED
    BY <2>1, <2>2
<1>5. PICK b \in both : \A q \in both : b.end >= q.end
  <2>1. CASE \E r \in touched : r.end > new.end
    <3>1. PICK r \in touched : r.end > new.end
      BY <2>1
    <3>2. ASSUME NEW q \in both PROVE r.end >= q.end
      <4>1. CASE q \in touched /\ r # q
        BY <1>1, <1>2, <3>1, <4>1
      <4> QED
        BY <1>1, <3>1, <4>1
    <3> QED
      BY <3>2
  <2>2. CASE ~\E r \in touched : r.end > new.end
    BY <1>1, <2>2
  <2> QED
    BY <2>1, <2>2
<1>6. Min(begins) = a.begin /\ Max(ends) = b.end
  <2>1. a.begin \in begins /\ \A y \in begins : a.begin <= y
    BY <1>4
  <2>2. b.end \in ends /\ \A y \in ends : b.end >= y
    BY <1>5
  <2> HIDE DEF begins, ends
  <2> QED
    BY <1>3, <2>1, <2>2, MinIs, MaxIs
<1>9. a.begin \in Int /\ b.end \in Int /\ a.begin < b.end
  BY <1>1, <1>4, <1>5
<1>8. h.begin = a.begin /\ h.end = b.end /\ h.facts = new.facts /\ h \in MapRegions
  <2>1. h = [new EXCEPT !.begin = Min(begins), !.end = Max(ends)]
    BY DEF Hull
  <2>2. h = [new EXCEPT !.begin = a.begin, !.end = b.end]
    BY <1>6, <2>1
  <2>3. new \in [begin : Int, end : Int, facts : SUBSET FactNames]
    BY DEF MapRegions
  <2>4. ASSUME NEW x \in Int, NEW y \in Int
        PROVE  /\ [new EXCEPT !.begin = x, !.end = y] \in [begin : Int, end : Int, facts : SUBSET FactNames]
               /\ [new EXCEPT !.begin = x, !.end = y].begin = x
               /\ [new EXCEPT !.begin = x, !.end = y].end = y
               /\ [new EXCEPT !.begin = x, !.end = y].facts = new.facts
    BY <2>3
  <2>5. /\ h \in [begin : Int, end : Int, facts : SUBSET FactNames]
        /\ h.begin = a.begin /\ h.end = b.end /\ h.facts = new.facts
    BY <1>9, <2>2, <2>4
  <2> QED
    BY <1>9, <2>5 DEF MapRegions
<1> QED
  BY <1>4, <1>5, <1>8

\* The frames of that hull are those of the read and of the regions it touches,
\* and the regions it does not touch are apart from it.
LEMMA HullOfTouched ==
    ASSUME NEW regions \in SUBSET MapRegions, Apart(regions), NEW new \in MapRegions,
           NEW touched, touched = Touched(regions, new), NEW h, h = Hull(new, touched)
    PROVE  /\ h \in MapRegions /\ h.facts = new.facts
           /\ \A f \in Int : InRegion(f, h) <=> InRegion(f, new) \/ \E r \in touched : InRegion(f, r)
           /\ Apart((regions \ touched) \cup {h})
<1>0. touched = {r \in regions : r.facts = new.facts /\ Touching(r, new)}
  BY DEF Touched
<1> DEFINE both == touched \cup {new}
<1>1. /\ h \in MapRegions /\ h.facts = new.facts
      /\ \A r \in both : h.begin <= r.begin /\ r.end <= h.end
      /\ \E r \in both : h.begin = r.begin
      /\ \E r \in both : h.end = r.end
  BY TouchedHull
<1>2. ASSUME NEW r \in both
      PROVE  r.begin \in Int /\ r.end \in Int /\ r.begin < r.end /\ r.begin <= new.end /\ new.begin <= r.end
  BY <1>0 DEF MapRegions, Touching
<1>3. h.begin \in Int /\ h.end \in Int /\ h.begin < h.end
  BY <1>1 DEF MapRegions
<1>4. PICK a \in both : h.begin = a.begin
  BY <1>1
<1>5. PICK b \in both : h.end = b.end
  BY <1>1
<1>6. ASSUME NEW f \in Int
      PROVE  InRegion(f, h) <=> \E r \in both : InRegion(f, r)
  <2>1. ASSUME InRegion(f, h) PROVE \E r \in both : InRegion(f, r)
    <3>1. CASE f < new.begin
      BY <1>2, <1>4, <2>1, <3>1 DEF InRegion
    <3>2. CASE new.begin <= f /\ f < new.end
      BY <3>2 DEF InRegion
    <3>3. CASE new.end <= f
      BY <1>2, <1>5, <2>1, <3>3 DEF InRegion
    <3> QED
      BY <1>2, <3>1, <3>2, <3>3
  <2>2. ASSUME NEW r \in both, InRegion(f, r) PROVE InRegion(f, h)
    BY <1>1, <1>2, <1>3, <2>2 DEF InRegion
  <2> QED
    BY <2>1, <2>2
<1>7. ASSUME NEW q \in regions \ touched, q.facts = h.facts
      PROVE  q.end < h.begin \/ h.end < q.begin
  <2>1. q.begin \in Int /\ q.end \in Int /\ q.begin < q.end /\ new.begin \in Int /\ new.end \in Int
    BY DEF MapRegions
  <2>2. q.end < new.begin \/ new.end < q.begin
    BY <1>0, <1>1, <1>7, <2>1 DEF Touching
  <2>3. ASSUME NEW r \in touched PROVE r.end < q.begin \/ q.end < r.begin
    BY <1>0, <1>1, <1>7 DEF Apart
  <2>4. CASE q.end < new.begin
    <3>1. ASSUME NEW r \in both PROVE q.end < r.begin
      BY <1>2, <2>1, <2>3, <2>4
    <3> QED
      BY <1>4, <3>1
  <2>5. CASE new.end < q.begin
    <3>1. ASSUME NEW r \in both PROVE r.end < q.begin
      BY <1>2, <2>1, <2>3, <2>5
    <3> QED
      BY <1>5, <3>1
  <2> QED
    BY <2>2, <2>4, <2>5
<1>8. Apart((regions \ touched) \cup {h})
  <2> SUFFICES ASSUME NEW r \in (regions \ touched) \cup {h}, NEW q \in (regions \ touched) \cup {h},
                      r # q, r.facts = q.facts
               PROVE  r.end < q.begin \/ q.end < r.begin
    BY DEF Apart
  <2>1. CASE r \in regions \ touched /\ q \in regions \ touched
    BY <2>1 DEF Apart
  <2>2. CASE r \in regions \ touched /\ q = h
    BY <1>7, <2>2
  <2>3. CASE r = h /\ q \in regions \ touched
    BY <1>7, <2>3
  <2> QED
    BY <2>1, <2>2, <2>3
<1> QED
  BY <1>1, <1>6, <1>8

\* The map holds regions apart from each other, no more than its array, of
\* frames and the facts they were read with: of all of them while complete.
MapOf(m, told) ==
    /\ m \in [regions : SUBSET MapRegions, complete : BOOLEAN]
    /\ \A c \in told : c.frame \in Int
    /\ IsFiniteSet(m.regions) /\ Cardinality(m.regions) <= MapCapacity
    /\ Apart(m.regions)
    /\ \A r \in m.regions : \A f \in r.begin..(r.end - 1) : [facts |-> r.facts, frame |-> f] \in told
    /\ m.complete => \A c \in told : \E r \in m.regions : r.facts = c.facts /\ InRegion(c.frame, r)

\* One more read keeps it so.
LEMMA ChartIsSound ==
    ASSUME NEW m, NEW told, MapOf(m, told), NEW begin \in Int, NEW end \in Int, begin < end,
           NEW facts \in SUBSET FactNames
    PROVE  MapOf(Chart(m, begin, end, facts),
                 told \cup {[facts |-> facts, frame |-> f] : f \in begin..(end - 1)})
<1> DEFINE new  == [begin |-> begin, end |-> end, facts |-> facts]
           more == {[facts |-> facts, frame |-> f] : f \in begin..(end - 1)}
           touched == Touched(m.regions, new)
           kept == m.regions \ touched
           h    == Hull(new, touched)
<1>1. /\ m \in [regions : SUBSET MapRegions, complete : BOOLEAN] /\ m.regions \in SUBSET MapRegions
      /\ \A c \in told : c.frame \in Int
      /\ IsFiniteSet(m.regions) /\ Cardinality(m.regions) <= MapCapacity
        /\ Apart(m.regions)
      /\ \A r \in m.regions : \A f \in r.begin..(r.end - 1) : [facts |-> r.facts, frame |-> f] \in told
      /\ m.complete => \A c \in told : \E r \in m.regions : r.facts = c.facts /\ InRegion(c.frame, r)
  BY DEF MapOf
<1>2. new \in MapRegions /\ new.begin = begin /\ new.end = end /\ new.facts = facts
  BY DEF MapRegions
<1>3. Absorbed(m.regions, new) = touched
  <2> HIDE DEF new
  <2> QED
    BY <1>1, <1>2, AbsorbedIs
<1>4. Chart(m, begin, end, facts)
        = IF ~m.complete THEN m
          ELSE IF Cardinality(kept) = MapCapacity THEN [m EXCEPT !.complete = FALSE, !.regions = kept]
          ELSE [m EXCEPT !.regions = kept \cup {h}]
  <2> HIDE DEF touched
  <2> QED
    BY <1>3 DEF Chart
<1> HIDE DEF new
<1>5. /\ h \in MapRegions /\ h.facts = facts
      /\ \A f \in Int : InRegion(f, h) <=> InRegion(f, new) \/ \E r \in touched : InRegion(f, r)
      /\ Apart(kept \cup {h})
  <2>1. /\ h \in MapRegions /\ h.facts = new.facts
        /\ \A f \in Int : InRegion(f, h) <=> InRegion(f, new) \/ \E r \in touched : InRegion(f, r)
        /\ Apart((m.regions \ touched) \cup {h})
    BY <1>1, <1>2, HullOfTouched
  <2> HIDE DEF touched, h
  <2> QED
    BY <1>2, <2>1
<1>6. touched \subseteq m.regions /\ \A r \in touched : r.facts = facts
  BY <1>2 DEF Touched
<1> HIDE DEF touched, h
<1>7. IsFiniteSet(kept) /\ Cardinality(kept) \in Nat /\ Cardinality(kept) <= MapCapacity
  <2>1. kept \in SUBSET m.regions
    OBVIOUS
  <2>2. IsFiniteSet(kept) /\ Cardinality(kept) <= Cardinality(m.regions)
    BY <1>1, <2>1, FS_Subset
  <2>3. Cardinality(kept) \in Nat /\ Cardinality(m.regions) \in Nat
    BY <1>1, <2>2, FS_CardinalityType
  <2> QED
    BY <1>1, <2>2, <2>3, MapAssumption
<1>8. CASE ~m.complete
  <2>1. Chart(m, begin, end, facts) = m
    BY <1>4, <1>8
  <2> QED
    BY <1>1, <1>8, <2>1 DEF MapOf
<1>9. CASE m.complete /\ Cardinality(kept) = MapCapacity
  <2> DEFINE e == [m EXCEPT !.complete = FALSE, !.regions = kept]
  <2>1. Chart(m, begin, end, facts) = e
    BY <1>4, <1>9
  <2>2. Apart(kept)
    BY <1>1 DEF Apart
  <2>4. kept \in SUBSET m.regions
    OBVIOUS
  <2>6. kept \in SUBSET MapRegions
    BY <1>1
  <2> HIDE DEF kept, more
  <2>3. e \in [regions : SUBSET MapRegions, complete : BOOLEAN] /\ e.regions = kept /\ ~e.complete
    BY <1>1, <2>6
  <2> HIDE DEF e
  <2>7. \A c \in told \cup more : c.frame \in Int
    BY <1>1 DEF more
  <2>5. MapOf(e, told \cup more)
    BY <1>1, <1>7, <2>2, <2>3, <2>4, <2>7 DEF MapOf
  <2> QED
    BY <2>1, <2>5 DEF more
<1>10. CASE m.complete /\ Cardinality(kept) # MapCapacity
  <2> DEFINE now == kept \cup {h}
             e == [m EXCEPT !.regions = now]
  <2>1. Chart(m, begin, end, facts) = e
    BY <1>4, <1>10
  <2>2. IsFiniteSet(now) /\ Cardinality(now) <= MapCapacity
    <3>1. IsFiniteSet(now) /\ Cardinality(now) = IF h \in kept THEN Cardinality(kept) ELSE Cardinality(kept) + 1
      BY <1>7, FS_AddElement
    <3> HIDE DEF now
    <3> QED
      BY <1>7, <1>10, <3>1, MapAssumption
  <2>3. now \in SUBSET MapRegions
    BY <1>1, <1>5
  <2>4. ASSUME NEW r \in now, NEW f \in r.begin..(r.end - 1)
        PROVE  [facts |-> r.facts, frame |-> f] \in told \cup more
    <3>1. CASE r \in kept
      BY <1>1, <3>1
    <3>2. CASE r = h
      <4>1. h.begin \in Int /\ h.end \in Int /\ f \in Int /\ InRegion(f, h)
        BY <1>5, <3>2 DEF MapRegions, InRegion
      <4>2. CASE InRegion(f, new)
        <5>1. f \in begin..(end - 1)
          BY <1>2, <4>1, <4>2 DEF InRegion
        <5> QED
          BY <1>5, <3>2, <5>1
      <4>3. CASE \E q \in touched : InRegion(f, q)
        <5>1. PICK q \in touched : InRegion(f, q)
          BY <4>3
        <5>2. q \in m.regions /\ q.facts = facts /\ q \in MapRegions
          BY <1>1, <1>6
        <5>3. f \in q.begin..(q.end - 1)
          BY <4>1, <5>1, <5>2 DEF MapRegions, InRegion
        <5>4. [facts |-> q.facts, frame |-> f] \in told
          BY <1>1, <5>2, <5>3
        <5> QED
          BY <1>5, <3>2, <5>2, <5>4
      <4> QED
        BY <1>5, <4>1, <4>2, <4>3
    <3> QED
      BY <3>1, <3>2
  <2>5. ASSUME NEW c \in told \cup more
        PROVE  \E r \in now : r.facts = c.facts /\ InRegion(c.frame, r)
    <3>1. CASE c \in told
      <4>1. PICK r \in m.regions : r.facts = c.facts /\ InRegion(c.frame, r)
        BY <1>1, <1>10, <3>1
      <4>2. CASE r \in touched
        <5>1. h.facts = c.facts
          BY <1>5, <1>6, <4>1, <4>2
        <5>2. InRegion(c.frame, h)
          BY <1>1, <1>5, <3>1, <4>1, <4>2
        <5> QED
          BY <5>1, <5>2
      <4>3. CASE r \notin touched
        BY <4>1, <4>3
      <4> QED
        BY <4>2, <4>3
    <3>2. CASE c \in more
      <4>1. PICK f \in begin..(end - 1) : c = [facts |-> facts, frame |-> f]
        BY <3>2
      <4>2. InRegion(f, h)
        BY <1>2, <1>5 DEF InRegion
      <4> QED
        BY <1>5, <4>1, <4>2
    <3> QED
      BY <3>1, <3>2
  <2>7. Apart(now)
    BY <1>5
  <2>9. \A c \in told \cup more : c.frame \in Int
    BY <1>1
  <2> HIDE DEF now, more
  <2>6. e \in [regions : SUBSET MapRegions, complete : BOOLEAN] /\ e.regions = now /\ e.complete = m.complete
    BY <1>1, <2>3
  <2> HIDE DEF e
  <2>8. MapOf(e, told \cup more)
    BY <1>10, <2>2, <2>4, <2>5, <2>6, <2>7, <2>9 DEF MapOf
  <2> QED
    BY <2>1, <2>8 DEF more
<1> QED
  BY <1>1, <1>8, <1>9, <1>10

\* The playable window lies on the disc.
LEMMA WindowInDisc ==
    ASSUME NEW o \in Int
    PROVE  DiscBegin <= PlayableBegin(o) /\ PlayableEnd(o) <= LeadOut
<1>1. Frame \in Nat \ {0} /\ DiscBegin \in Int /\ LeadOut \in Int /\ DiscBegin < LeadOut
  BY OffsetAssumption, DiscAssumption
<1> DEFINE db == Frame * DiscBegin
           lo == Frame * LeadOut
           pb == PlayableBegin(o)
           pe == PlayableEnd(o)
<1>2. db \in Int /\ lo \in Int /\ DiscBegin * Frame = db /\ LeadOut * Frame = lo /\ db <= lo
  BY <1>1, TimesMonotone
<1>3. /\ pb \in Int /\ pe \in Int
      /\ CorrectableBegin(o) <= Frame * pb /\ Frame * pe <= CorrectableEnd(o)
  BY WindowBounds
<1>4. CorrectableBegin(o) = Clamp(db - o, db, lo) /\ CorrectableEnd(o) = Clamp(lo - o, db, lo)
  BY <1>2 DEF CorrectableBegin, CorrectableEnd
<1> HIDE DEF db, lo, pb, pe
<1>5. /\ CorrectableBegin(o) \in Int /\ CorrectableEnd(o) \in Int
      /\ db <= CorrectableBegin(o) /\ CorrectableEnd(o) <= lo
  BY <1>2, <1>4 DEF Clamp
<1>6. Frame * pb \in Int /\ Frame * pe \in Int
  BY <1>1, <1>3
<1>7. DiscBegin <= pb
  <2>1. Frame * (pb + 1) = Frame * pb + Frame
    BY <1>1, <1>3
  <2>2. Frame * DiscBegin < Frame * (pb + 1)
    BY <1>1, <1>2, <1>3, <1>5, <1>6, <2>1 DEF db
  <2>3. DiscBegin < pb + 1
    BY <1>1, <1>3, <2>2, TimesCancels
  <2> QED
    BY <1>1, <1>3, <2>3
<1>8. pe <= LeadOut
  <2>1. Frame * (LeadOut + 1) = Frame * LeadOut + Frame
    BY <1>1
  <2>2. Frame * pe < Frame * (LeadOut + 1)
    BY <1>1, <1>2, <1>3, <1>5, <1>6, <2>1 DEF lo
  <2>3. pe < LeadOut + 1
    BY <1>1, <1>3, <2>2, TimesCancels
  <2> QED
    BY <1>1, <1>3, <2>3
<1> QED
  BY <1>7, <1>8 DEF pb, pe

\* What was recorded is of frames of the disc, and tells what was read.
RecordedInv ==
    /\ CoverageOf(coverage, accepted)
    /\ accepted \subseteq DiscBegin..(LeadOut - 1)
    /\ MapOf(discMap, charted)

LEMMA RecordedIsExact == RecordedInv => ObservationsAreExact
<1> SUFFICES ASSUME RecordedInv PROVE ObservationsAreExact
  OBVIOUS
<1> DEFINE regions == coverage.regions
           covered == {f \in DiscBegin..(LeadOut - 1) : \E i \in DOMAIN regions : InRegion(f, regions[i])}
<1>1. /\ regions \in Seq(Intervals) /\ Len(regions) <= CoverageCapacity /\ Separated(regions)
      /\ coverage.unique = Cardinality(Within(regions, 1, Len(regions)))
      /\ Within(regions, 1, Len(regions)) \subseteq accepted
      /\ coverage.complete => Within(regions, 1, Len(regions)) = accepted
  BY DEF RecordedInv, CoverageOf
<1>2. DOMAIN regions = 1..Len(regions)
  BY <1>1
<1>3. Within(regions, 1, Len(regions)) = covered
  <2>1. DiscBegin..(LeadOut - 1) \subseteq Int
    BY OffsetAssumption, DiscAssumption
  <2>2. Within(regions, 1, Len(regions)) \subseteq DiscBegin..(LeadOut - 1)
    BY <1>1 DEF RecordedInv
  <2>3. Within(regions, 1, Len(regions)) = {f \in Int : \E i \in DOMAIN regions : InRegion(f, regions[i])}
    BY <1>2 DEF Within
  <2> QED
    BY <2>1, <2>2, <2>3
<1>4. /\ Cardinality(discMap.regions) <= MapCapacity
      /\ Apart(discMap.regions)
      /\ \A r \in discMap.regions : \A f \in r.begin..(r.end - 1) : [facts |-> r.facts, frame |-> f] \in charted
      /\ discMap.complete => \A c \in charted : \E r \in discMap.regions : r.facts = c.facts /\ InRegion(c.frame, r)
  BY DEF RecordedInv, MapOf
<1>5. \A i, j \in DOMAIN regions : i < j => regions[i].end < regions[j].begin
  BY <1>1 DEF Separated
<1>6. \A r, q \in discMap.regions : r # q /\ r.facts = q.facts => r.end < q.begin \/ q.end < r.begin
  BY <1>4 DEF Apart
<1>7. /\ coverage.unique = Cardinality(covered) /\ covered \subseteq accepted
      /\ coverage.complete => covered = accepted
  BY <1>1, <1>3
<1> HIDE DEF covered
<1> QED
  BY <1>1, <1>4, <1>5, <1>6, <1>7 DEF ObservationsAreExact, covered

\* Nothing was recorded yet of a new stream.
LEMMA EmptyCoverageIsSound == CoverageOf(EmptyCoverage, {})
<1>1. EmptyCoverage \in [regions : Seq(Intervals), unique : Int, complete : BOOLEAN]
  BY DEF EmptyCoverage
<1>2. EmptyCoverage.regions = <<>> /\ EmptyCoverage.unique = 0 /\ Len(<<>>) = 0
  BY DEF EmptyCoverage
<1>3. Within(<<>>, 1, 0) = {}
  BY DEF Within
<1>4. Cardinality({}) = 0
  BY FS_EmptySet
<1>5. Cardinality(Within(<<>>, 1, 0)) = 0
  BY <1>3, <1>4
<1>6. Separated(<<>>)
  BY DEF Separated
<1> QED
  BY <1>1, <1>2, <1>3, <1>5, <1>6, MapAssumption DEF CoverageOf

LEMMA EmptyMapIsSound == MapOf(EmptyReadMap, {})
<1>1. EmptyReadMap \in [regions : SUBSET MapRegions, complete : BOOLEAN] /\ EmptyReadMap.regions = {}
  BY DEF EmptyReadMap
<1>2. IsFiniteSet({}) /\ Cardinality({}) = 0
  BY FS_EmptySet
<1>3. IsFiniteSet(EmptyReadMap.regions) /\ Cardinality(EmptyReadMap.regions) <= MapCapacity
  <2>1. Cardinality({}) <= MapCapacity
    BY <1>2, MapAssumption
  <2> QED
    BY <1>1, <1>2, <2>1
<1> QED
  BY <1>1, <1>3 DEF MapOf, Apart

LEMMA InitRecorded == Init => RecordedInv
BY EmptyCoverageIsSound, EmptyMapIsSound DEF Init, RecordedInv

\* The facts of a read are those there are.
LEMMA FactsAreFacts == ASSUME NEW r PROVE Facts(r) \in SUBSET FactNames
BY DEF Facts, FactNames

\* The result of a read of playable frames is recorded as it was.
LEMMA FinishKeepsRecorded ==
    ASSUME RecordedInv, offset \in Int, NEW r, r.start \in Int, r.frames \in Nat \ {0},
           PlayableBegin(offset) <= r.start, r.start + r.frames <= PlayableEnd(offset), Finish(r)
    PROVE  RecordedInv'
<1> DEFINE last == r.start + r.frames
           read == r.start..(last - 1)
<1>1. /\ PlayableBegin(offset) \in Int /\ PlayableEnd(offset) \in Int
      /\ DiscBegin <= PlayableBegin(offset) /\ PlayableEnd(offset) <= LeadOut
  BY WindowBounds, WindowInDisc
<1>2. last \in Int /\ r.start < last
  OBVIOUS
<1>3. read \subseteq DiscBegin..(LeadOut - 1)
  BY <1>1, OffsetAssumption, DiscAssumption
<1>4. /\ discMap' = Chart(discMap, r.start, last, Facts(r))
      /\ charted' = charted \cup {[facts |-> Facts(r), frame |-> f] : f \in r.start..(last - 1)}
      /\ \/ coverage' = Cover(coverage, r.start, last) /\ accepted' = accepted \cup read
         \/ UNCHANGED <<coverage, accepted>>
  BY DEF Finish
<1> HIDE DEF last
<1>5. MapOf(discMap', charted')
  <2>1. Facts(r) \in SUBSET FactNames
    BY FactsAreFacts
  <2>2. MapOf(discMap, charted)
    BY DEF RecordedInv
  <2>3. MapOf(Chart(discMap, r.start, last, Facts(r)),
              charted \cup {[facts |-> Facts(r), frame |-> f] : f \in r.start..(last - 1)})
    BY <1>2, <2>1, <2>2, ChartIsSound
  <2> QED
    BY <1>4, <2>3
<1>6. CoverageOf(coverage', accepted') /\ accepted' \subseteq DiscBegin..(LeadOut - 1)
  <2>1. CoverageOf(coverage, accepted) /\ accepted \subseteq DiscBegin..(LeadOut - 1)
    BY DEF RecordedInv
  <2>2. CoverageOf(Cover(coverage, r.start, last), accepted \cup read)
    BY <1>2, <2>1, CoverIsSound
  <2> HIDE DEF read
  <2> QED
    BY <1>3, <1>4, <2>1, <2>2
<1> QED
  BY <1>5, <1>6 DEF RecordedInv, MapOf, CoverageOf

\* A seek starts the coverage anew, and leaves the map of the disc.
LEMMA SeekKeepsRecorded ==
    ASSUME RecordedInv, NEW lba, Seek(lba)
    PROVE  RecordedInv'
<1>1. /\ coverage' = EmptyCoverage /\ accepted' = {} /\ UNCHANGED <<discMap, charted>>
  BY DEF Seek
<1>2. CoverageOf(coverage', accepted') /\ MapOf(discMap', charted')
  BY <1>1, EmptyCoverageIsSound DEF RecordedInv
<1> QED
  BY <1>1, <1>2 DEF RecordedInv

\* Every step keeps it: each read that ends was of playable frames.
LEMMA NextKeepsRecorded == PositionInv /\ RecordedInv /\ [Next]_vars => RecordedInv'
<1> SUFFICES ASSUME PositionInv, RecordedInv, [Next]_vars PROVE RecordedInv'
  OBVIOUS
<1>0. /\ offset \in Int /\ position \in Int /\ Len(tail) \in Nat
      /\ PlayableBegin(offset) \in Int /\ PlayableEnd(offset) \in Int
      /\ positioned => PlayableBegin(offset) <= position
  <2>1. /\ offset \in Int /\ position \in Int /\ Len(tail) \in Nat
        /\ positioned => PlayableBegin(offset) <= position - Len(tail)
    BY DEF PositionInv
  <2>2. PlayableBegin(offset) \in Int /\ PlayableEnd(offset) \in Int
    BY <2>1, WindowBounds
  <2> QED
    BY <2>1, <2>2
<1>1. call # NoCall => /\ call.frames \in Nat \ {0} /\ PlayableBegin(offset) <= position
                       /\ position + call.frames <= PlayableEnd(offset) /\ IsCall(call)
  BY <1>0 DEF PositionInv, IsCall
<1>2. ASSUME UNCHANGED recorded PROVE RecordedInv'
  BY <1>2 DEF recorded, RecordedInv
<1>3. ASSUME call # NoCall, NEW c, c.frames = call.frames, Reject(c) PROVE RecordedInv'
  <2>1. PICK r : r.start = position /\ r.frames = c.frames /\ Finish(r)
    BY <1>3 DEF Reject
  <2> QED
    BY <1>0, <1>1, <1>3, <2>1, FinishKeepsRecorded
<1>4. ASSUME call # NoCall, NEW c, NEW candidate, c.frames = call.frames, Accept(c, candidate) PROVE RecordedInv'
  <2>1. PICK r : r.start = position /\ r.frames = c.frames /\ Finish(r)
    BY <1>4 DEF Accept
  <2> QED
    BY <1>0, <1>1, <1>4, <2>1, FinishKeepsRecorded
<1>5. ASSUME NEW lba \in SeekTo[policy], Seek(lba) PROVE RecordedInv'
  BY <1>5, SeekKeepsRecorded
<1>6. ASSUME NEW frames \in 1..MaxFrames, BeginVerified(frames) PROVE RecordedInv'
  BY <1>2, <1>6 DEF BeginVerified
<1>7. ASSUME NEW frames \in 1..MaxFrames, ReadOnce(frames) PROVE RecordedInv'
  <2>1. frames \in Nat \ {0} /\ positioned /\ position + frames <= PlayableEnd(offset)
    BY <1>7, StackAssumption DEF ReadOnce
  <2>2. PICK r : r.start = position /\ r.frames = frames /\ Finish(r)
    BY <1>7 DEF ReadOnce
  <2> QED
    BY <1>0, <2>1, <2>2, FinishKeepsRecorded
<1>8. CASE AttemptRead
  <2>1. PICK answer : Attempt(answer)
    BY <1>8 DEF AttemptRead
  <2> DEFINE read == InnerRead(position - call.overlap, call.frames + call.overlap, answer)
             c    == WithAttempt(read)
             candidate == c.candidates[Found(read)]
  <2>2. call # NoCall /\ c.frames = call.frames
    BY <1>1, <1>8, AttemptKeepsCall DEF AttemptRead
  <2>3. Accept(c, candidate) \/ Reject(c) \/ UNCHANGED recorded
    BY <2>1 DEF Attempt
  <2> HIDE DEF read, c, candidate
  <2> QED
    BY <1>2, <1>3, <1>4, <2>2, <2>3
<1>9. CASE OutOfTime
  BY <1>3, <1>9 DEF OutOfTime
<1>10. CASE UNCHANGED vars
  BY <1>2, <1>10 DEF vars
<1> QED
  BY <1>5, <1>6, <1>7, <1>8, <1>9, <1>10 DEF Next

\* Whatever is read, and in whatever order, with arrays of any capacity, the
\* coverage of a stream holds exactly the frames accepted since its seek and
\* counts each once, and the map of the disc tells of exactly the frames that
\* were read with those facts; when an array is full what it holds stays true
\* (ReadCoverage::observe and DiscReadMap::observe, under PcmWorker's reader).
THEOREM ObservationsAreExactAlways == Spec => []ObservationsAreExact
<1>1. Spec => [](PositionInv /\ RecordedInv)
  <2>1. Init => PositionInv /\ RecordedInv
    BY InitPosition, InitRecorded
  <2>2. PositionInv /\ RecordedInv /\ [Next]_vars => PositionInv' /\ RecordedInv'
    BY NextKeepsPosition, NextKeepsRecorded
  <2> QED
    BY <2>1, <2>2, PTL DEF Spec
<1> QED
  BY <1>1, RecordedIsExact, PTL
=============================================================================
