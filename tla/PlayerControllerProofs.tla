----------------------- MODULE PlayerControllerProofs -----------------------
(***************************************************************************)
(* Proofs about PlayerController: for every table of contents, playable    *)
(* range and restart threshold, the published track holds the published    *)
(* position, what plays can be read, and a seek ends on the playable frame *)
(* nearest to the one asked for.                                           *)
(*                                                                         *)
(* ControllerInv is about a controller state and not about the variable,   *)
(* so that the engine, which keeps a controller state of its own, can use  *)
(* the same lemmas.                                                        *)
(***************************************************************************)
EXTENDS PlayerController, WellFoundedInduction, TLAPS

-----------------------------------------------------------------------------
(* The table of contents.                                                  *)

\* Tracks are not empty, start inside the disc, and follow each other.
LEMMA TrackBounds ==
    /\ Len(Starts) \in Nat \ {0} /\ 1 \in Tracks /\ LeadOut \in Nat \ {0}
    /\ \A i \in Tracks : /\ Starts[i] \in 0..(LeadOut - 1)
                         /\ TrackEnd(i) \in 1..LeadOut
                         /\ Starts[i] < TrackEnd(i)
                         /\ Starts[1] <= Starts[i]
<1>1. /\ Len(Starts) \in Nat \ {0} /\ 1 \in Tracks /\ LeadOut \in Nat \ {0}
      /\ \A i \in Tracks : Starts[i] \in Nat /\ Starts[i] < LeadOut
  BY TocAssumption, DiscAssumption DEF Tracks
<1>2. ASSUME NEW i \in Tracks PROVE /\ TrackEnd(i) \in 1..LeadOut
                                    /\ Starts[i] < TrackEnd(i) /\ Starts[1] <= Starts[i]
  <2>1. i = 1 \/ Starts[1] < Starts[i]
    BY <1>1, TocAssumption DEF Tracks
  <2>2. i # Len(Starts) => i + 1 \in Tracks /\ Starts[i] < Starts[i + 1]
    BY <1>1, TocAssumption DEF Tracks
  <2> QED
    BY <1>1, <2>1, <2>2 DEF TrackEnd
<1> QED
  BY <1>1, <1>2

\* A set of numbers that is not empty and has an upper bound has a largest
\* one: the place of the last track that starts at or before a frame.
LEMMA LargestIndex ==
    ASSUME NEW n \in Nat, NEW S \in SUBSET (1..n), S # {}
    PROVE  \E i \in S : \A j \in S : j <= i
<1> DEFINE T == {n - i : i \in S}
<1>0. PICK k \in S : k \in 1..n
  OBVIOUS
<1>00. \A i \in S : n - i \in Nat
  OBVIOUS
<1>1. T \subseteq Nat /\ T # {}
  BY <1>0, <1>00
<1>2. PICK x \in T : \A y \in T : <<y, x>> \notin OpToRel(<, Nat)
  BY <1>1, NatLessThanWellFounded, WFMin
<1>3. \A y \in T : ~(y < x)
  BY <1>1, <1>2 DEF OpToRel
<1>4. PICK i \in S : x = n - i
  OBVIOUS
<1>5. ASSUME NEW j \in S PROVE j <= i
  <2>1. ~(n - j < n - i)
    BY <1>3, <1>4
  <2> QED
    BY <2>1
<1> QED
  BY <1>5

\* The track of a frame is the one that holds it.
LEMMA TrackAtHolds ==
    ASSUME NEW lba \in Starts[1]..(LeadOut - 1)
    PROVE  /\ TrackAt(lba) \in Tracks
           /\ Starts[TrackAt(lba)] <= lba /\ lba < TrackEnd(TrackAt(lba))
<1> DEFINE S == {i \in Tracks : Starts[i] <= lba}
<1>0. Starts[1] \in Nat /\ lba \in Int
  BY TrackBounds
<1>1. S \in SUBSET (1..Len(Starts)) /\ S # {} /\ Len(Starts) \in Nat
  BY SMTT(30), <1>0, TrackBounds DEF Tracks
<1>2. PICK i \in S : \A j \in S : j <= i
  BY <1>1, LargestIndex
<1>3. \E k \in Tracks : Starts[k] <= lba /\ \A j \in Tracks : Starts[j] <= lba => j <= k
  BY <1>2
<1>4. /\ TrackAt(lba) \in Tracks /\ Starts[TrackAt(lba)] <= lba
      /\ \A j \in Tracks : Starts[j] <= lba => j <= TrackAt(lba)
  BY <1>3 DEF TrackAt
<1> DEFINE t == TrackAt(lba)
<1> HIDE DEF t
<1>5. /\ t \in Tracks /\ Starts[t] <= lba
      /\ \A j \in Tracks : Starts[j] <= lba => j <= t
  BY <1>4 DEF t
<1>6. lba < TrackEnd(t)
  <2>1. CASE t = Len(Starts)
    BY <2>1, <1>0, TrackBounds DEF TrackEnd
  <2>2. CASE t # Len(Starts)
    <3>1. t + 1 \in Tracks /\ ~(t + 1 <= t)
      BY <2>2, <1>1, <1>5 DEF Tracks
    <3>2. Starts[t + 1] \in Int /\ ~(Starts[t + 1] <= lba)
      BY SMTT(30), <3>1, <1>5, TrackBounds
    <3> QED
      BY <2>2, <3>2, <1>0 DEF TrackEnd
  <2> QED
    BY <2>1, <2>2
<1> QED
  BY <1>5, <1>6 DEF t

-----------------------------------------------------------------------------
(* The invariant of a controller state.                                    *)

HoldsPosition(c) == Starts[c.index] <= c.position /\ c.position < TrackEnd(c.index)
InRange(c) == c.begin <= c.position /\ c.position < c.end

\* A loaded disc has a playable range inside it, which may be empty; this is
\* what seeks and clamps rely on.
RangeOnDisc(c) == Starts[1] <= c.begin /\ c.begin <= c.end /\ c.end <= LeadOut

ControllerInv(c) ==
    /\ c \in ControllerStates
    /\ HasDisc(c) => HoldsPosition(c) /\ RangeOnDisc(c)
    /\ c.playback \in {"playing", "paused"} => InRange(c)

\* Without a disc there is nothing to hold.
LEMMA NoDiscInv == ControllerInv(NoDisc)
BY TrackBounds DEF ControllerInv, NoDisc, ControllerStates, HasDisc

\* The frames of a track that can be selected lie in the track and in the
\* playable range.
LEMMA SelectableFrames ==
    ASSUME NEW c, ControllerInv(c), HasDisc(c), NEW i \in Tracks, Selectable(c, i)
    PROVE  /\ FirstOf(c, i) \in Int /\ LastOf(c, i) \in Int /\ FirstOf(c, i) < LastOf(c, i)
           /\ Starts[i] <= FirstOf(c, i) /\ LastOf(c, i) <= TrackEnd(i)
           /\ c.begin <= FirstOf(c, i) /\ LastOf(c, i) <= c.end
<1>1. c.begin \in Int /\ c.end \in Int /\ Starts[i] \in Int /\ TrackEnd(i) \in Int
  BY TrackBounds DEF ControllerInv, ControllerStates
<1> QED
  BY <1>1 DEF Selectable, FirstOf, LastOf, Larger, Smaller

\* Moving within the disc: another track and position that agree, under the
\* same intent and range.
LEMMA MoveKeeps ==
    ASSUME NEW c, ControllerInv(c), HasDisc(c), NEW i \in Tracks, NEW p \in Int,
           Starts[i] <= p, p < TrackEnd(i),
           c.playback \in {"playing", "paused"} => c.begin <= p /\ p < c.end
    PROVE  ControllerInv([c EXCEPT !.index = i, !.position = p])
<1> DEFINE d == [c EXCEPT !.index = i, !.position = p]
<1>1. c \in ControllerStates /\ RangeOnDisc(c)
  BY DEF ControllerInv
<1>2. p \in 0..(LeadOut - 1)
  BY TrackBounds
<1>3. d \in ControllerStates
  BY <1>1, <1>2 DEF ControllerStates
<1>4. /\ d.index = i /\ d.position = p /\ d.playback = c.playback
      /\ d.begin = c.begin /\ d.end = c.end
  BY <1>1 DEF ControllerStates
<1> HIDE DEF d
<1>5. ControllerInv(d)
  BY <1>1, <1>3, <1>4 DEF ControllerInv, HoldsPosition, RangeOnDisc, InRange, HasDisc
<1> QED
  BY <1>5 DEF d

\* select_index(index, true) stays in the track and in the range.
LEMMA SelectKeeps ==
    ASSUME NEW c, ControllerInv(c), HasDisc(c), NEW i \in Tracks
    PROVE  ControllerInv(Select(c, i))
<1>1. CASE Selectable(c, i)
  <2>1. Starts[i] \in Int /\ TrackEnd(i) \in Int /\ c.begin \in Int /\ c.end \in Int
    BY TrackBounds DEF ControllerInv, ControllerStates
  <2>2. ControllerInv([c EXCEPT !.index = i, !.position = FirstOf(c, i)])
    <3> DEFINE p == FirstOf(c, i)
    <3>1. /\ p \in Int /\ Starts[i] <= p /\ p < TrackEnd(i)
          /\ c.begin <= p /\ p < c.end
      BY <1>1, <2>1, SelectableFrames
    <3> HIDE DEF p
    <3>2. ControllerInv([c EXCEPT !.index = i, !.position = p])
      BY <3>1, MoveKeeps
    <3> QED
      BY <3>2 DEF p
  <2> QED
    BY <1>1, <2>2 DEF Select
<1>2. CASE ~Selectable(c, i)
  BY <1>2 DEF Select
<1> QED
  BY <1>1, <1>2

-----------------------------------------------------------------------------
(* Every operation keeps the invariant.                                    *)

\* load_disc and set_playback_range.
LEMMA LoadKeeps ==
    ASSUME NEW c, ControllerInv(c), NEW b \in 0..LeadOut, NEW e \in 0..LeadOut,
           Starts[1] <= b, b <= e
    PROVE  /\ ControllerInv(SetPlaybackRange(LoadDisc(c), b, e))
           /\ SetPlaybackRange(LoadDisc(c), b, e).playback = "stopped"
           /\ SetPlaybackRange(LoadDisc(c), b, e).begin = b
           /\ SetPlaybackRange(LoadDisc(c), b, e).end = e
<1> DEFINE d == [c EXCEPT !.playback = "stopped", !.begin = Starts[1], !.end = LeadOut]
           l == [d EXCEPT !.index = 1, !.position = FirstOf(d, 1)]
           r == [l EXCEPT !.begin = b, !.end = e]
<1>0. Starts[1] \in 0..(LeadOut - 1) /\ TrackEnd(1) \in 1..LeadOut /\ Starts[1] < TrackEnd(1) /\ LeadOut \in Nat
  BY TrackBounds
<1>1. c \in ControllerStates
  BY DEF ControllerInv
<1>2. d \in ControllerStates /\ d.playback = "stopped" /\ d.begin = Starts[1] /\ d.end = LeadOut
  <2>1. Starts[1] \in 0..LeadOut /\ LeadOut \in 0..LeadOut
    BY <1>0
  <2> QED
    BY <2>1, <1>1 DEF ControllerStates
<1> HIDE DEF d
<1>3. FirstOf(d, 1) = Starts[1] /\ LastOf(d, 1) = TrackEnd(1) /\ Selectable(d, 1)
  BY <1>0, <1>2 DEF FirstOf, LastOf, Larger, Smaller, Selectable
<1>4. l \in ControllerStates /\ l.playback = "stopped" /\ l.index = 1 /\ l.position = Starts[1]
  BY <1>0, <1>2, <1>3, TrackBounds DEF ControllerStates
<1>5. LoadDisc(c) = l
  BY <1>3 DEF LoadDisc, Select, d
<1> HIDE DEF l
<1>6. /\ r \in ControllerStates /\ r.playback = "stopped" /\ r.index = 1 /\ r.position = Starts[1]
      /\ r.begin = b /\ r.end = e
  BY <1>4 DEF ControllerStates
<1>7. SetPlaybackRange(LoadDisc(c), b, e) = r
  BY <1>5 DEF SetPlaybackRange
<1> HIDE DEF r
<1>8. ControllerInv(r)
  BY <1>0, <1>6 DEF ControllerInv, HoldsPosition, RangeOnDisc, HasDisc
<1> QED
  BY <1>6, <1>7, <1>8

\* play() moves into the playable part of its track before it plays.
LEMMA PlayKeeps == ASSUME NEW c, ControllerInv(c) PROVE ControllerInv(Play(c))
<1>1. CASE CanPlay(c)
  <2> DEFINE p == Clamp(c.position, FirstOf(c, c.index), LastOf(c, c.index) - 1)
             d == [c EXCEPT !.playback = "playing", !.position = p]
  <2>1. /\ c \in ControllerStates /\ c.index \in Tracks /\ HasDisc(c) /\ Selectable(c, c.index)
        /\ RangeOnDisc(c) /\ c.position \in Int /\ c.begin \in Int /\ c.end \in Int
    BY <1>1 DEF CanPlay, ControllerInv, ControllerStates
  <2>2. /\ p \in Int /\ Starts[c.index] <= p /\ p < TrackEnd(c.index)
        /\ c.begin <= p /\ p < c.end /\ p \in 0..(LeadOut - 1)
    <3>1. Starts[c.index] \in 0..LeadOut /\ TrackEnd(c.index) \in 1..LeadOut /\ LeadOut \in Nat
      BY <2>1, TrackBounds
    <3> QED
      BY <2>1, <3>1, SelectableFrames DEF Clamp
  <2> HIDE DEF p
  <2>3. /\ d \in ControllerStates /\ d.position = p /\ d.index = c.index
        /\ d.begin = c.begin /\ d.end = c.end
    BY <2>1, <2>2 DEF ControllerStates
  <2>4. Play(c) = d
    BY <1>1 DEF Play, p
  <2> HIDE DEF d
  <2>5. ControllerInv(d)
    BY <2>1, <2>2, <2>3 DEF ControllerInv, HoldsPosition, RangeOnDisc, InRange, HasDisc
  <2> QED
    BY <2>4, <2>5
<1>2. CASE ~CanPlay(c)
  BY <1>2 DEF Play
<1> QED
  BY <1>1, <1>2

\* pause() keeps everything but the intent.
LEMMA PauseKeeps == ASSUME NEW c, ControllerInv(c) PROVE ControllerInv(Pause(c))
BY DEF ControllerInv, Pause, ControllerStates, HasDisc, HoldsPosition, RangeOnDisc, InRange

\* stop() goes to the first track, which may lie outside the range.
LEMMA StopKeeps ==
    ASSUME NEW c, ControllerInv(c)
    PROVE  /\ ControllerInv(Stop(c)) /\ Stop(c).playback \in {"no_disc", "stopped"}
           /\ Stop(c).begin = c.begin /\ Stop(c).end = c.end
<1>1. CASE HasDisc(c)
  <2> DEFINE d == [c EXCEPT !.playback = "stopped"]
  <2>1. d \in ControllerStates /\ c \in ControllerStates /\ RangeOnDisc(c)
    BY <1>1 DEF ControllerInv, ControllerStates
  <2>2. /\ d.playback = "stopped" /\ d.begin = c.begin /\ d.end = c.end
        /\ d.index = c.index /\ d.position = c.position
    BY <2>1 DEF ControllerStates
  <2> HIDE DEF d
  <2>3. ControllerInv(d) /\ HasDisc(d)
    BY <1>1, <2>1, <2>2 DEF ControllerInv, HasDisc, HoldsPosition, RangeOnDisc
  <2> DEFINE s == [d EXCEPT !.index = 1, !.position = Starts[1]]
  <2>4. ControllerInv(s)
    <3>1. 1 \in Tracks /\ Starts[1] \in Int /\ Starts[1] <= Starts[1] /\ Starts[1] < TrackEnd(1)
      BY TrackBounds
    <3> QED
      BY <2>2, <2>3, <3>1, MoveKeeps
  <2>5. Stop(c) = s
    BY <1>1 DEF Stop, SelectUnconstrained, d
  <2>6. s.playback = "stopped" /\ s.begin = c.begin /\ s.end = c.end
    BY <2>1, <2>2 DEF ControllerStates
  <2> QED
    BY <2>4, <2>5, <2>6
<1>2. CASE ~HasDisc(c)
  BY <1>2 DEF Stop, HasDisc
<1> QED
  BY <1>1, <1>2

\* A track of the disc is asked for.
LEMMA SelectTrackKeeps == ASSUME NEW c, ControllerInv(c), NEW i PROVE ControllerInv(SelectTrack(c, i))
BY SelectKeeps DEF SelectTrack

\* The next track, if there is one.
LEMMA SkipNextKeeps == ASSUME NEW c, ControllerInv(c) PROVE ControllerInv(SkipNext(c))
<1>1. c.index < Len(Starts) => c.index + 1 \in Tracks
  BY TrackBounds DEF ControllerInv, ControllerStates, Tracks
<1> QED
  BY <1>1, SelectKeeps DEF SkipNext

\* The start of this track, or the track before it.
LEMMA SkipPreviousKeeps == ASSUME NEW c, ControllerInv(c) PROVE ControllerInv(SkipPrevious(c))
<1>1. c.index \in Tracks /\ (c.index # 1 => c.index - 1 \in Tracks)
  BY TrackBounds DEF ControllerInv, ControllerStates, Tracks
<1> QED
  BY <1>1, SelectKeeps DEF SkipPrevious, PreviousTrack

-----------------------------------------------------------------------------
(* Seeking.                                                                *)

\* Where a seek goes, and that it is the frame asked for if that can be
\* played, and the nearest end of the range if it cannot.
LEMMA SeekTargets ==
    ASSUME NEW c, ControllerInv(c), CanSeek(c), NEW f \in Int
    PROVE  /\ SeekTarget(c, f) \in c.begin..(c.end - 1)
           /\ SeekTarget(c, f) = Clamp(c.position + f, c.begin, c.end - 1)
<1>1. /\ c.begin \in Int /\ c.end \in Int /\ c.position \in 0..(LeadOut - 1) /\ RangeOnDisc(c)
      /\ c.begin < c.end /\ Starts[1] \in 0..(LeadOut - 1) /\ LeadOut \in Nat
  BY TrackBounds DEF CanSeek, ControllerInv, ControllerStates
<1> QED
  BY <1>1 DEF SeekTarget, Clamp, RangeOnDisc

\* A seek keeps the track, the position and the range in agreement.
LEMMA SeekKeeps ==
    ASSUME NEW c, ControllerInv(c), NEW f \in Int
    PROVE  /\ ControllerInv(SeekRelative(c, f))
           /\ SeekRelative(c, f).playback = c.playback
           /\ SeekRelative(c, f).begin = c.begin /\ SeekRelative(c, f).end = c.end
           /\ CanSeek(c) => SeekRelative(c, f).position = SeekTarget(c, f)
<1>1. CASE CanSeek(c)
  <2> DEFINE t == SeekTarget(c, f)
             s == [c EXCEPT !.index = TrackAt(t), !.position = t]
  <2>1. c \in ControllerStates /\ HasDisc(c) /\ RangeOnDisc(c) /\ c.begin \in Int /\ c.end \in Int
    BY <1>1 DEF CanSeek, ControllerInv, ControllerStates
  <2>2. t \in c.begin..(c.end - 1)
    BY <1>1, SeekTargets
  <2> HIDE DEF t
  <2>3. Starts[1] \in Int /\ LeadOut \in Int
    BY TrackBounds
  <2>4. t \in Starts[1]..(LeadOut - 1)
    BY <2>1, <2>2, <2>3 DEF RangeOnDisc
  <2>5. ControllerInv(s)
    <3> DEFINE i == TrackAt(t)
    <3>1. i \in Tracks /\ Starts[i] <= t /\ t < TrackEnd(i)
      BY <2>4, TrackAtHolds
    <3>2. t \in Int /\ c.begin <= t /\ t < c.end
      BY <2>1, <2>2
    <3> HIDE DEF i
    <3>3. ControllerInv([c EXCEPT !.index = i, !.position = t])
      BY <2>1, <3>1, <3>2, MoveKeeps
    <3> QED
      BY <3>3 DEF i
  <2>6. SeekRelative(c, f) = s
    BY <1>1 DEF SeekRelative, t
  <2>7. s.playback = c.playback /\ s.begin = c.begin /\ s.end = c.end /\ s.position = t
    BY <2>1 DEF ControllerStates
  <2> QED
    BY <2>5, <2>6, <2>7 DEF t
<1>2. CASE ~CanSeek(c)
  BY <1>2 DEF SeekRelative
<1> QED
  BY <1>1, <1>2

\* Progress from the engine is a seek forwards: to the frame itself when it
\* lies in the range, and without an effect on anything but the position.
LEMMA ProgressKeeps ==
    ASSUME NEW c, ControllerInv(c), NEW lba \in Int
    PROVE  /\ ControllerInv(PlaybackPosition(c, lba))
           /\ PlaybackPosition(c, lba).playback = c.playback
           /\ PlaybackPosition(c, lba).begin = c.begin /\ PlaybackPosition(c, lba).end = c.end
           /\ (c.playback = "playing" /\ c.position <= lba /\ lba < c.end)
                 => PlaybackPosition(c, lba).position = lba
<1>1. CASE c.playback = "playing" /\ c.position <= lba /\ lba < LeadOut
  <2>1. /\ c.position \in Int /\ c.begin \in Int /\ c.end \in Int
        /\ c.begin <= c.position /\ c.position < c.end
        /\ CanSeek(c)
    BY <1>1 DEF ControllerInv, ControllerStates, InRange, CanSeek, HasDisc
  <2>2. lba - c.position \in Int /\ c.position + (lba - c.position) = lba
    BY <2>1
  <2>3. lba < c.end => SeekTarget(c, lba - c.position) = lba
    BY <1>1, <2>1, <2>2, SeekTargets DEF Clamp
  <2> QED
    BY <1>1, <2>1, <2>2, <2>3, SeekKeeps DEF PlaybackPosition
<1>2. CASE ~(c.playback = "playing" /\ c.position <= lba /\ lba < LeadOut)
  <2>1. c.playback = "playing" => c.end \in Int /\ c.end <= LeadOut /\ LeadOut \in Int
    BY TrackBounds DEF ControllerInv, ControllerStates, RangeOnDisc, HasDisc
  <2> QED
    BY <1>2, <2>1 DEF PlaybackPosition
<1> QED
  BY <1>1, <1>2

\* No playable frame is nearer to the frame asked for than the one reached.
LEMMA SeekReachesNearest ==
    ASSUME NEW c, ControllerInv(c), CanSeek(c), NEW f \in Int
    PROVE  /\ SeekRelative(c, f).position \in c.begin..(c.end - 1)
           /\ \A p \in c.begin..(c.end - 1) :
                 Distance(SeekRelative(c, f).position, c.position + f) <= Distance(p, c.position + f)
<1>1. c.position \in Int /\ c.begin \in Int /\ c.end \in Int
  BY DEF ControllerInv, ControllerStates
<1>2. SeekRelative(c, f).position = Clamp(c.position + f, c.begin, c.end - 1)
  BY SeekKeeps, SeekTargets
<1>3. SeekRelative(c, f).position \in c.begin..(c.end - 1)
  BY SeekKeeps, SeekTargets
<1> QED
  BY <1>1, <1>2, <1>3 DEF Clamp, Distance

-----------------------------------------------------------------------------
\* The invariant of the state implies what the runs check.
LEMMA InvIsPlayable == ControllerInv(ctl) => PositionIsPlayable
<1> SUFFICES ASSUME ControllerInv(ctl) PROVE PositionIsPlayable
  OBVIOUS
<1>1. ControllerTypeOK /\ TrackHoldsPosition /\ PlayingInRange
  BY DEF ControllerInv, ControllerTypeOK, TrackHoldsPosition, PlayingInRange, HoldsPosition, InRange
<1>2. SeekIsNearest
  BY TocAssumption, SeekReachesNearest DEF SeekIsNearest
<1> QED
  BY <1>1, <1>2 DEF PositionIsPlayable

PlayableInv == ControllerInv(ctl)

\* Every operation of the controller keeps the invariant.
LEMMA ControllerStep == PlayableInv /\ [ControllerNext]_ctl => PlayableInv'
<1> SUFFICES ASSUME ControllerInv(ctl), [ControllerNext]_ctl PROVE ControllerInv(ctl')
  BY DEF PlayableInv
<1>1. ASSUME NEW b \in 0..LeadOut, NEW e \in 0..LeadOut, Load(b, e) PROVE ControllerInv(ctl')
  BY <1>1, LoadKeeps DEF Load
<1>2. ASSUME NEW f \in SeekSteps, ctl' = SeekRelative(ctl, f) PROVE ControllerInv(ctl')
  BY <1>2, TocAssumption, SeekKeeps
<1>3. ASSUME NEW lba \in 0..LeadOut, ctl' = PlaybackPosition(ctl, lba) PROVE ControllerInv(ctl')
  BY <1>3, ProgressKeeps
<1> QED
  BY <1>1, <1>2, <1>3, NoDiscInv, PlayKeeps, PauseKeeps, StopKeeps, SkipNextKeeps, SkipPreviousKeeps,
     SelectTrackKeeps DEF ControllerNext

\* Whatever a caller does with the controller, in any order: the position is
\* in the published track and can be played, and a seek is exact.
THEOREM ControllerIsPlayable == ControllerSpec => []PositionIsPlayable
<1>1. ControllerInit => PlayableInv
  BY NoDiscInv DEF ControllerInit, PlayableInv
<1>2. PlayableInv => PositionIsPlayable
  BY InvIsPlayable DEF PlayableInv
<1> QED
  BY <1>1, <1>2, ControllerStep, PTL DEF ControllerSpec
=============================================================================
