-------------------------- MODULE PlayerController --------------------------
(***************************************************************************)
(* The player controller: the user's intent (what to play, from where),    *)
(* kept on the session thread without any hardware access.  Each command   *)
(* is an operator from a controller state to the next, so that the engine  *)
(* can be composed with it, and an action of the specification below.      *)
(* The table of contents is the constant Starts: tracks are numbered from  *)
(* one here, and are never empty.                                          *)
(***************************************************************************)
EXTENDS AudioDisc, Sequences, FiniteSets

CONSTANTS
    Starts,           \* start_lba of each track, a sequence
    RestartThreshold, \* restart_threshold_frames: 3 seconds
    SeekSteps         \* the relative seeks a caller may ask for

\* make_audio_toc: positions are nonnegative and strictly increasing.
ASSUME TocAssumption ==
    /\ RestartThreshold \in Nat \ {0} /\ SeekSteps \subseteq Int
    /\ Starts \in Seq(Nat) /\ Len(Starts) > 0
    /\ \A i \in 1..Len(Starts) : Starts[i] < LeadOut
    /\ \A i, j \in 1..Len(Starts) : i < j => Starts[i] < Starts[j]

VARIABLE ctl  \* the controller: intent, current track, position, playable range

Larger(a, b) == IF a > b THEN a ELSE b
Smaller(a, b) == IF a < b THEN a ELSE b
Clamp(x, lo, hi) == IF x < lo THEN lo ELSE IF x > hi THEN hi ELSE x

Tracks == 1..Len(Starts)
TrackEnd(i) == IF i = Len(Starts) THEN LeadOut ELSE Starts[i + 1]

\* The frames of a track inside the playable range are [FirstOf, LastOf).
FirstOf(c, i) == Larger(Starts[i], c.begin)
LastOf(c, i) == Smaller(TrackEnd(i), c.end)
Selectable(c, i) == FirstOf(c, i) < LastOf(c, i)

HasDisc(c) == c.playback # "no_disc"

NoDisc == [playback |-> "no_disc", index |-> 1, position |-> 0, begin |-> 0, end |-> 0]

\* select_index(index, true) and select_index(index, false).
Select(c, i) ==
    IF Selectable(c, i) THEN [c EXCEPT !.index = i, !.position = FirstOf(c, i)] ELSE c
SelectUnconstrained(c, i) == [c EXCEPT !.index = i, !.position = Starts[i]]

LoadDisc(c) ==
    Select([c EXCEPT !.playback = "stopped", !.begin = Starts[1], !.end = LeadOut], 1)

SetPlaybackRange(c, b, e) == [c EXCEPT !.begin = b, !.end = e]

CanPlay(c) == HasDisc(c) /\ Selectable(c, c.index)

Play(c) ==
    IF CanPlay(c)
    THEN [c EXCEPT !.playback = "playing",
                   !.position = Clamp(@, FirstOf(c, c.index), LastOf(c, c.index) - 1)]
    ELSE c

Pause(c) == IF c.playback = "playing" THEN [c EXCEPT !.playback = "paused"] ELSE c

\* stop() and finished(): back to the first track, whatever the range.
Stop(c) ==
    IF HasDisc(c) THEN SelectUnconstrained([c EXCEPT !.playback = "stopped"], 1) ELSE c

SelectTrack(c, i) == IF HasDisc(c) /\ i \in Tracks THEN Select(c, i) ELSE c

\* What next() and previous() return; on the last track next() is accepted
\* and changes nothing.
CanSkipNext(c) ==
    HasDisc(c) /\ c.begin < c.end /\ (c.index < Len(Starts) => Selectable(c, c.index + 1))
SkipNext(c) ==
    IF HasDisc(c) /\ c.begin < c.end /\ c.index < Len(Starts) THEN Select(c, c.index + 1) ELSE c

PreviousTrack(c) ==
    IF c.index = 1 \/ c.position - Starts[c.index] >= RestartThreshold THEN c.index ELSE c.index - 1
CanSkipPrevious(c) == HasDisc(c) /\ Selectable(c, PreviousTrack(c))
SkipPrevious(c) == IF HasDisc(c) THEN Select(c, PreviousTrack(c)) ELSE c

\* Mutant: the track is looked up by its end, so that the first frame of a
\* track belongs to the one before.
TrackBefore(lba) == CHOOSE i \in Tracks : /\ lba <= TrackEnd(i)
                                          /\ \A j \in Tracks : lba <= TrackEnd(j) => i <= j

\* std::upper_bound - 1: the last track that starts at or before lba.
TrackAt(lba) == CHOOSE i \in Tracks : /\ Starts[i] <= lba
                                      /\ \A j \in Tracks : Starts[j] <= lba => j <= i

CanSeek(c) == HasDisc(c) /\ c.begin < c.end

\* Mutant: the delta is clamped to the disc, the sum to nothing.
SeekInDisc(c, frames) ==
    c.position + Clamp(frames, Starts[1] - c.position, LeadOut - 1 - c.position)

\* The delta is clamped to the disc before the addition, the sum to the range.
SeekTarget(c, frames) ==
    Clamp(c.position + Clamp(frames, Starts[1] - c.position, LeadOut - 1 - c.position),
          c.begin, c.end - 1)

SeekRelative(c, frames) ==
    IF CanSeek(c)
    THEN [c EXCEPT !.index = TrackAt(SeekTarget(c, frames)), !.position = SeekTarget(c, frames)]
    ELSE c

\* Progress reported by the engine: only forwards, only while playing.
PlaybackPosition(c, lba) ==
    IF c.playback = "playing" /\ c.position <= lba /\ lba < LeadOut
    THEN SeekRelative(c, lba - c.position) ELSE c

-----------------------------------------------------------------------------
ControllerInit == ctl = NoDisc

\* load_disc and, when a read offset is configured, set_playback_range: the
\* range is empty when no frame of the disc can be corrected.
Load(b, e) ==
    /\ Starts[1] <= b /\ b <= e /\ e <= LeadOut
    /\ ctl' = SetPlaybackRange(LoadDisc(ctl), b, e)

\* The operations of the controller; callers are free in their order.
ControllerNext ==
    \/ \E b, e \in 0..LeadOut : Load(b, e)
    \/ ctl' = NoDisc
    \/ ctl' = Play(ctl)
    \/ ctl' = Pause(ctl)
    \/ ctl' = Stop(ctl)
    \/ ctl' = SkipNext(ctl)
    \/ ctl' = SkipPrevious(ctl)
    \/ \E i \in Tracks : ctl' = SelectTrack(ctl, i)
    \/ \E frames \in SeekSteps : ctl' = SeekRelative(ctl, frames)
    \/ \E lba \in 0..LeadOut : ctl' = PlaybackPosition(ctl, lba)

ControllerSpec == ControllerInit /\ [][ControllerNext]_ctl

-----------------------------------------------------------------------------
ControllerStates ==
    [playback : {"no_disc", "stopped", "playing", "paused"}, index : Tracks,
     position : 0..(LeadOut - 1), begin : 0..LeadOut, end : 0..LeadOut]

\* The controller's fields hold values of the disc.
ControllerTypeOK == ctl \in ControllerStates

\* The published track and position agree: the position always lies inside
\* the published track, however seeks, skips, stops and the engine's
\* progress reports follow each other across track and range boundaries.
TrackHoldsPosition ==
    HasDisc(ctl) => Starts[ctl.index] <= ctl.position /\ ctl.position < TrackEnd(ctl.index)

\* While playing or paused the position is a frame the reader may be asked
\* for: inside the playable range, which load and stop may both leave.
PlayingInRange ==
    ctl.playback \in {"playing", "paused"} => ctl.begin <= ctl.position /\ ctl.position < ctl.end

Distance(a, b) == IF a < b THEN b - a ELSE a - b

\* A relative seek, and with it a progress report, ends on the playable frame
\* nearest to the one asked for: clamping the delta to the disc before the
\* addition, to keep it from overflowing, loses nothing, also when the
\* position is outside the range.
SeekIsNearest ==
    CanSeek(ctl) =>
        \A frames \in SeekSteps :
            LET asked == ctl.position + frames
                reached == SeekRelative(ctl, frames).position
            IN  /\ reached \in ctl.begin..(ctl.end - 1)
                /\ \A p \in ctl.begin..(ctl.end - 1) :
                      Distance(reached, asked) <= Distance(p, asked)

\* What the user sees and what the reader is asked for: the position is in
\* the track that is shown, can be played once there is sound, and goes where
\* a seek sends it.
PositionIsPlayable == ControllerTypeOK /\ TrackHoldsPosition /\ PlayingInRange /\ SeekIsNearest
=============================================================================
