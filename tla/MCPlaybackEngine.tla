-------------------------- MODULE MCPlaybackEngine --------------------------
(* PlaybackEngine on a disc of two tracks.                                 *)
EXTENDS PlaybackEngine

MCStarts == <<0, 2>>
MCSeekSteps == {-3, -1, 1, 2}
=============================================================================
