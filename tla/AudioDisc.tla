----------------------------- MODULE AudioDisc -----------------------------
(***************************************************************************)
(* What every user of an audio disc knows of it: its lead-out.  Frames are *)
(* numbered 0..(LeadOut - 1); make_audio_toc accepts no other disc.        *)
(***************************************************************************)
EXTENDS Integers

CONSTANT LeadOut  \* leadout_lba: the first frame address after the audio

ASSUME DiscAssumption == LeadOut \in Nat \ {0}
=============================================================================
