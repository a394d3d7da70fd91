----------------------------- MODULE ReadOffset ----------------------------
(***************************************************************************)
(* A configured read offset moves the samples of the disc by a number of   *)
(* stereo samples: corrected sample s is sample s + offset of the disc.    *)
(* Only whole corrected frames all samples of which lie on the disc can be *)
(* played, and a read of them asks the drive for the physical frames that  *)
(* hold those samples (read_offset.hpp, read_offset.cpp).                  *)
(***************************************************************************)
EXTENDS AudioDisc

CONSTANTS
    DiscBegin,  \* tracks.front().start_lba
    Frame       \* stereo samples per CD frame (588)

ASSUME OffsetAssumption == Frame \in Nat \ {0} /\ DiscBegin \in 0..(LeadOut - 1)

Clamp(x, low, high) == IF x < low THEN low ELSE IF x > high THEN high ELSE x

CorrectableBegin(offset) == Clamp(DiscBegin * Frame - offset, DiscBegin * Frame, LeadOut * Frame)
CorrectableEnd(offset)   == Clamp(LeadOut * Frame - offset, DiscBegin * Frame, LeadOut * Frame)

\* Mutant: the frame that holds the first correctable sample is played too.
PlayableFromPart(offset) == CorrectableBegin(offset) \div Frame

PlayableBegin(offset) == (CorrectableBegin(offset) + Frame - 1) \div Frame
PlayableEnd(offset)   == CorrectableEnd(offset) \div Frame
Playable(offset)      == PlayableBegin(offset) < PlayableEnd(offset)

\* The samples of the disc that corrected frames lba.. lba + frames - 1 are.
FirstSample(lba, offset)        == lba * Frame + offset
LastSample(lba, frames, offset) == FirstSample(lba, offset) + frames * Frame

\* The physical frames FirstLba.. EndLba - 1 hold them.
FirstLba(lba, offset)       == FirstSample(lba, offset) \div Frame
EndLba(lba, frames, offset) == (LastSample(lba, frames, offset) + Frame - 1) \div Frame
=============================================================================
