---------------------------- MODULE DeviceEpochs ----------------------------
(***************************************************************************)
(* What DeviceLifecycleObserver promises to the threads that use it: the   *)
(* observation generation only grows, and whether it is permitted changes  *)
(* with the generation alone.  The session, the media worker and the PCM   *)
(* reader factory rely on this and on nothing else of the observer.        *)
(***************************************************************************)
EXTENDS Naturals

CONSTANT MaxObservations  \* bound: generations a behaviour may reach

ASSUME EpochBound == MaxObservations \in Nat \ {0}

VARIABLES
    generation,
    permitted   \* permits(generation); no other generation is permitted

epochVars == <<generation, permitted>>

EpochInit == generation = 0 /\ permitted = TRUE

NewEpoch ==
    /\ generation < MaxObservations
    /\ generation' = generation + 1
    /\ permitted' \in BOOLEAN

EpochSpec == EpochInit /\ [][NewEpoch]_epochVars
=============================================================================
