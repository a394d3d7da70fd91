SPECIFICATION Spec
CONSTANTS
    MaxObservations = 1
    HasOffset = FALSE
    MaxSwaps = 1
INVARIANTS
    DriveIsShared
    DiscIsTracked
PROPERTY AutoplayNeedsInsertion
