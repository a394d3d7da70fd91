SPECIFICATION FairSpec
CONSTANTS
    MaxObservations = 1
    HasOffset = TRUE
    MaxSwaps = 0
PROPERTIES
    EjectEnds
    MediaIsAsPromised
