CONSTANTS
    LeadOut = 2
    Capacity = 1
    ReadBlocks = {1}
    EventCapacity = 1
    HistoryCapacity = 1
    MaxGeneration = 2
    MaxDisc = 2
    MaxRevision = 2
SPECIFICATION FairSpec
INVARIANTS
    ReleaseIsReal
    MapIsHonest
PROPERTIES
    WorkerSettles
