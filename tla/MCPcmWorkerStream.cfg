CONSTANTS
    LeadOut = 3
    Capacity = 2
    ReadBlocks = {1, 2}
    EventCapacity = 1
    HistoryCapacity = 2
    MaxGeneration = 2
    MaxDisc = 1
    MaxRevision = 2
SPECIFICATION Spec
INVARIANT StreamIsHonest
PROPERTY ImplementsStream
