SPECIFICATION FairSpec
CONSTANTS
    Length = 3
    BlockFrames = 2
    MaxContexts = 2
    MaxJobs = 2
    MaxSwaps = 1
INVARIANTS
    ResultIsHonest
PROPERTIES
    NoCallAfterStop
    CaptureEnds
CHECK_DEADLOCK FALSE
