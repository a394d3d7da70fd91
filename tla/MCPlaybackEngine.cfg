CONSTANTS
    Starts <- MCStarts
    SeekSteps <- MCSeekSteps
    LeadOut = 3
    RestartThreshold = 1
    Samples = 2
    Capacity = 2
    MaxBlock = 2
    Startup = 1
    ReadBlocks = {1, 2}
    AlsaBuffer = 3
    MaxWrites = 2
    MaxRecoveries = 1
    PrebufferStep = 2
    MaxGeneration = 5
SPECIFICATION FairSpec
CHECK_DEADLOCK FALSE
INVARIANTS
    PositionIsPlayable
    SamplesAreAccounted
    StreamIsOwned
PROPERTIES
    RecoveryIsSeamless
    PlaybackEnds
