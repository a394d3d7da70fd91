CONSTANTS
    LeadOut = 6
    DiscBegin = 1
    Frame = 2
    CoverageCapacity = 2
    MapCapacity = 2
    Offsets <- MCOffsets
    C2Modes = {"off", "asked"}
    Policies = {"single", "repeat"}
    Required = 2
    MaxAttempts = 3
    Overlap = 1
    TransportFrames = 2
    Scratched = {5}
    MaxFrames = 2
    MaxReads <- MCMaxReads
    SeekTo <- MCSeekTo
SPECIFICATION Spec
INVARIANTS
    ReadsStayOnDisc
    AcceptedIsAgreed
    ObservationsAreExact
CHECK_DEADLOCK FALSE
