SPECIFICATION ServicesSpec
CONSTANTS
    PlainWorks = {}
    MaxJobs = 3
    MaxContexts = 3
    Signatures = {s1, s2}
    MaxObservations = 6
    MaxTotal = 2
    MaxAccidents = 1
    Policies = {single, repeat}
    StartupPolicy = single
INVARIANTS
    AssessmentIsTracked
    EvidenceInScope
    CacheIsTransparent
    SettingsAreHonest
PROPERTIES
    AssessmentEnds
    EpochsAreKept
    ImplementsRequests
    CacheLookupsEnd
CHECK_DEADLOCK FALSE
