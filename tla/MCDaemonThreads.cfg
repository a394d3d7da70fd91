SPECIFICATION ThreadsSpec
CONSTANTS
    d1 = d1
    d2 = d2
    a1 = a1
    a2 = a2
    i1 = i1
    i2 = i2
    i3 = i3
    i4 = i4
    NoArtist = NoArtist
    Discs = {d1, d2}
    ArtistsOf <- MCArtistsOf
    ImagesOf <- MCImagesOf
    Contents = {1, 2, 3}
    MaxImages = 2
    MaxTried = 4
    AggregateLimit = 4
    MaxGeneration = 3
    DiagnosticContexts = {t1, t2}
    NoContext = t0
    MaxRevision = 3
    MaxFailures = 2
    Paths = {p1, p2}
    MaxRoutings = 2
    MaxPlugs = 2
    Capacity = 2
    MaxRecords = 5
INVARIANTS
    EnrichmentIsOfDisc
    DiagnosticsAreCurrent
    LogIsAccounted
    ActiveIsRouted
PROPERTIES
    ChoiceLasts
    LookupsEnd
    DiagnosticsArrive
    LogDrains
    Registers
CHECK_DEADLOCK FALSE
