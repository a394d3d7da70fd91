SPECIFICATION ApiSpec
CONSTANTS
    Conns = {c1, c2}
    MaxImages = 2
    MaxReserved = 3
    MaxDiagnostics = 1
    MaxNavigation = 1
    Chunks = 2
    MaxFacts = 1
    MaxKeys = 2
INVARIANT ResponsesAreBounded
PROPERTY ClientsAreServed
CHECK_DEADLOCK FALSE
