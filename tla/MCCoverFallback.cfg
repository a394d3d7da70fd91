SPECIFICATION CacheSpec
CONSTANTS
    MaxTotal = 5
    MaxAccidents = 1
INVARIANT StaleEntryRemains
CHECK_DEADLOCK FALSE
