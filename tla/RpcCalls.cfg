\* Four calls in a map of three, and a restart of the process.
CONSTANTS
    MaxCalls = 4
    Buckets = 2
    Hash <- MCHash
    MapLimit = 3
    Timeout = 1
    Deliveries <- MCDeliveries
    MaxLives = 2
SPECIFICATION FairSpec
INVARIANTS
    TypeOK
    EndsOnce
    OwnAnswer
    SizeCounts
PROPERTIES
    Kept
    EveryCallEnds
CHECK_DEADLOCK FALSE
