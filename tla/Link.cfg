CONSTANTS
    MaxMsgs = 2
    Bare <- MCBare
    MaxRetries = 2
    Capacity = 2
    Timeout = 2
    MaxFaults = 1
SPECIFICATION FairSpec
INVARIANTS
    TypeOK
    Intact
PROPERTIES
    NoFalseTimeout
    GoneIsNoticed
    QueueDrains
    Channel
CHECK_DEADLOCK FALSE
