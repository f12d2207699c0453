\* A session about one file; the timeout is four ticks, the timer of
\* SyncTimeout runs once in a tick.
CONSTANTS
    Files = {"a"}
    NoFile = "-"
    OnDisk <- MCOnDisk
    Listing = 0
    Commands <- MCCommands
    MaxRequests = 3
    MaxAhead = 1
    MaxChunks = 1
    Timeout = 4
    SyncPeriod = 1
    MaxFaults = 1
SPECIFICATION FairSpec
INVARIANTS
    TypeOK
    RepliesMatch
PROPERTIES
    NotCutWhileMoving
    SessionEnds
CHECK_DEADLOCK FALSE
