\* A center that refuses a name in use: everybody settles.
CONSTANTS
    Clients <- AnnBobRob
    Names = {"A", "B"}
    NameOf <- MCNameOf
    BadVersion = {}
    Links <- NoLinks
    Msgs = {1}
    Sender <- MCSender
    To <- ToBob
    Everyone = ""
    NoTask = NoTask
    TrustMode = FALSE
    QueueLen = 2
    MaxLife = 1
    MaxConn <- ThreeForBob
    MaxCuts = 1
    MaxRestarts = 0
SPECIFICATION FairSpec
INVARIANTS
    AttachmentMutual
PROPERTIES
    PendingKept
    EventuallySettled
    PendingDrains
CHECK_DEADLOCK FALSE
