\* A trusting center, a client of its own name, a cut and a restart.
CONSTANTS
    Clients <- Ann
    Names = {"A", "B"}
    NameOf <- MCNameOf
    BadVersion = {}
    Links <- NoLinks
    Msgs = {1, 2}
    Sender <- MCSender
    To <- ToBob
    Everyone = ""
    NoTask = NoTask
    TrustMode = TRUE
    QueueLen = 2
    MaxLife = 1
    MaxConn <- SixEach
    MaxCuts = 1
    MaxRestarts = 1
SPECIFICATION FairSpec
PROPERTIES
    EventuallyServed
    TasksEnd
CHECK_DEADLOCK FALSE
