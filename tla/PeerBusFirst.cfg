\* A sending queue that is full before the client is connected.
CONSTANTS
    Clients <- Ann
    Names = {"A", "B"}
    NameOf <- MCNameOf
    BadVersion = {}
    Links <- NoLinks
    Msgs = {1}
    Sender <- MCSender
    To <- ToBob
    Everyone = ""
    NoTask = NoTask
    TrustMode = TRUE
    QueueLen = 1
    MaxLife = 1
    MaxConn <- OneEach
    MaxCuts = 0
    MaxRestarts = 0
SPECIFICATION Spec
INVARIANTS
    NameToldFirst
CHECK_DEADLOCK FALSE
