\* A message for a name that logs in later.
CONSTANTS
    Clients <- AnnBob
    Names = {"A", "B"}
    NameOf <- MCNameOf
    BadVersion = {}
    Links <- NoLinks
    Msgs = {1}
    Sender <- MCSender
    To <- ToBob
    Everyone = ""
    NoTask = NoTask
    TrustMode = TRUE
    QueueLen = 2
    MaxLife = 1
    MaxConn <- OneEach
    MaxCuts = 0
    MaxRestarts = 0
SPECIFICATION Spec
INVARIANTS
    AttachedHasContext
CHECK_DEADLOCK FALSE
