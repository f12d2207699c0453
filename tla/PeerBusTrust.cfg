\* A trusting center: a broadcast and a message, and a client it refuses.
CONSTANTS
    Clients <- AnnBobRob
    Names = {"A", "B"}
    NameOf <- MCNameOf
    BadVersion = {"rob"}
    Links <- AnnLinksBob
    Msgs = {1, 2}
    Sender <- MCSender
    To <- BroadcastFirst
    Everyone = ""
    NoTask = NoTask
    TrustMode = TRUE
    QueueLen = 2
    MaxLife = 1
    MaxConn <- TwoButRob
    MaxCuts = 1
    MaxRestarts = 0
SPECIFICATION Spec
INVARIANTS
    TypeOK
    AttachmentMutual
    AtMostOnce
PROPERTIES
    AttachReplacesDead
    PendingKept
CHECK_DEADLOCK FALSE
