CONSTANTS
    Order <- MCOrder
    Dirs <- MCDirs
    ParentOf <- MCParentOf
    Root = "/"
    Sizes <- MCSizes3
    MaxHandles = 2
    MaxSyncs = 2
    MaxFaults = 1
SPECIFICATION FairSpec
PROPERTIES
    RefusedDeletionEnds
CHECK_DEADLOCK FALSE
