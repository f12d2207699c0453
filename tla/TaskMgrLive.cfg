\* Three tasks for a table of two slots; a Run() body may enter Schedule() once more.
CONSTANTS
    Size = 2
    MaxId = 4
    MaxNested = 2
SPECIFICATION FairSpec
INVARIANTS
    TypeOK
PROPERTIES
    DeadIsFreed
    RunnableIsRun
