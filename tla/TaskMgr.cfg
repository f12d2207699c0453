\* Three tasks in a table of three slots, passes nested twice.
CONSTANTS
    Size = 3
    MaxId = 4
    MaxNested = 2
SPECIFICATION Spec
INVARIANTS
    IndexSorted
    RunningTaskIntact
    NoDanglingParent
