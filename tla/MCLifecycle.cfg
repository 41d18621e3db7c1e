CONSTANTS
    A = A
    B = B
    MaxInputs = 2
    ErrorSlots = 3
    Loads <- Mixed
SPECIFICATION FairSpec
INVARIANTS
    TypeOK
    WALOpenWhileUsed
PROPERTIES
    ShutdownCompletes
    OwnersReturn
    SnapshotCallEnds
CHECK_DEADLOCK FALSE
