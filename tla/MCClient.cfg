CONSTANTS
    c1 = c1
    c2 = c2
    k1 = k1
    v1 = v1
    v2 = v2
    n1 = n1
    n2 = n2
    NoNode = NoNode
    NoValue = NoValue
    Process = {c1, c2}
    SessionID = {c1, c2}
    Key = {k1}
    Value = {v1, v2}
    Node = {n1, n2}
    Addresses <- Order
    Plans <- Wanted
    Flawed <- Misread
    MaxAttempts = 2
    MaxRepeats = 1
    MaxChanges = 1
    SessionLimit = 2
SPECIFICATION Spec
INVARIANTS
    TypeOK
    CheckSound
    HistoriesAccepted
PROPERTIES
    LoopAdvances
CHECK_DEADLOCK FALSE
