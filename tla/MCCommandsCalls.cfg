CONSTANTS
    c1 = c1
    c2 = c2
    k1 = k1
    v1 = v1
    n1 = n1
    n2 = n2
    NoCall = NoCall
    NoValue = NoValue
    NoKey = NoKey
    Node = {n1, n2}
    Client = {c1, c2}
    Plans <- Wanted
    SessionID = {1, 2, 3}
    Key = {k1}
    Value = {v1}
    SessionLimit = 1
    QueueSize = 2
    MaxTerms = 2
    MaxCalls = 3
SPECIFICATION CallsSpec
INVARIANTS
    TypeOK
    AtMostOnce
    AckedIsTheEffect
    WaitersAwaitTheirCommand
    ReadsSeeAcked
    ActiveCounted
PROPERTIES
    EveryCallEnds
