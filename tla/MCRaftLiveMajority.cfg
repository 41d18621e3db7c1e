CONSTANTS
    n1 = n1
    n2 = n2
    n3 = n3
    a = a
    Node = {n1, n2, n3}
    NoNode = NoNode
    Command = {a}
    NoOp = NoOp
    MaxBatch = 1
    ElectionTerms <- N1N2
    Links <- AllLinks
    FailingPeers = {}
    MaxLogLen = 3
    MaxRequestID = 4
    MaxHeartbeats = 1
    MaxReads = 0
    MaxRestarts = 0
    Redelivered = {"PreVoteRequest"}
SPECIFICATION LiveMajoritySpec
PROPERTIES
    LiveMajorityElects
