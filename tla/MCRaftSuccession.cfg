CONSTANTS
    n1 = n1
    n2 = n2
    n3 = n3
    a = a
    Node = {n1, n2, n3}
    NoNode = NoNode
    Command = {a}
    NoOp = NoOp
    MaxBatch = 1
    ElectionTerms <- Rivalries
    Links <- AllLinks
    FailingPeers = {}
    MaxLogLen = 3
    MaxRequestID = 4
    MaxHeartbeats = 1
    MaxReads = 2
    MaxRestarts = 1
    Redelivered = {"AppendEntries", "VoteRequest", "VoteResponse"}
SPECIFICATION SuccessionSpec
INVARIANTS
    ElectionSafety
    LeaderCompleteness
PROPERTIES
    ImplementsReplicatedLog
    ReadsSeeCommitted
