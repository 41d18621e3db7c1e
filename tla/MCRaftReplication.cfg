CONSTANTS
    n1 = n1
    n2 = n2
    n3 = n3
    a = a
    Node = {n1, n2, n3}
    NoNode = NoNode
    Command = {a}
    NoOp = NoOp
    MaxBatch = 1
    ElectionTerms <- N3InTerm5
    Links <- AllLinks
    FailingPeers = {n3}
    MaxLogLen = 3
    MaxRequestID = 4
    MaxHeartbeats = 2
    MaxReads = 0
    MaxRestarts = 1
    Redelivered = {}
SPECIFICATION ReplicationSpec
INVARIANTS
    TypeOK
    LogMatching
    MatchIndexSound
    CommittedOnQuorum
PROPERTIES
    ImplementsReplicatedLog
