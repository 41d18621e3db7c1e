CONSTANTS
    Member = {a, b}
    NoFile = NoFile
    TwoChunks = {2}
    CompactAt = {2, 4}
    MaxIndex = 4
    MaxTerm = 3
    MaxBatch = 1
    MaxQueue = 2
    MaxFailures = 1
    FaultLoads = {{"Send"}, {"Response"}, {"Delay"}, {"Restart"}, {"Compaction"}, {"Election"}}
SPECIFICATION FairSpec
INVARIANTS
    TypeOK
    CommittedKept
    MatchIndexSound
    MachineIsApplied
    StaysUp
PROPERTIES
    CatchesUp
