CONSTANTS
    Member = {a, b}
    NoFile = NoFile
    TwoChunks = {2}
    CompactAt = {2, 4}
    MaxIndex = 4
    MaxTerm = 3
    MaxBatch = 1
    MaxQueue = 2
    MaxFailures = 1
    FaultLoads = {{"Response"}}
SPECIFICATION FairSpec
PROPERTIES
    RetriesProgress
