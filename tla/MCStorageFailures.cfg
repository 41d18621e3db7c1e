CONSTANTS
    n1 = n1
    NoVote = NoVote
    Limits <- Histories
SPECIFICATION Spec
CHECK_DEADLOCK FALSE
INVARIANTS
    TypeOK
    RestartSucceeds
    RecoversAcknowledged
    CallsAccepted
    CommittedSurvives
