CONSTANTS
    n1 = n1
    NoVote = NoVote
    Limits <- Both
SPECIFICATION Spec
CHECK_DEADLOCK FALSE
INVARIANTS
    CommittedSurvives
