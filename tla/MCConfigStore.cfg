SPECIFICATION Spec
CONSTANTS
    DefaultId = 1
    ConfigVersion = 2
    Ids = {1, 2}
    Counters = {0, 1}
    Intervals = {0, 15}
    Versions = {0, 1, 2}
INVARIANTS
    TypeOK
    ZeroNeverStored
    CommitSurvives
PROPERTY
    LoadReturnsCommit
