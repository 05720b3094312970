CONSTANTS
    Member = {1, 2}
    Topic = {"orders"}
    Call = {c1}
    Strategy = "range"
    SessionTimeout = 0
    MaxPartitions = 3
    MaxGeneration = 2
    MaxEpoch = 2
    Offset = {7}
SPECIFICATION Spec
INVARIANTS
    ExclusiveOwnership
    FullCoverage
    NoLostWakeup
PROPERTIES
    NoGrantWithoutGeneration
