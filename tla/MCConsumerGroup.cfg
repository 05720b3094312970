CONSTANTS
    Member = {1, 2}
    Topic = {"orders"}
    Call = {1, 2}
    Strategy = "roundrobin"
    SessionTimeout = 0
    MaxPartitions = 2
    MaxGeneration = 4
    MaxEpoch = 2
    Offset = {7}
    MaxChurn = 4
SPECIFICATION GroupSpec
INVARIANTS
    SameGenerationDisjoint
    QuietMemberIsCurrent
CHECK_DEADLOCK FALSE
