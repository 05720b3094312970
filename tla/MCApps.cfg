CONSTANTS
    Caller = {c1, c2}
    SourceName = {"s"}
    SinkName = {"k"}
    MaxRun = 2
    MaxScope = 2
    MaxMount = 1
    Worker = {w1, w2}
    BatchMax = 2
    MaxItem = 2
    MaxOut = 3
    MaxTask = 2
    MaxOpen = 2
SPECIFICATION MCSpec
SYMMETRY MCSymmetry
VIEW MCView
INVARIANTS
    
    NoOrphan
    
    ChainIsComposition
    SharedStateIsExact
    WindowsCountEverything
    JoinsPairEverything
    TablesFollowTheirTopics
CHECK_DEADLOCK FALSE
