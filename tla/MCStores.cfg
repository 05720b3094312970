CONSTANTS
    Caller = {c1, c2}
    Node = {n1, n2}
    Topic = {"t"}
    TopicCaller = {c1, c2}
    Kinds = {"file", "memory"}
    MaxCreate = 2
    MaxRecord = 2
    MaxHandle = 2
    MaxCrash = 1
    Cancellable = {}
    Subscription = {}
    Unsubscribing = {}
    Producer = {p1, p2}
    NoProducer = NoProducer
    MaxSeq = 2
    Buffer = 1
    CatchUpBatch = 2
    MaxOffset = 3
    MaxReclaim = 1
    MaxRestart = 1
    Expiring = {p2}
SPECIFICATION MCSpec
SYMMETRY MCSymmetry
VIEW MCView
INVARIANTS
    
    SettledSlotsAgree
    
    ReplicasConverge

    
CHECK_DEADLOCK FALSE
