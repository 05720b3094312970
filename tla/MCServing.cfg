CONSTANTS
    Caller = {c1}
    Cancellable = {c1}
    Subscription = {s1, s2}
    Unsubscribing = {s2}
    Producer = {}
    NoProducer = NoProducer
    MaxSeq = 0
    Buffer = 1
    CatchUpBatch = 2
    MaxOffset = 2
    MaxReclaim = 0
    MaxRestart = 0
    Expiring = {}
    Conn = {"c1", "c2"}
    ListenRaces = FALSE
    MaxRequest = 1
SPECIFICATION MCSpec
INVARIANTS
    DeliveredIsTheLog
    StoreOutlivesItsUsers
    MessagesSurvive
PROPERTIES
    EverythingIsDelivered
    
    StickyDivides
CHECK_DEADLOCK FALSE
