CONSTANTS
    Sender = {g1}
    NoSender = NoSender
    Linger = TRUE
    NoWait = TRUE
    Closing = TRUE
    BatchSize = 2
    Rpc = {1, 2, 3}
    Attempts = 1
    Self = p1
    Other = {}
    o1 = o1
    Caller <- MCAlone
    Cancellable = {}
    Subscription = {}
    Unsubscribing = {}
    Producer = {p1}
    NoProducer = NoProducer
    MaxSeq = 2
    Buffer = 1
    CatchUpBatch = 1
    MaxOffset = 3
    MaxReclaim = 0
    MaxRestart = 0
    Expiring = {}
SPECIFICATION MCSpec
INVARIANTS
    NoStrandedRecord
PROPERTIES
    EverySendReturns
    EventuallySettled
CHECK_DEADLOCK FALSE
