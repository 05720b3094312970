CONSTANTS
    Sender = {g1, g2}
    NoSender = NoSender
    Linger = FALSE
    NoWait = FALSE
    Closing = FALSE
    BatchSize = 1
    Rpc = {1, 2}
    Attempts = 1
    Self = p1
    Other = {}
    o1 = o1
    Caller <- MCAlone
    Cancellable = {}
    Subscription = {}
    Unsubscribing = {}
    Producer = {p1}
    NoProducer = NoProducer
    MaxSeq = 1
    Buffer = 1
    CatchUpBatch = 1
    MaxOffset = 2
    MaxReclaim = 0
    MaxRestart = 0
    Expiring = {}
SPECIFICATION ProducerSpec
INVARIANTS
    AckedIsAppended
CHECK_DEADLOCK FALSE
