CONSTANTS
    Sender = {g1}
    NoSender = NoSender
    Linger = FALSE
    NoWait = FALSE
    Closing = FALSE
    BatchSize = 1
    Rpc = {1, 2}
    Attempts = 2
    Self = p1
    Other = {o1}
    o1 = o1
    Caller <- MCWithOther
    Cancellable = {}
    Subscription = {}
    Unsubscribing = {}
    Producer = {p1}
    NoProducer = NoProducer
    MaxSeq = 1
    Buffer = 1
    CatchUpBatch = 1
    MaxOffset = 4
    MaxReclaim = 0
    MaxRestart = 1
    Expiring = {}
    Goroutine = {t1, t2}
    Heart = {"h"}
    Node = {n1, n2}
    Tries = 2
    MaxConn = 2
    MaxElection = 1
    MaxBreak = 1
SPECIFICATION MCSpec
SYMMETRY MCSymmetry
VIEW MCView
INVARIANTS
    AckedOnceAtOffset
    CommitAllLosesNothing
    AnswersMatchCalls
    ClosedLeavesNothing
    BatchLeavesAPrefix
    QuotaIsKept
CHECK_DEADLOCK FALSE
