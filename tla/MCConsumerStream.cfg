CONSTANTS
    Partition = {1}
    Apps = {"stream"}
    FanIn = 2
    PollMax = 2
    MaxEnd = 2
    MaxPump = 1
    MaxRejoin = 0
    MaxSeek = 0
SPECIFICATION Spec
INVARIANTS
    CommittedWasHandled
CHECK_DEADLOCK FALSE
