CONSTANTS
    Reader = {r1}
    ReadAhead = 2
    MaxOffset = 7
    MaxOpen = 1
SPECIFICATION RestartSpec
INVARIANTS
    FileHoldsLog
