CONSTANTS
    Key = {k1, k2}
    NoKey = NoKey
    SegmentRecords = 2
    MaxOffset = 5
    MaxCrash = 1
    Reader = {r1}
SPECIFICATION MCSpec
INVARIANTS
    ReadFromAnywhere
    CompactionKeepsValues
    SyncedOffsetsStay
    CurrentValuesSurvive
    
    
SYMMETRY KeySymmetry
CHECK_DEADLOCK FALSE
