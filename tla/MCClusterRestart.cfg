CONSTANTS
    Node = {n1, n2}
    Topic = {"t"}
    Retention = {1}
    MaxEntry = 2
    MaxRestart = 1
    MaxSnapshot = 0
    MaxDirect = 0
    MaxSync = 0
SPECIFICATION Spec
INVARIANTS
    ReplicasAgree
CHECK_DEADLOCK FALSE
