SPECIFICATION Spec
CONSTANTS
    N = 3
    Quorum = 2
    Value = {"x", "y", "gone"}
    Deleted = "gone"
    Restarts = FALSE
    MaxRev = 1
INVARIANTS
    ReadsLatest
CHECK_DEADLOCK FALSE
