SPECIFICATION Spec
CONSTANTS
    N = 3
    MaxParallel = 2
INVARIANTS
    NeverStalls
CHECK_DEADLOCK FALSE
