SPECIFICATION Spec
CONSTANTS
    Knowledge = {"k"}
    Alias = {"a"}
    Call = {"c1","c2","c3"}
    Invocation = {}
    MaxGen = 1
INVARIANTS
    CasLosesNoUpdate
CHECK_DEADLOCK FALSE
