SPECIFICATION Spec
CONSTANTS
    Candidate = {"a", "b"}
    MaxTerm = 2
    MaxIndex = 2
    MaxWal = 4
INVARIANTS
    OneVotePerTerm
CHECK_DEADLOCK FALSE
