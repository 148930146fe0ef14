SPECIFICATION MCSpec
CONSTANTS
    N = 3
    Key = {"a", "b"}
    KeyOf <- Keys3
    Deadlined = {2}
    Cancellable = {1}
    MaxBatch = 2
    MaxQueue = 3
    MaxEvent = 3
    Room = 2
    Waiter = {"w"}
    Lookup = {"c1"}
    Query = {"q1"}
    QueryOf <- Queried
    Pinning = {}
    MaxEntries = 1
    MaxRev = 1
INVARIANTS
    WorkerSurvives
CHECK_DEADLOCK FALSE
