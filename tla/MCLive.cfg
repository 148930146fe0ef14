SPECIFICATION MCSpec
CONSTANTS
    N = 3
    Key = {"a", "b"}
    KeyOf <- Keys3
    Deadlined = {1}
    Cancellable = {3}
    MaxBatch = 2
    MaxQueue = 2
    MaxEvent = 3
    Room = 2
    Waiter = {"w"}
    Lookup = {"c1", "c2", "c3"}
    Query = {"q1", "q2"}
    QueryOf <- Queried
    Pinning = {"c1"}
    MaxEntries = 1
    MaxRev = 1
INVARIANTS
    TypesOK
    RequestsAreAccounted
    DrainedIsDelivered
PROPERTIES
    EveryRequestAnswered
    CloseEndsWorker
    EveryoneIsServed
CHECK_DEADLOCK FALSE
