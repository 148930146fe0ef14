SPECIFICATION MCSpec
CONSTANTS
    Pod = {"d1", "d2"}
    Request = {"q1", "q2"}
    Donors <- DonorsOf
    Segments <- SegmentsOf
    Capacity <- OneEach
    MaxLog = 4
    N = 1
    MaxParallel = 1
    Call = {"c1", "c2"}
    RequestId = {"r1"}
    IdOf <- IdsUsedTwice
    MaxRetries = 1
    Endpoint = {"a", "b", "c"}
    Budgets <- Hops
    Deadlines <- Seconds
    MaxTime = 2
    Lookup = {"c1", "c2"}
    Query = {"q1"}
    QueryOf <- Queried
    Pinning = {"c1"}
    MaxEntries = 1
    MaxRev = 2
    Devices <- TwoGpus
    PlaceBudget <- Budget
    Handler <- Handlers
    Resident <- Residents
    Generation = {"g1", "g2"}
    Executor = {"x1", "x2"}
    Amount <- OneOrTwo
    Preferred <- RamOrVram
    Replicas = 1
    MaxAttempts = 1
    Chat = {"c1"}
    Cycle = {"c1"}
    Quota = 1
    Window = 1
    Horizon = 1
INVARIANTS
    NoDoubleBooking
CHECK_DEADLOCK FALSE
