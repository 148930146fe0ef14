SPECIFICATION MCSpec
CONSTANTS
    Pod = {"d1", "d2"}
    Request = {"q1", "q2", "q3"}
    Donors <- DonorsOf
    Segments <- SegmentsOf
    Capacity <- OneEach
    MaxLog = 4
    N = 3
    MaxParallel = 3
    Call = {"c1", "c2"}
    RequestId = {"r1"}
    IdOf <- IdsUsedTwice
    MaxRetries = 1
    Endpoint = {"a", "b"}
    Budgets <- Hops
    Deadlines <- Seconds
    MaxTime = 2
    Lookup = {"c1", "c2"}
    Query = {"q1"}
    QueryOf <- Queried
    Pinning = {"c1"}
    MaxEntries = 1
    MaxRev = 2
    Devices <- TwoGpus
    PlaceBudget <- Budget
    Handler <- Handlers
    Resident <- Residents
    Generation = {"g1", "g2"}
    Executor = {"x1", "x2"}
    Amount <- OneOrTwo
    Preferred <- RamOrVram
    Replicas = 2
    MaxAttempts = 2
    Chat = {"c1", "c2", "c3"}
    Cycle = {"c1", "c2"}
    Quota = 1
    Window = 1
    Horizon = 3
INVARIANTS
    TypesOK
    ReservedWithConsent
    BusyCanBeReleased
    BudgetIsKept
    EnoughWorkersNeverStall
    TransportIsHonest
    ReplicasTakeTurns
    CacheIsSound
    WorkIsCounted
    HopsAreBounded
    PresenceEndsOffline
PROPERTIES
    RestoreIsExact
CHECK_DEADLOCK FALSE
