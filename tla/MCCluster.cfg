SPECIFICATION MCSpec
CONSTANTS
    east = east
    west = west
    Client = {"a", "b", "c"}
    Name <- Names
    NoHolder = ""
    LeaseLen = 2
    MaxTime = 7
    MaxFence = 4
    Node <- Nodes
    Zones <- TwoZones
    Loads <- OneLoaded
    Region <- Regions
    MaxEpoch = 3
    N = 3
    Quorum = 2
    Value = {"x", "gone"}
    Deleted = "gone"
    Restarts = TRUE
    MaxRev = 2
    Candidate = {"a", "b"}
    MaxTerm = 2
    MaxIndex = 2
    MaxWal = 4
    Keep = 2
    MaxRevision = 4
    MaxCrash = 2
    Proposal = {"p", "q"}
    MaxFrame = 2
    MaxRetries = 1
    MaxBreak = 1
SYMMETRY RegionsAreAlike
INVARIANTS
    TypesOK
    OneClientValidates
    PlacementsAreSound
    ReconcileHeals
    AckedOnQuorum
    QuorumReadIsRecent
    PromisesSurvive
    SnapshotsAndLogSurvive
    FramesArriveOnce
PROPERTIES
    FencedForGood
    PlacementsAreKept
CHECK_DEADLOCK FALSE
