SPECIFICATION MCSpec
CONSTANTS
    Put = {"p1", "p2"}
    OptOut = {"p2"}
    Get = {"g1", "g2"}
    Descriptor = {"d", "e"}
    ClusterOf <- OwnCluster
    Register = {"r1", "r2"}
    Attach = {"a1"}
    Resolve = {"s1"}
    MaxCompiled = 2
    Content = {"x"}
    Key = {k1}
    Principal = {"alice"}
    Acls <- PublicAcl
    Windows <- NoLifecycle
    Client = {"c1"}
    MaxNode = 4
    MaxEvent = 3
    MaxTime = 0
    TimedKey = {"k1"}
    TimedPrincipal = {"alice", "bob"}
    TimedAcls <- TwoAcls
    TimedWindows <- LateAndShort
    TimedNode = 3
    TimedEvent = 2
    TimedTime = 1
    Knowledge = {k, l}
    Alias = {"a", "b"}
    Call = {"c1", "c2"}
    Invocation = {"i1"}
    MaxGen = 1
    Branch = {"main", "b"}
    Main = "main"
    ItemKey = {i, j}
    Search = {"s"}
    MaxRev = 2
SYMMETRY KeysAreAlike
INVARIANTS
    TypesOK
    RevocationReachesDescendants
    CommitBarrier
    EvidenceIsCoherent
    LogTellsState
    CommitsAreInTime
    PortsAreSound
    BranchesHold
    TiersAgree
PROPERTIES
    ImplementsBarrier
    LinksAreCurrent
CHECK_DEADLOCK FALSE
