SPECIFICATION Spec
CONSTANTS
    Branch = {"main"}
    Main = "main"
    ItemKey = {"k"}
    Search = {"s","t"}
    MaxRev = 2
INVARIANTS
    HitsAreAuthorized
CHECK_DEADLOCK FALSE
