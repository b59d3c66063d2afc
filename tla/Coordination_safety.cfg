SPECIFICATION Spec
CONSTANTS
    root = root
    c1 = c1
    c2 = c2
    c3 = c3
    Runs = {root, c1, c2}
    Root = root
    NoRun = NoRun
    RootLimit = 2
    Grant = 1
    MaxDepth = 2
    MaxChildren = 2
    MaxParallel = 2
    MaxDisruptions = 2
SYMMETRY ChildSymmetry
INVARIANTS ReservationsMatch CheckpointMatchesTree
PROPERTIES ProceedsWithAllResults CancelReachesAll
CHECK_DEADLOCK FALSE
