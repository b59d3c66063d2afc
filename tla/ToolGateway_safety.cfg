SPECIFICATION Spec
CONSTANTS
    w1 = w1
    w2 = w2
    k1 = k1
    k2 = k2
    Workers = {w1, w2}
    NoWorker = NoWorker
    Calls = {k1, k2}
    RiskyCalls = {k2}
    NoCall = NoCall
    OperatorTargets <- AnyTarget
    MaxTries = 2
    MaxDisruptions = 1
SYMMETRY WorkerSymmetry
INVARIANTS ApprovedBeforeEffect OwnersResultIsAccepted ObservedIsDurable ReplayRepeatsNothing
CHECK_DEADLOCK FALSE
