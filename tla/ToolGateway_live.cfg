SPECIFICATION FairSpec
CONSTANTS
    w1 = w1
    w2 = w2
    k1 = k1
    k2 = k2
    Workers = {w1, w2}
    NoWorker = NoWorker
    Calls = {k1, k2}
    RiskyCalls = {k2}
    NoCall = NoCall
    OperatorTargets <- NoApprovalWait
    MaxTries = 1
    MaxDisruptions = 1
PROPERTIES ApprovalWakes
CHECK_DEADLOCK FALSE
