SPECIFICATION FairSpec
CONSTANTS
    k1 = k1
    a1 = a1
    a2 = a2
    a3 = a3
    None = None
    Callers = {p1, p2}
    Artifacts = {k1}
    Attachments = {a1, a2, a3}
    Content <- SharedContent
    MaxStaged = 1
    Ttl = 1
    MaxTime = 1
    MaxTurns = 1
    MaxDisruptions = 1
INVARIANTS AvailableIsStored StagedBounded
PROPERTIES OneFate UploadsSettle
CHECK_DEADLOCK FALSE
