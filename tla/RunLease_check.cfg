SPECIFICATION FairSpec
CONSTANTS
    w1 = w1
    w2 = w2
    r1 = r1
    id1 = id1
    Runs = {r1}
    Workers = {w1, w2}
    WorkerIds = {id1}
    WorkerId <- SharedId
    FragileWorkers <- SecondSlot
    Tokens = {t1, t2, t3}
    NoToken = NoToken
    NoWorker = NoWorker
    NoRun = NoRun
    MaxCheckpoints = 2
    MaxDisruptions = 1
INVARIANTS ExclusiveOwner CursorMeetsOwner CommitMatchesStream
PROPERTIES RefinesRunOutcome QueueDrains
