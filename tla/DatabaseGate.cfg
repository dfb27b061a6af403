SPECIFICATION FairSpec
CONSTANTS
    handler = handler
    job = job
    w1 = w1
    w2 = w2
    r1 = r1
    f1 = f1
    Handler = handler
    Jobs <- NoTasks
    Workers <- OneWorker
    NoTask = NoTask
    Rows <- OneRow
    Files <- OneFile
    NoFile = NoFile
    MaxTurns = 3
    MaxFaults = 1
INVARIANTS
    GateExclusive
    NothingLost
    ReportsAreTrue
PROPERTIES
    ReplacedIsCopied
    EverybodyEnters
