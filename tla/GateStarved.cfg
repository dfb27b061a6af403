SPECIFICATION FairSpec
CONSTANTS
    handler = handler
    job = job
    w1 = w1
    w2 = w2
    r1 = r1
    f1 = f1
    Handler = handler
    Jobs <- OneJob
    Workers <- TwoWorkers
    NoTask = NoTask
    Rows <- NoRows
    Files <- OneFile
    NoFile = NoFile
    MaxTurns = 2
    MaxFaults = 0
PROPERTIES
    ExclusiveGranted
