SPECIFICATION Spec
CONSTANTS
    Runs = {r1, r2}
    NoRun = NoRun
    PrecardRuns = {r1}
    Requests = {q1, q2}
    MaxCalls = 4
    MaxRestarts = 1
    Jobs = {1, 2, 3}
    NoJob = 0
    MaxJobCalls = 3
    a = a
    b = b
    Sample <- MCSample
    Base = c
    Width = 1
    Names = {}
    Stubs = {a}
    NoDefs = {}
    Propers = {c}
    Vetoed = {b}
    Selections <- MCSelections
    MaxAttempts = 3
    Rekeys <- MCRekeys
    Cost <- MCCost
    Budget = 5
SYMMETRY Symmetry
CHECK_DEADLOCK FALSE
INVARIANTS
    TypeOK
    DoneIsTruth
    OwnChildOnly
    OneScreening
    
    UnsavedIsOneBatch
    
    RowsComplete
    DoneHasOutput
PROPERTIES
    
    OnlyLeftoversMisjudge
