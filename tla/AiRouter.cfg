SPECIFICATION Spec
CONSTANTS
    t1 = t1
    t2 = t2
    main = main
    spare = spare
    Workers <- TwoWorkers
    Chain <- MainThenSpare
    Capacities <- OneOrTwo
    FirstCapacity = 1
    Edited <- OnlySpare
    Rpm = 1
    Daily = 1
    Threshold = 1
    MaxRequests = 2
    MaxEdits = 1
    MaxFailures = 1
INVARIANTS
    TypeOK
    PermitsReturned
    UsageIsAnswers
    OneAnswerPerRequest
    DailyOvershoot
PROPERTIES
    EveryRequestEnds
CHECK_DEADLOCK FALSE
