CONSTANTS
    j1 = j1
    main = main
    dashboard = dashboard
    Job = {j1}
    Cron = {j1}
    Caller = {main}
    Due <- OneJobEveryStep
    MaxBackfillRuns = 2
    MaxBackfillScans = 1
    MaxTime = 3
    MaxInFlight = 2
    Env = {"crash", "early", "clear", "pause", "fail", "store", "read"}
SPECIFICATION FairSpec
INVARIANTS
    TypeOK
    NoSettledRunRepeated
    BackfillInOrder
PROPERTIES
    BackfillEnds
CHECK_DEADLOCK FALSE
