CONSTANTS
    j1 = j1
    main = main
    dashboard = dashboard
    Job = {j1}
    Cron = {}
    Caller = {main, dashboard}
    Due <- OneJobEveryStep
    MaxBackfillRuns = 1
    MaxBackfillScans = 1
    MaxTime = 4
    MaxInFlight = 2
    Env = {"trigger"}
SPECIFICATION Spec
INVARIANTS
    NoMissedRunLost
    NoSettledRunRepeated
SYMMETRY CallersAlike
CHECK_DEADLOCK FALSE
