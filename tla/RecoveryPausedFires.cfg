CONSTANTS
    j1 = j1
    main = main
    dashboard = dashboard
    Job = {j1}
    Cron = {j1}
    Caller = {main}
    Due <- OneJobEveryStep
    MaxBackfillRuns = 2
    MaxBackfillScans = 3
    MaxTime = 4
    MaxInFlight = 2
    Env = {"pause"}
SPECIFICATION Spec
PROPERTIES
    PauseStopsFiring
CHECK_DEADLOCK FALSE
