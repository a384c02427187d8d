SPECIFICATION FairSpec
CONSTANTS
    often = often
    seldom = seldom
    Job = {often, seldom}
    Due <- Cadence
    Grain = 3
    Created = 0
    StartDelay = 1
    MaxDelay = 1
    MaxTime = 10
    MaxRunners = 1
    MaxControls = 2
INVARIANTS TypeOK NoSecondTwice NoSecondSkipped OffStaysOff
PROPERTIES DueIsExecuted
CHECK_DEADLOCK FALSE
