SPECIFICATION Spec
CONSTANTS
    Minute = 3
    Hour = 2
    Day = 2
    DayOfMonth <- SmallCalendar
    Zone = 6
    MaxBackfillScans = 2
    Key = {"schedule", "index", "runs"}
    Schedules <- SomeSchedules
    Hosts = {0, 6}
    MaxBackfillRuns = 2
    MaxTime = 10
    MaxBoots = 3
    MaxEvents = 2
INVARIANTS TypeOK CaughtUp NothingOutOfSchedule
 
CHECK_DEADLOCK FALSE
