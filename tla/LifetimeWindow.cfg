SPECIFICATION Spec
CONSTANTS
    Minute = 3
    Hour = 2
    Day = 2
    DayOfMonth <- SmallCalendar
    Zone = 6
    MaxBackfillScans = 2
    Key = {"schedule", "index", "runs"}
    Schedules <- EveryMinute
    Hosts = {6}
    MaxBackfillRuns = 2
    MaxTime = 10
    MaxBoots = 2
    MaxEvents = 0
INVARIANTS WindowKept
CHECK_DEADLOCK FALSE
