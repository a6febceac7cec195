SPECIFICATION Spec
CONSTANTS
    DayLen = 5
    MaxWait = 2
    Schedules = {1, 3}
    Zones <- ThreeZones
    Offset <- ThreeOffset
    StartZone = "home"
    StartSchedule = 3
    MaxOffset = 4
    MaxClock = 6
    MaxTriggers = 1
    MaxEdits = 0
    MaxCrashes = 0
INVARIANT TriggerRemembered
CHECK_DEADLOCK FALSE
