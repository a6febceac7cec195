SPECIFICATION FairSpec
CONSTANTS
    DayLen = 5
    MaxWait = 2
    Schedules = {1, 3}
    Zones <- ThreeZones
    Offset <- ThreeOffset
    StartZone = "home"
    StartSchedule = 3
    MaxOffset = 4
    MaxClock = 10
    MaxTriggers = 1
    MaxEdits = 1
    MaxCrashes = 1
INVARIANTS TypeOK NoDoubleFire HeldIsRemembered
PROPERTIES DatesAdvance StopStartsNothing SlotServed HeldTriggerServed
CHECK_DEADLOCK FALSE
