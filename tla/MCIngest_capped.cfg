SPECIFICATION Spec
CONSTANTS
    Entries <- Dated
    FeedOf <- DatedFeedOf
    Pub <- DatedPub
    Upcoming = {}
    Feeds <- OneFeed
    Initial <- OneRow
    Creatable = {}
    Purgeable = {}
    FirstRunItemLimit = 2
    DailyItemCap = 1
    DayLen = 2
    MaxClock = 4
    MaxRuns = 2
    MaxEdits = 0
    MaxCrashes = 0
INVARIANT CappedStaysOut
CHECK_DEADLOCK FALSE
