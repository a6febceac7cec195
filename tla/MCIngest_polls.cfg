SPECIFICATION Spec
CONSTANTS
    Entries <- Dated
    FeedOf <- DatedFeedOf
    Pub <- DatedPub
    Upcoming = {"e0"}
    Feeds <- TwoFeeds
    Initial <- OneRow
    Creatable = {"f1", "f2"}
    Purgeable = {"f1"}
    FirstRunItemLimit = 1
    DailyItemCap = 1
    DayLen = 2
    MaxClock = 4
    MaxRuns = 2
    MaxEdits = 2
    MaxCrashes = 1
INVARIANTS TypeOK CapPerDay StoredOnce NothingOlder ValidatorCovers CatalogueStaysOut
    ItemsOfTheirFeed
CHECK_DEADLOCK FALSE
