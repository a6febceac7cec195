SPECIFICATION FairSpec
CONSTANTS
    a1 = a1
    a2 = a2
    s1 = s1
    s2 = s2
    Null = Null
    Articles <- OneArticle
    Sources <- OneSource
    SourceOf <- LoneSourceOf
    Purgeable <- OneSource
    Shadow = FALSE
    Kinds = {"manual", "reprocess"}
    Bodies = {"full"}
    MaxRuns = 2
    MaxItems = 1
    MaxEdits = 0
    MaxCrashes = 1
PROPERTIES RunsEnd LocksFreed
CHECK_DEADLOCK FALSE
