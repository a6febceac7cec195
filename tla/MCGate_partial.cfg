SPECIFICATION Spec
CONSTANTS
    a1 = a1
    a2 = a2
    s1 = s1
    s2 = s2
    Null = Null
    Articles <- OneArticle
    Sources <- OneSource
    SourceOf <- LoneSourceOf
    Purgeable = {}
    Shadow = FALSE
    Kinds = {"manual"}
    Bodies = {"full"}
    MaxRuns = 1
    MaxItems = 1
    MaxEdits = 0
    MaxCrashes = 0
INVARIANT SkippedIsNotStored
CHECK_DEADLOCK FALSE
