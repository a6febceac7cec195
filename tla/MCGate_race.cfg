SPECIFICATION Spec
CONSTANTS
    a1 = a1
    a2 = a2
    s1 = s1
    s2 = s2
    Null = Null
    Articles <- TwoArticles
    Sources <- OneSource
    SourceOf <- SameSourceOf
    Purgeable = {}
    Shadow = FALSE
    Kinds = {"scheduled", "reprocess"}
    Bodies = {"full"}
    MaxRuns = 3
    MaxItems = 1
    MaxEdits = 0
    MaxCrashes = 0
INVARIANTS ExtractionFollowsPass CountsDurable PageBacked NormalJudgesOnce LedgerCovers
SYMMETRY Alikes
CHECK_DEADLOCK FALSE
