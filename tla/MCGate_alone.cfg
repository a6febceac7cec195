SPECIFICATION Spec
CONSTANTS
    a1 = a1
    a2 = a2
    s1 = s1
    s2 = s2
    Null = Null
    Articles <- TwoArticles
    Sources <- TwoSources
    SourceOf <- ApartSourceOf
    Purgeable <- OneSource
    Shadow = TRUE
    Kinds = {"scheduled"}
    Bodies = {"full", "hole"}
    MaxRuns = 2
    MaxItems = 2
    MaxEdits = 1
    MaxCrashes = 1
INVARIANTS TypeOK DashboardSettles RowsOfTheirArticle
CHECK_DEADLOCK FALSE
