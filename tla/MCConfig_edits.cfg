SPECIFICATION Spec
CONSTANTS
    Clients = {"c1", "c2"}
    Prompts = {"triage", "extract"}
    Texts = {"a", "b"}
    FileText = "a"
    Keys = {"schedule_time"}
    Values = {0, 5}
    Fields = {"threshold", "options"}
    Exported = {"threshold"}
    Counts = {"threshold"}
    Default = 5
    Files <- SomeFiles
    MaxId = 4
    MaxRequests = 3
    MaxFailures = 1
INVARIANTS TypeOK PointersStand
PROPERTIES RestartKeepsPrompts AloneIsExact
CHECK_DEADLOCK FALSE
