SPECIFICATION FairSpec
CONSTANTS
    Sources = {"s1", "s2"}
    Dated = {"s1"}
    Tables = {"t1"}
    BackupKeep = 3
    MaxBoots <- OneCli
    MaxFailures = 1
INVARIANTS TypeOK ServesComplete OriginalKept BackfillWhole NewSourceWaits
PROPERTY Recovers
CHECK_DEADLOCK FALSE
