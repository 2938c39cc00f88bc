CONSTANTS
    MaxLink = 2
    MaxTag = 3
    Texts = {"x", "y"}
    Raw = {"A", "b", "freshrss", " "}
    Names = {"a", "b", "freshrss"}
    Norm <- Lower
    Blank = ""
    Removed = "freshrss"
    None = None
    Starts = {s1, s2}
    Old <- Releases
    OldLinks = {1, 2}
    OldTags = {1, 2}
    OldGroups = {1, 2}
    OldNames = {"Py", "py"}
    OldNorm <- OldLower
    MaxKills = 1
SPECIFICATION IndexSpec
INVARIANTS
    IndexTypeOK
    IndexComplete
    StartsMigrate
PROPERTIES
    IndexWrittenExact
    MergeKeepsLinks
    NothingIsLost
    StartsSettle
CHECK_DEADLOCK FALSE
