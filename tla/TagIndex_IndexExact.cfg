CONSTANTS
    MaxLink = 2
    MaxTag = 3
    Texts = {"x", "y"}
    Raw = {"A", "b", "freshrss", " "}
    Names = {"a", "b", "freshrss"}
    Norm <- Lower
    Blank = ""
    Removed = "freshrss"
    None = None
    Starts = {s1}
    Old <- Releases
    OldLinks = {1, 2}
    OldTags = {1, 2}
    OldGroups = {1, 2}
    OldNames = {"Py", "py"}
    OldNorm <- OldLower
    MaxKills = 0
SPECIFICATION IndexSpec
INVARIANT IndexExact
CHECK_DEADLOCK FALSE
