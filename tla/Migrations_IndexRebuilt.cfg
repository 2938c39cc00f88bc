CONSTANTS
    Starts = {s1}
    Old <- Releases
    Links = {1, 2}
    TagIds = {1, 2}
    Names = {"Py", "py"}
    Norm <- Lower
    GroupIds = {1, 2}
    MaxKills = 1
    None = None
SPECIFICATION Spec
INVARIANT IndexRebuilt
CHECK_DEADLOCK FALSE
