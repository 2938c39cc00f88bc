CONSTANTS
    MaxId = 4
    MaxOrder = 0
    Names = {"a"}
    Alpha <- OneName
    Links <- SomeLinks
    FolderOf <- TheirFolder
    None = None
SPECIFICATION FoldersSpec
INVARIANTS
    NoFolderLoop
    ParentsExist
    TopDownItemsApplied
    ListIsTheForest
    TotalsAreExact
    ClimbIsExact
    FilterIsExact
CHECK_DEADLOCK FALSE
