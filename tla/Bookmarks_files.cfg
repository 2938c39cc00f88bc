CONSTANTS
    FolderIds <- SixFolders
    FirstIds <- ThreeFolders
    Urls <- TwoLinks
    Names <- TwoNames
    Texts <- LinkTexts
    MaxEdits = 1
    MaxTags = 6
    None = None
SPECIFICATION BookmarksSpec
INVARIANTS
    ImportRestores
    RoundTripExact
    ReadingIsExact
CHECK_DEADLOCK FALSE
