CONSTANTS
    u1 = u1
    u2 = u2
    i1 = i1
    i2 = i2
    p1 = p1
    None = None
    Urls = {u1, u2}
    Items = {i1, i2}
    UrlOf <- OneEach
    Names = {"A"}
    MaxFolderId = 1
    CountCap = 0
    MaxStarred = 2
    Passes = {p1}
SPECIFICATION LiveSpec
PROPERTY SyncSettles
