CONSTANTS
    u1 = u1
    u2 = u2
    i1 = i1
    i2 = i2
    p1 = p1
    p2 = p2
    A = A
    B = B
    None = None
    Urls = {u1, u2}
    Items = {i1, i2}
    UrlOf <- OneEach
    Names = {A, B}
    MaxFolderId = 2
    CountCap = 1
    MaxStarred = 2
    Passes = {p1}
SPECIFICATION SceneSpec
PROPERTY ImportsAreTracked
