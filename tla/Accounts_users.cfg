CONSTANTS
    Subjects = {u1, u2}
    MaxAccount = 3
    MaxVersion = 2
    MaxSpace = 2
    Links = {"seed", "own"}
    Seeds = {"seed"}
    MaxLinks = 1
    None = None
SPECIFICATION UsersSpec
PROPERTIES
    AdminRemains
    RefusedForGood
    OnlyExpiredGo
    ExpiredGo
CHECK_DEADLOCK FALSE
