CONSTANTS
    None = None
    Ids = {l1, l2}
    Runs = {r1, r2}
    Concurrency = 1
    MaxLink = 1
    Urls = {u1, u2}
    MaxTasks = 2
    Typed = Typed
SPECIFICATION WorkSpec
INVARIANTS
    OneRunAtATime
    ProgressIsExact
    PendingIsServed
PROPERTIES
    CheckEnds
    TasksOnlyFill
    EveryArchiveAnswered
CHECK_DEADLOCK FALSE
