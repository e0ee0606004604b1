SPECIFICATION SchedulerSpec
CONSTANTS
    t1 = t1
    t2 = t2
    p1 = p1
    p2 = p2
    Tids = {t1, t2}
    Positions = {p1, p2}
    Blank = Blank
    Images <- MCImages
    NoImage = NoImage
    Null = Null
    TargetLists <- ListsMixed
    OutOfLimits = {p2}
    Rounds = {r1, r2}
    Callers = {c1, c2}
    MaxStores = 2
    MayFail = TRUE
    Stops = FALSE
    AwaitExpires = FALSE
    RemoteFaults = TRUE
    MountFound = FALSE
    DBReleased = TRUE
SYMMETRY ThreadSymmetry
INVARIANTS
    OneRoundAtATime
