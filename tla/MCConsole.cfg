SPECIFICATION ConsoleSpec
CONSTANTS
    t1 = t1
    t2 = t2
    p1 = p1
    p2 = p2
    Tids = {t1, t2}
    Positions = {p1, p2}
    Blank = Blank
    Images <- MCImages
    NoImage = NoImage
    Null = Null
    TargetLists <- ListsMixed
    OutOfLimits = {}
    Rounds = {r1, r2}
    Callers = {c1}
    MaxStores = 1
    MayFail = FALSE
    Stops = TRUE
    AwaitExpires = TRUE
    RemoteFaults = TRUE
    MountFound = TRUE
    DBReleased = FALSE
SYMMETRY RoundSymmetry
INVARIANTS
    ConsoleTypeOK
    HandsOffDuringRounds
    ImageShowsItsTarget
