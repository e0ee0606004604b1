SPECIFICATION DBSpec
CONSTANTS
    t1 = t1
    t2 = t2
    p1 = p1
    p2 = p2
    Tids = {t1, t2}
    Positions = {p1, p2}
    Images = {img1, img2}
    NoImage = NoImage
    TargetLists <- MCTargetLists
    MaxStores = 3
    MayFail = TRUE
SYMMETRY ImageSymmetry
INVARIANTS
    CounterCoversMap
    PidsNeverReissued
PROPERTIES
    StoredImagesAreFinal
    ImplementsStore
