SPECIFICATION FairMountSpec
CONSTANTS
    AZIMUTH_MAX = 8
    ELEVATION_MAX = 4
    ENC_RANGE = 2
    Turn = 8
    Circle = 8
    Pressed = 3
    Lead = 1
    Quarter = 4
    Speed = 2
    Start <- MCStart
    Reach <- MCReach
    Garbage <- MCGarbage
    Goals <- MCGoals
    MaxMoves = 2
    LinkFails = TRUE
INVARIANTS MountTypeOK NoWindup
PROPERTIES ComesToRest
