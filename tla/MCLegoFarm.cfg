SPECIFICATION FairFarmSpec
CONSTANTS
    Size = 3
    MaxRoad = 36
    NRobots = 3
    Tables <- MCTables
    MaxBroken = 1
CHECK_DEADLOCK FALSE
INVARIANTS
    FarmTypeOK
    ArrivesThere
    NoCollision
    GivesUpOnlyWalledIn
    ShortestRoad
PROPERTIES
    RunsEnd
