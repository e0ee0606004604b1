SPECIFICATION FairUOSSpec
CONSTANTS
    MaxLoops = 2
    Operators = {o1}
    Clients = {c1}
    Tids = {1, 2}
    MaxPid = 1
    MaxRow = 2
CHECK_DEADLOCK FALSE
INVARIANTS
    
    ReadyHasImages
PROPERTIES
    StopReturns
