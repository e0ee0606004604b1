SPECIFICATION FairTowerSpec
CONSTANTS
    f1 = f1
    f2 = f2
    t1 = t1
    t2 = t2
    NDevs = 1
    MAX_DEVICES = 1
    Files <- MCOneFile
    Threads = {t1, t2}
    FileOf <- MCFileOf
    CallsOf <- MCWriters
    Timeouts <- MCTimeouts
    Packet = 1
    MaxBytes <- MCOneByte
    MaxCount = 1
CHECK_DEADLOCK FALSE
INVARIANTS
    TowerTypeOK
PROPERTIES
    CallsReturn
