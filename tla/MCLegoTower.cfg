SPECIFICATION TowerSpec
CONSTANTS
    f1 = f1
    f2 = f2
    t1 = t1
    t2 = t2
    NDevs = 2
    MAX_DEVICES = 1
    Files <- MCFiles
    Threads = {t1, t2}
    FileOf <- MCFileOf
    CallsOf <- MCReaders
    Timeouts = {1}
    Packet = 1
    MaxBytes <- MCMaxBytes
    MaxCount = 2
SYMMETRY Twins
CHECK_DEADLOCK FALSE
INVARIANTS
    ReadsInOrder
    OneFileEach
PROPERTIES
    FreedOnlyByARefusal
