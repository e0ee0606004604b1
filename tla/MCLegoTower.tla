----------------------------- MODULE MCLegoTower -----------------------------
\* The tower driver with the threads of the first of its files: two that read at
\* the same time, or two that write, one of which also reads and sets timeouts.
EXTENDS LegoTower, TLC

CONSTANTS f1, f2, t1, t2

MCFiles    == {f1, f2}
MCOneFile  == {f1}
MCFileOf   == [t \in Threads |-> f1]
MCReaders  == [t \in Threads |-> {"read", "ioctl"}]
Twins      == Permutations(Threads)

\* Bytes come from one of the devices, as many as overflow its buffer.
MCMaxBytes == [d \in Devs |-> IF d = 1 THEN 4 ELSE 0]
MCOneByte  == [d \in Devs |-> 1]

MCWriters  == [t \in Threads |-> IF t = t1 THEN {"read", "write", "ioctl"} ELSE {"write"}]
MCTimeouts == {-1, 0, 1}
=============================================================================
