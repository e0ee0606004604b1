----------------------------- MODULE MCConsole ---------------------------------
\* Small instances of the console.
EXTENDS Console, TLC

CONSTANTS t1, t2, p1, p2

One == <<[tid |-> t1, pos |-> p1]>>
Two == <<[tid |-> t1, pos |-> p2], [tid |-> t2, pos |-> p1]>>

MCImages   == Positions \cup {Blank}
ListsMixed == {One, Two}

RoundSymmetry  == Permutations(Rounds)
=============================================================================
