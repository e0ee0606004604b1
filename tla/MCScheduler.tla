----------------------------- MODULE MCScheduler -----------------------------
\* Small instances of the scheduler.  The target lists differ per run.
EXTENDS Scheduler, TLC

CONSTANTS t1, t2, p1, p2

One == <<[tid |-> t1, pos |-> p1]>>
Two == <<[tid |-> t1, pos |-> p2], [tid |-> t2, pos |-> p1]>>

MCImages   == Positions \cup {Blank}
ListsOne   == {One}
ListsMixed == {One, Two}

RoundSymmetry  == Permutations(Rounds)
ThreadSymmetry == Permutations(Rounds) \cup Permutations(Callers)
=============================================================================
