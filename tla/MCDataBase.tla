----------------------------- MODULE MCDataBase -----------------------------
\* A small instance of the database: two kinds of proposal, an empty one and one
\* that uses a target identifier twice.
EXTENDS DataBase, TLC

CONSTANTS t1, t2, p1, p2

MCTargetLists == {<<>>, <<[tid |-> t1, pos |-> p1], [tid |-> t1, pos |-> p2]>>}

ImageSymmetry == Permutations(Images)
=============================================================================
