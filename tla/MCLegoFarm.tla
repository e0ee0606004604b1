------------------------------ MODULE MCLegoFarm ------------------------------
\* Three vehicles on a floor of three by three cells, no two of their cells the
\* same; the first starts in a corner, on an edge or in the middle.
EXTENDS LegoFarm, TLC

Position(s, d) == [start |-> s, dest |-> d]

MCTables ==
    {t \in [Robots -> [start : Cells, dest : Cells]] :
        /\ t[1] \in {Position(<<1, 1>>, <<0, 2>>), Position(<<0, 0>>, <<2, 1>>)}
        /\ t[3].start = <<1, 2>> /\ t[3].dest \in {<<1, 0>>, <<0, 1>>}
        /\ AllApart(t)}

\* What the theorems about the farm take for granted.
ASSUME TheoremsApply == ApartTables /\ RoadsFit
=============================================================================
