----------------------------- MODULE MCLegoMount -----------------------------
(***************************************************************************)
(* A mount with eight degrees of azimuth and four of elevation, of one     *)
(* count each; its touch sensor is wider than the range around a target.   *)
(***************************************************************************)
EXTENDS LegoMount

MCStart == [el |-> 3, az |-> 5]
MCReach == [el |-> -4..0, az |-> -3..12]

Position(elevation, azimuth) == [el |-> elevation, az |-> azimuth]

\* The last degree is not Clear: the mount turns on to the switch on its way there.
MCGoals == {Position(6, 9), Position(-1, 7)}
MCGarbage == {6}
=============================================================================
