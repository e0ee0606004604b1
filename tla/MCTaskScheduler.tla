--------------------------- MODULE MCTaskScheduler ---------------------------
\* A base with two of the four robots of TRD.java; the transporter is missing.
EXTENDS TaskScheduler, TLC

Welding == 0
Debris == 1
Transporter == 3

Cmd(r, a) == [robotId |-> r, actionId |-> a]

MCRobots == {Welding, Debris}
MCPark == Welding :> <<5, 0>> @@ Debris :> <<0, 5>>
MCPlaces == {<<5, 0>>, <<0, 5>>, <<1, 4>>}

MCRecipe ==
    "fire"   :> <<Cmd(Welding, "firefight"), Cmd(Debris, "primary")>> @@
    "piping" :> <<Cmd(Transporter, "primary"), Cmd(Debris, "primary")>>

\* A leak that keeps its sensor in alarm.
MCEndless == [type : {"piping"}, pos : {<<1, 4>>}, sensor : Sensors, tag : {NoTag}]
=============================================================================
