------------------------------- MODULE MCAlarms -------------------------------
\* Two sensors and two robots, a fire and a vacuum loss.
EXTENDS Alarms, TLC

Welding == 0
Debris == 1

Cmd(r, a) == [robotId |-> r, actionId |-> a]

MCRobots == {Welding, Debris}
MCPark == Welding :> <<5, 0>> @@ Debris :> <<0, 5>>
MCPlaces == {<<5, 0>>, <<0, 5>>, <<1, 4>>}
MCRecipe == "fire" :> <<Cmd(Welding, "firefight")>>
         @@ "vacuum" :> <<Cmd(Debris, "primary")>>

MCActionOf == 0 :> "vacuum" @@ 1 :> "fire"
MCPlaceOf == 0 :> <<5, 0>> @@ 1 :> <<1, 4>>
=============================================================================
