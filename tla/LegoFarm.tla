------------------------------- MODULE LegoFarm -------------------------------
(***************************************************************************)
(* The vehicles of the LEGO farm.  A client has the coordinator            *)
(* (CoordinatorImpl.java) instantiate the vehicles, hand them the          *)
(* positions of all, and run one after the other (coordinatorTestClient.   *)
(* py).  A vehicle (NXTImpl.cpp) has its road searched (AStar) and drives  *)
(* it with the motors and light sensors of a brick, over a device          *)
(* (LegoNXTImpl.cpp) and a radio link (lestat) that may fail.              *)
(***************************************************************************)
EXTENDS AStar, FiniteSets

CONSTANTS NRobots,   \* vehicles, 4 in the code
          Tables,    \* the positions a client may hand out
          MaxBroken  \* bound: devices that are missing, not connected or fail

Robots == 1..NRobots   \* by number (legoNumber)

ASSUME FarmAssumption ==
    /\ NRobots \in Nat \ {0} /\ MaxBroken \in Nat
    /\ Tables \subseteq [Robots -> [start : Cells, dest : Cells]]

\* No cell of the table is taken twice.
AllApart(table) ==
    \A r, s \in Robots :
        /\ table[r].start # table[s].dest
        /\ r # s => table[r].start # table[s].start /\ table[r].dest # table[s].dest

VARIABLES positions,  \* the table of the client
          client,     \* <<phase, number of the vehicle>>
          grid,       \* individualGrid of each vehicle
          vpc,        \* where runVehicle() of the running vehicle is
          road, i,    \* its road, and the index of the action at hand
          link,       \* the device of each vehicle: "new", "absent", "none" (not connected), "up", "down"
          lit,        \* the bricks whose light sensors are on
          motion,     \* what the motors of each brick do
          line,       \* the sensors over a line of the floor
          place, heading

farmVars == <<positions, client, grid, vpc, road, i, link, lit, motion, line, place, heading>>
world    == <<lit, motion, line, place, heading>>

Running == client[2]

-----------------------------------------------------------------------------
\* The radio and the commands of the brick (lestat).

Exchanges(r) == link[r] = "up"

setOutputState(r, m) ==
    motion' = IF Exchanges(r) THEN [motion EXCEPT ![r] = m] ELSE motion

setInputMode(r, on) ==
    lit' = IF ~Exchanges(r) THEN lit ELSE IF on THEN lit \cup {r} ELSE lit \ {r}

getOutputState(r) == IF motion[r] = "still" THEN 0 ELSE 32   \* its runState

getInputValues(r) == IF r \in lit THEN line[r] ELSE "low"

\* The device catches the exceptions: the call returns as if it was done.
\* disconnect() closes the socket then, but connectedToLego stays true, and
\* every later call fails in the same way.

connectedToLego(r) == link[r] \in {"up", "down"}

setMotorState(r, m) ==
    IF connectedToLego(r) THEN setOutputState(r, m) ELSE UNCHANGED motion

setSensorState(r, on) ==
    IF connectedToLego(r) THEN setInputMode(r, on) ELSE UNCHANGED lit

\* Without a return statement the caller may get any run state.
getMotorState(r) ==
    IF connectedToLego(r) /\ Exchanges(r) THEN {getOutputState(r)} ELSE {0, 32}

\* -1, less than the brightness of a line, when the brick does not answer.
getSensorState(r) ==
    IF connectedToLego(r) /\ Exchanges(r) THEN getInputValues(r) ELSE "-1"

Broken == {r \in Robots : link[r] \notin {"new", "up"}}

LinkFails(r) ==
    /\ link[r] = "up"
    /\ Cardinality(Broken) < MaxBroken
    /\ link' = [link EXCEPT ![r] = "down"]
    /\ UNCHANGED <<positions, client, grid, vpc, road, i, world>>

-----------------------------------------------------------------------------
\* The floor and the brick: a drive ends at the line ahead, a limited
\* movement (tachoLimit) by itself, beyond the line if it began there.

Ahead(r) ==
    LET c == place[r]
        n == CASE heading[r] = NORTH -> <<c[1] - 1, c[2]>>
               [] heading[r] = SOUTH -> <<c[1] + 1, c[2]>>
               [] heading[r] = EAST  -> <<c[1], c[2] + 1>>
               [] heading[r] = WEST  -> <<c[1], c[2] - 1>>
    IN  IF n \in Cells THEN n ELSE c

Quarter == [right |-> 1, spin |-> 2, left |-> 3]

Turned(from, m) == ((from + Quarter[m] - 1) % 4) + 1

SensesLine(r) ==
    /\ \/ motion[r] = "drive" /\ line[r] = "none" /\ line' \in {[line EXCEPT ![r] = l] : l \in {"left", "right", "both"}}
       \/ motion[r] = "veer" /\ line[r] \in {"left", "right"} /\ line' = [line EXCEPT ![r] = "both"]
    /\ UNCHANGED <<positions, client, grid, vpc, road, i, link, lit, motion, place, heading>>

\* The poll of the sensors is faster than the wheels, unless it is cut off.
RunsOverLine(r) ==
    /\ motion[r] \in {"drive", "veer"} /\ line[r] # "none" /\ ~Exchanges(r)
    /\ line' = [line EXCEPT ![r] = "none"]
    /\ place' = [place EXCEPT ![r] = Ahead(r)]
    /\ UNCHANGED <<positions, client, grid, vpc, road, i, link, lit, motion, heading>>

Creeps(r) ==
    /\ motion[r] = "creep"
    /\ motion' = [motion EXCEPT ![r] = "still"]
    /\ place' = IF line[r] = "both" THEN [place EXCEPT ![r] = Ahead(r)] ELSE place
    /\ line' = [line EXCEPT ![r] = "none"]
    /\ UNCHANGED <<positions, client, grid, vpc, road, i, link, lit, heading>>

Turns(r) ==
    /\ motion[r] \in DOMAIN Quarter
    /\ motion' = [motion EXCEPT ![r] = "still"]
    /\ heading' = [heading EXCEPT ![r] = Turned(heading[r], motion[r])]
    /\ UNCHANGED <<positions, client, grid, vpc, road, i, link, lit, line, place>>

-----------------------------------------------------------------------------
\* The client and the coordinator.

NextOf(phase, after) ==
    IF Running + 1 \in Robots THEN <<phase, Running + 1>> ELSE <<after, 1>>

\* associate() gets a device or none; initialize() of the device connects or
\* only says that it could not.
Instantiate ==
    /\ client[1] = "instantiate"
    /\ \E l \in {"absent", "none", "up"} :
          /\ l # "up" => Cardinality(Broken) < MaxBroken
          /\ link' = [link EXCEPT ![Running] = l]
    /\ client' = NextOf("instantiate", "objective")
    /\ UNCHANGED <<positions, grid, vpc, road, i, world>>

\* The cells of the table are marked one after the other, the last mark stays:
\* who goes earlier has left its start, who goes later is not at its end yet.
MarkOfStart(n, k) == IF n > k THEN Free ELSE IF n = k THEN START ELSE Blocked

\* Mutant: the ends of those who go earlier are taken for free.
MarkOfDest_Swapped(n, k) == IF n > k THEN Free ELSE IF n = k THEN FINISH ELSE Blocked
MarkOfDest(n, k)  == IF n < k THEN Free ELSE IF n = k THEN FINISH ELSE Blocked

Plan(table, n) ==
    [c \in Cells |->
        LET ks == {k \in Robots : c \in {table[k].start, table[k].dest}}
            k  == CHOOSE last \in ks : \A other \in ks : other <= last
        IN  IF ks = {} THEN Free
            ELSE IF c = table[k].dest THEN MarkOfDest(n, k) ELSE MarkOfStart(n, k)]

\* The tables of a client that sends no two vehicles to a cell, nor one where
\* another stands.
ApartTables == \A table \in Tables : AllApart(table)

\* The roads that the search finds for them fit the array of a road.
RoadsFit ==
    \A table \in Tables, n \in Robots :
        LET plan      == Plan(table, n)
            closeList == Search(plan, table[n].start, table[n].dest)
        IN  searchNode(closeList, table[n].dest) # 0 => Len(solveAlgorithm(plan)) <= MaxRoad

SetObjective ==
    /\ client[1] = "objective"
    /\ grid' = [grid EXCEPT ![Running] = Plan(positions, Running)]
    /\ client' = NextOf("objective", "run")
    /\ UNCHANGED <<positions, vpc, road, i, link, world>>

RunVehicle ==
    /\ client[1] = "run"
    /\ vpc = "idle"
    /\ vpc' = "road"
    /\ UNCHANGED <<positions, client, grid, road, i, link, world>>

-----------------------------------------------------------------------------
\* runVehicle(), from one call of the device to the next.

Returns ==
    /\ vpc' = "idle"
    /\ client' = NextOf("run", "done")

GetRoad ==
    /\ vpc = "road"
    /\ Solves(grid[Running])
    /\ road' = solveAlgorithm(grid[Running]) /\ i' = 1
    /\ IF link[Running] = "absent" THEN Returns ELSE vpc' = "light" /\ UNCHANGED client
    /\ UNCHANGED <<positions, grid, link, world>>

\* The exception of the search goes through to the client, which ends.
NoRoad ==
    /\ vpc = "road"
    /\ ~Solves(grid[Running])
    /\ vpc' = "threw"
    /\ UNCHANGED <<positions, client, grid, road, i, link, world>>

\* Mutant: the light is left off.
SensorsOn_Dark ==
    /\ vpc = "light"
    /\ setSensorState(Running, FALSE)
    /\ vpc' = "action"
    /\ UNCHANGED <<positions, client, grid, road, i, link, motion, line, place, heading>>

SensorsOn ==
    /\ vpc = "light"
    /\ setSensorState(Running, TRUE)
    /\ vpc' = "action"
    /\ UNCHANGED <<positions, client, grid, road, i, link, motion, line, place, heading>>

\* The commands to the two motors go out one after the other and are one step
\* here: the vehicle calls nothing else in between, and a link that fails there
\* leaves a motion of one wheel, of a vehicle no property speaks of any more.

Motors(m, from, to) ==
    /\ vpc = from
    /\ setMotorState(Running, m)
    /\ vpc' = to
    /\ UNCHANGED <<positions, client, grid, road, link, lit, line, place, heading>>

At(action) == i <= Len(road) /\ road[i] = action

Forward   == vpc = "action" /\ At(FORWARD) /\ vpc' = "normalize"
             /\ UNCHANGED <<positions, client, grid, road, i, link, world>>
TurnRight == At(TURNRIGHT) /\ Motors("right", "action", "poll") /\ UNCHANGED i
TurnLeft  == At(TURNLEFT)  /\ Motors("left", "action", "poll") /\ UNCHANGED i
Spin      == At(SPIN)      /\ Motors("spin", "action", "poll") /\ UNCHANGED i
LastCreep == i > Len(road) /\ Motors("creep", "action", "poll") /\ UNCHANGED i

\* The normalization of forward() waits for two readings that make sense.
Normalize ==
    /\ vpc = "normalize"
    /\ getSensorState(Running) \notin {"-1", "low"}
    /\ vpc' = IF getSensorState(Running) = "both" THEN "creep" ELSE "drive"
    /\ UNCHANGED <<positions, client, grid, road, i, link, world>>

Drive == Motors("drive", "drive", "look") /\ UNCHANGED i
Veer  == Motors("veer", "veer", "look") /\ UNCHANGED i

\* Mutant: the main loop is left when one sensor sees the line.
Look_OneSide ==
    /\ vpc = "look"
    /\ vpc' = IF getSensorState(Running) = "none" THEN "drive" ELSE "creep"
    /\ UNCHANGED <<positions, client, grid, road, i, link, world>>

\* Straight on, a correction while one sensor is dark, the end with both.
Look ==
    /\ vpc = "look"
    /\ vpc' = CASE getSensorState(Running) = "none"              -> "drive"
                [] getSensorState(Running) \in {"left", "right"} -> "veer"
                [] OTHER                                         -> "creep"
    /\ UNCHANGED <<positions, client, grid, road, i, link, world>>

Creep == Motors("creep", "creep", "poll") /\ UNCHANGED i

\* while(ms.port != 0), the port holds the run state.
Poll ==
    /\ vpc = "poll"
    /\ 0 \in getMotorState(Running)
    /\ vpc' = "off"
    /\ UNCHANGED <<positions, client, grid, road, i, link, world>>

\* Mutant: the end of the road does not end the loop.
MotorsOff_Again == Motors("still", "off", "action") /\ i' = i + 1

MotorsOff ==
    /\ Motors("still", "off", IF i > Len(road) THEN "dark" ELSE "action")
    /\ i' = i + 1

SensorsOff ==
    /\ vpc = "dark"
    /\ setSensorState(Running, FALSE)
    /\ Returns
    /\ UNCHANGED <<positions, grid, road, i, link, motion, line, place, heading>>

-----------------------------------------------------------------------------
FarmInit ==
    /\ positions \in Tables
    /\ client = <<"instantiate", 1>>
    /\ grid = [r \in Robots |-> [c \in Cells |-> Free]]
    /\ vpc = "idle" /\ road = <<>> /\ i = 1
    /\ link = [r \in Robots |-> "new"]
    /\ lit = {}
    /\ motion = [r \in Robots |-> "still"]
    /\ line = [r \in Robots |-> "none"]
    /\ place = [r \in Robots |-> positions[r].start]
    /\ heading = [r \in Robots |-> NORTH]

ClientStep == Instantiate \/ SetObjective \/ RunVehicle

Drives ==
    \/ SensorsOn
    \/ Forward \/ TurnRight \/ TurnLeft \/ Spin \/ LastCreep
    \/ Normalize \/ Drive \/ Look \/ Veer \/ Creep
    \/ Poll \/ MotorsOff \/ SensorsOff

Vehicle == GetRoad \/ NoRoad \/ Drives

Brick(r) == SensesLine(r) \/ RunsOverLine(r) \/ Creeps(r) \/ Turns(r)

FarmNext == ClientStep \/ Vehicle \/ \E r \in Robots : Brick(r) \/ LinkFails(r)

FarmSpec == FarmInit /\ [][FarmNext]_farmVars

\* The client and the vehicle run, the search comes to its end (one of GetRoad
\* and NoRoad is always possible), the bricks move; links need not fail.
FairFarmSpec ==
    /\ FarmSpec
    /\ WF_farmVars(ClientStep) /\ WF_farmVars(Drives) /\ []<>(vpc # "road")
    /\ \A r \in Robots : WF_farmVars(Brick(r))

-----------------------------------------------------------------------------
FarmTypeOK ==
    /\ positions \in Tables
    /\ client \in {"instantiate", "objective", "run", "done"} \X Robots
    /\ grid \in [Robots -> [Cells -> {Blocked, Free, START, FINISH}]]
    /\ vpc \in {"idle", "road", "threw", "light", "action", "normalize", "drive",
                "look", "veer", "creep", "poll", "off", "dark"}
    /\ road \in Seq({FORWARD, TURNRIGHT, TURNLEFT, SPIN}) /\ Len(road) <= MaxRoad
    /\ i \in 1..(Len(road) + 2)
    /\ link \in [Robots -> {"new", "absent", "none", "up", "down"}]
    /\ lit \subseteq Robots
    /\ motion \in [Robots -> {"still", "drive", "veer", "creep", "right", "left", "spin"}]
    /\ line \in [Robots -> {"none", "left", "right", "both"}]
    /\ place \in [Robots -> Cells]
    /\ heading \in [Robots -> Orientations]

Done == {r \in Robots : client[1] = "done" \/ (client[1] = "run" /\ r < Running)}

\* A vehicle whose link holds is at its destination when runVehicle() returns,
\* headed north as the next road assumes, with motors and sensors off: the plan,
\* the search, the turns of the road and the driving agree.
ArrivesThere ==
    \A r \in Done : link[r] = "up" =>
        /\ place[r] = positions[r].dest
        /\ heading[r] = NORTH
        /\ motion[r] = "still" /\ r \notin lit

\* Vehicles that run in the order of their numbers never meet in a cell, as long
\* as all their links hold: each plans around those that have not left their
\* start and those that have arrived (setObjective, NXTImpl.cpp:108-122).
NoCollision ==
    (\A r \in Robots : link[r] = "up") =>
        \A r, s \in Robots : r # s => place[r] # place[s]

\* The search throws only if there is no way, although it gives up cells for
\* good when it closes them.
GivesUpOnlyWalledIn ==
    vpc = "threw" =>
        WalledIn(grid[Running], positions[Running].start, positions[Running].dest)

\* The road takes no more moves than it must, although searchMinF() compares with
\* the first node only (List.java:24-29) and no closed cell is opened again.
ShortestRoad ==
    vpc = "light" =>
        LET moves == Cardinality({k \in DOMAIN road : road[k] = FORWARD})
        IN  positions[Running].dest \notin
                Within(grid[Running], positions[Running].start, moves - 1)

\* runVehicle() comes to its end, or the link has failed under it.
RunsEnd == vpc = "road" ~> (vpc \in {"idle", "threw"} \/ link[Running] # "up")
=============================================================================
