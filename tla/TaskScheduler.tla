---------------------------- MODULE TaskScheduler ----------------------------
(***************************************************************************)
(* The MARS task scheduler, TaskScheduler.java, its consumer thread,       *)
(* RABQueueConsumer.java, and the robots and the report table it uses      *)
(* (RCBaseImpl.cpp, TRD.java).  Clients append RABs to the queue; the      *)
(* consumer takes them one by one, runs each command of the recipe with a  *)
(* robot that it moves there and parks again, writes a report, and resets  *)
(* the sensor a RAB of the failure detection came from.                    *)
(***************************************************************************)
EXTENDS TwoParallelFIFOs, Integers, FiniteSets

CONSTANTS Robots,        \* the types of the robots that were found, numbers
          Park,          \* where each robot is parked
          Places,        \* the places of the grid, <<x, y>>
          Types,         \* the action types
          Recipe,        \* the commands of each action type
          Sensors, NoSensor,
          Tags,          \* numbers, one for each RAB that is asked for once
          NoTag,         \* for those of an endless supply
          Endless,       \* the RABs the failure detection asks for again and again
          NoRAB, NoRobot,
          Stops,         \* TRUE: the component may be deactivated
          RemoteFaults,  \* TRUE: calls to other components may fail
          StoreFaults    \* TRUE: the tables may be out of reach

\* A command of a recipe: the robot it names and what it is to do.
RobotCommands == [robotId : Nat, actionId : {"primary", "firefight"}]

ASSUME TaskSchedulerAssumption ==
    /\ Robots \subseteq Nat
    /\ Places \subseteq Nat \X Nat
    /\ Park \in [Robots -> Places]
    /\ \A type \in Types : Recipe[type] \in Seq(RobotCommands)
    /\ NoSensor \notin Sensors
    /\ Tags \subseteq Nat
    /\ NoRobot \notin Robots
    /\ {Stops, RemoteFaults, StoreFaults} \subseteq BOOLEAN

RABs == [type : Types, pos : Places, sensor : Sensors \cup {NoSensor},
         tag : Tags \cup {NoTag}]
isAutomatic(rab) == rab.sensor # NoSensor

ASSUME NoRABAssumption == NoRAB \notin RABs
ASSUME EndlessAssumption == Endless \subseteq {r \in RABs : isAutomatic(r)}

VARIABLES unused,     \* the tags that are left
          stopped,    \* the flag of the consumer
          cpc,        \* what the consumer thread is doing
          rab, commands, robot, isSuccessful,  \* the locals of processOne
          position,   \* where each robot says it is
          reports,    \* the rows of the report table
          worked      \* history: what the robots have confirmed for the RAB in hand

work   == <<rab, commands, robot, isSuccessful>>
tsVars == <<fifos, unused, stopped, cpc, work, position, reports, worked>>

Command == Head(commands)
isParked(r) == position[r] = Park[r]

-----------------------------------------------------------------------------
\* runManualRAB() and runAutoRAB(); the interrupt that follows ends a sleep of
\* the consumer, which may end at any time anyway.

runManualRAB(type, pos, tag) ==
    /\ addManual([type |-> type, pos |-> pos, sensor |-> NoSensor, tag |-> tag])
    /\ UNCHANGED <<stopped, cpc, work, position, reports, worked>>

runAutoRAB(type, pos, sensor, tag) ==
    /\ addAutomatic([type |-> type, pos |-> pos, sensor |-> sensor, tag |-> tag])
    /\ UNCHANGED <<stopped, cpc, work, position, reports, worked>>

cleanUp ==
    /\ Stops
    /\ stopped' = TRUE
    /\ UNCHANGED <<fifos, unused, cpc, work, position, reports, worked>>

-----------------------------------------------------------------------------
\* The consumer: run() and processAllInQueue().

\* run() begins; a request to stop that came before is forgotten.
Run ==
    /\ cpc = "created"
    /\ stopped' = FALSE
    /\ cpc' = "sleep"
    /\ UNCHANGED <<fifos, unused, work, position, reports, worked>>

\* Mutant: the flag is only tested before the sleep of a fresh thread.
Wake_Deaf ==
    /\ cpc = "sleep"
    /\ cpc' = "drain"
    /\ UNCHANGED <<fifos, unused, stopped, work, position, reports, worked>>

Wake ==
    /\ cpc = "sleep"
    /\ cpc' = IF stopped THEN "ended" ELSE "drain"
    /\ UNCHANGED <<fifos, unused, stopped, work, position, reports, worked>>

\* Mutant: the consumer ends with the first empty queue.
Drained_Ends ==
    /\ cpc = "drain"
    /\ ~hasElements
    /\ cpc' = "ended"
    /\ UNCHANGED <<fifos, unused, stopped, work, position, reports, worked>>

Drained ==
    /\ cpc = "drain"
    /\ ~hasElements
    /\ cpc' = "sleep"
    /\ UNCHANGED <<fifos, unused, stopped, work, position, reports, worked>>

Take ==
    /\ cpc = "drain"
    /\ hasElements
    /\ getNext(rab')
    /\ cpc' = "recipe"
    /\ UNCHANGED <<unused, stopped, commands, robot, isSuccessful, position,
                   reports, worked>>

-----------------------------------------------------------------------------
\* processOne().

GetRAB ==
    /\ cpc = "recipe"
    /\ commands' = Recipe[rab.type]
    /\ isSuccessful' = TRUE
    /\ worked' = <<>>
    /\ cpc' = "command"
    /\ UNCHANGED <<fifos, unused, stopped, rab, robot, position, reports>>

sq(n) == n * n
Distance(r, pos) == sq(pos[1] - position[r][1]) + sq(pos[2] - position[r][2])

\* The loop of nearestRobotTo keeps the first robot, in the order of their
\* numbers, that no other is nearer than.
nearestRobotTo(pos) ==
    {r \in Robots : \A q \in Robots :
        \/ Distance(r, pos) < Distance(q, pos)
        \/ Distance(r, pos) = Distance(q, pos) /\ r <= q}

\* The robot for the command at hand, none if it is not there.
RobotFor(command) ==
    IF command.actionId = "firefight" THEN nearestRobotTo(rab.pos)
    ELSE {command.robotId} \cap Robots

NextCommand ==
    /\ cpc = "command"
    /\ commands # <<>>
    /\ robot' \in RobotFor(Command)
    /\ cpc' = "move"
    /\ UNCHANGED <<fifos, unused, stopped, rab, commands, isSuccessful, position,
                   reports, worked>>

\* Mutant: the first error of a RAB is only logged.
RobotNotFound_Logged ==
    /\ cpc = "command"
    /\ commands # <<>>
    /\ RobotFor(Command) = {}
    /\ commands' = Tail(commands)
    /\ UNCHANGED <<fifos, unused, stopped, cpc, rab, robot, isSuccessful, position,
                   reports, worked>>

RobotNotFound ==
    /\ cpc = "command"
    /\ commands # <<>>
    /\ RobotFor(Command) = {}
    /\ isSuccessful' = FALSE
    /\ commands' = Tail(commands)
    /\ UNCHANGED <<fifos, unused, stopped, cpc, rab, robot, position, reports, worked>>

Move ==
    /\ cpc = "move"
    /\ position' = [position EXCEPT ![robot] = rab.pos]
    /\ cpc' = "execute"
    /\ UNCHANGED <<fifos, unused, stopped, work, reports, worked>>

ExecuteCommand ==
    /\ cpc = "execute"
    /\ worked' = Append(worked, [robotId |-> robot, actionId |-> Command.actionId,
                                 at |-> position[robot]])
    /\ cpc' = "park"
    /\ UNCHANGED <<fifos, unused, stopped, work, position, reports>>

\* An exception of move() or executeCommand() is noted in the report.  The robot
\* may have moved.
CommandFails ==
    /\ RemoteFaults
    /\ cpc \in {"move", "execute"}
    /\ isSuccessful' = FALSE
    /\ \/ position' = [position EXCEPT ![robot] = rab.pos]
       \/ UNCHANGED position
    /\ cpc' = "park"
    /\ UNCHANGED <<fifos, unused, stopped, rab, commands, robot, reports, worked>>

\* Mutant: the robot is left where it worked.
ParkRobot_Omitted ==
    /\ cpc = "park"
    /\ robot' = NoRobot
    /\ commands' = Tail(commands)
    /\ cpc' = "command"
    /\ UNCHANGED <<fifos, unused, stopped, rab, isSuccessful, position, reports, worked>>

ParkRobot ==
    /\ cpc = "park"
    /\ position' = [position EXCEPT ![robot] = Park[robot]]
    /\ robot' = NoRobot
    /\ commands' = Tail(commands)
    /\ cpc' = "command"
    /\ UNCHANGED <<fifos, unused, stopped, rab, isSuccessful, reports, worked>>

\* createReport() keeps an SQLException to itself.  The RAB goes on to the
\* reset of its sensor with or without a row.
CreateReport ==
    /\ cpc = "command"
    /\ commands = <<>>
    /\ \/ reports' = reports \cup {[rab |-> rab, isSuccessful |-> isSuccessful]}
       \/ StoreFaults /\ UNCHANGED reports
    /\ \/ isAutomatic(rab) /\ cpc' = "reset" /\ UNCHANGED rab
       \/ ~isAutomatic(rab) /\ cpc' = "drain" /\ rab' = NoRAB
    /\ isSuccessful' = TRUE /\ worked' = <<>>
    /\ UNCHANGED <<fifos, unused, stopped, commands, robot, position>>

ResetSensor ==
    /\ cpc = "reset"
    /\ rab' = NoRAB
    /\ cpc' = "drain"
    /\ UNCHANGED <<fifos, unused, stopped, commands, robot, isSuccessful, position,
                   reports, worked>>

\* Calls outside every catch block: getRAB() that answers null, the positions
\* that nearestRobotTo() asks for, park(), createReport() and resetSensor().
\* The exception leaves processOne(), the try of the consumer that only has a
\* finally, and run().
ConsumerDies ==
    /\ \/ StoreFaults /\ cpc = "recipe"
       \/ RemoteFaults /\ cpc \in {"recipe", "park", "reset"}
       \/ RemoteFaults /\ cpc = "command"
          /\ (commands # <<>> => Command.actionId = "firefight")
    /\ cpc' = "dead"
    /\ rab' = NoRAB /\ commands' = <<>> /\ robot' = NoRobot
    /\ UNCHANGED <<fifos, unused, stopped, isSuccessful, position, reports, worked>>

-----------------------------------------------------------------------------
TSInit ==
    /\ FIFOsInit
    /\ unused = Tags
    /\ stopped = FALSE
    /\ cpc = "created"
    /\ rab = NoRAB /\ commands = <<>> /\ robot = NoRobot /\ isSuccessful = TRUE
    /\ position = Park
    /\ reports = {}
    /\ worked = <<>>

Consumer ==
    \/ Run \/ Wake \/ Drained \/ Take
    \/ GetRAB \/ NextCommand \/ RobotNotFound \/ Move \/ ExecuteCommand \/ CommandFails
    \/ ParkRobot \/ CreateReport \/ ResetSensor \/ ConsumerDies

\* The operator's console and the failure detection.
RequestManual(tag) ==
    /\ \A other \in unused : tag <= other
    /\ \E type \in Types, pos \in Places : runManualRAB(type, pos, tag)
    /\ unused' = unused \ {tag}

RequestAuto(tag) ==
    /\ \A other \in unused : tag <= other
    /\ \E type \in Types, pos \in Places, s \in Sensors : runAutoRAB(type, pos, s, tag)
    /\ unused' = unused \ {tag}

\* The failure detection asks for the next RAB of an alarm that does not go away.
\* Bound: one of a kind waits at a time, which does not end the supply.
RequestAgain(r) ==
    /\ \A i \in DOMAIN automaticFIFO : automaticFIFO[i] # r
    /\ runAutoRAB(r.type, r.pos, r.sensor, r.tag)
    /\ UNCHANGED unused

TSNext ==
    \/ \E tag \in unused : RequestManual(tag) \/ RequestAuto(tag)
    \/ \E r \in Endless : RequestAgain(r)
    \/ cleanUp
    \/ Consumer

TSSpec == TSInit /\ [][TSNext]_tsVars

\* The consumer is a thread that runs.
FairTSSpec == TSSpec /\ WF_tsVars(Consumer)

-----------------------------------------------------------------------------
InHand == cpc \in {"recipe", "command", "move", "execute", "park", "reset"}

\* The type invariant; the consumer has a RAB and a robot exactly while it
\* works with them.
TSTypeOK ==
    /\ automaticFIFO \in Seq(RABs)
    /\ manualFIFO \in Seq(RABs)
    /\ unused \subseteq Tags
    /\ {stopped, isSuccessful} \subseteq BOOLEAN
    /\ cpc \in {"created", "sleep", "drain", "recipe", "command", "move", "execute",
                "park", "reset", "ended", "dead"}
    /\ IF InHand THEN rab \in RABs ELSE rab = NoRAB
    /\ commands \in Seq(RobotCommands)
    /\ IF cpc \in {"move", "execute", "park"}
       THEN robot \in Robots /\ commands # <<>> ELSE robot = NoRobot
    /\ position \in [Robots -> Places]
    /\ reports \subseteq [rab : RABs, isSuccessful : BOOLEAN]

\* At most one robot is away from its park position, the one that runs the
\* command at hand, whatever failed before; only the death of the consumer
\* leaves a robot out.
RobotsComeHome ==
    \A r \in Robots : ~isParked(r) =>
        /\ cpc = "dead" \/ (cpc \in {"execute", "park"} /\ r = robot)
        /\ \A q \in Robots : ~isParked(q) => q = r

\* A command of a recipe, done by the robot it names, or by one that no other
\* is parked nearer to the fire than, at the place of the RAB.
NearestParked(r, pos) ==
    \A q \in Robots : sq(pos[1] - Park[r][1]) + sq(pos[2] - Park[r][2])
                        <= sq(pos[1] - Park[q][1]) + sq(pos[2] - Park[q][2])

DoneAsAsked(job, command) ==
    /\ job.actionId = command.actionId
    /\ job.at = rab.pos
    /\ IF command.actionId = "firefight" THEN NearestParked(job.robotId, rab.pos)
       ELSE job.robotId = command.robotId

\* A RAB is about to be reported a success exactly when every command of its
\* recipe was carried out as asked, in order.
ReportTellsTruth ==
    cpc = "command" /\ commands = <<>> =>
        (isSuccessful <=>
            /\ Len(worked) = Len(Recipe[rab.type])
            /\ \A i \in 1..Len(worked) : DoneAsAsked(worked[i], Recipe[rab.type][i]))

WaitsIn(fifo, tag) == \E i \in DOMAIN fifo : fifo[i].tag = tag

\* It is the turn of the RAB, or nobody will ever take it: the component was
\* deactivated first, or the consumer is gone.
Served(tag) == stopped \/ cpc = "dead" \/ (rab # NoRAB /\ rab.tag = tag)

AlarmsCease == <>[](automaticFIFO = <<>>)

\* A RAB of the failure detection gets its turn, however many come after it.  A
\* RAB of the operator gets its turn if the automatic ones cease to come: the
\* automatic list is asked first, always, so an endless supply starves him.
EveryRABHasItsTurn ==
    \A tag \in Tags :
        /\ WaitsIn(automaticFIFO, tag) ~> Served(tag)
        /\ AlarmsCease => (WaitsIn(manualFIFO, tag) ~> Served(tag))

\* A running consumer that is told to stop ends, if the automatic RABs cease to
\* come: the flag is tested only once the queue is empty.
StoppedConsumerEnds ==
    AlarmsCease => ((stopped /\ cpc # "created") ~> cpc \in {"ended", "dead"})

-----------------------------------------------------------------------------
\* The consumer implements the service.
Doable(r) == \A i \in DOMAIN Recipe[r.type] :
                 LET command == Recipe[r.type][i]
                 IN  IF command.actionId = "firefight" THEN Robots # {}
                     ELSE command.robotId \in Robots

Service == INSTANCE RABService WITH
               Manual <- {r \in RABs : ~isAutomatic(r)},
               Auto <- {r \in RABs : isAutomatic(r)},
               auto <- automaticFIFO, manual <- manualFIFO,
               busy <- IF cpc = "reset" THEN NoRAB ELSE rab,
               Faulty <- RemoteFaults \/ StoreFaults

ImplementsRABService == Service!Spec
=============================================================================
