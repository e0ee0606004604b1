---------------------------- MODULE Alarms_proofs ----------------------------
(***************************************************************************)
(* Theorems about the MARS task scheduler, for any set of robots, recipes  *)
(* and requests, with calls that fail at any step; and about the alarm     *)
(* loop around it, for any set of sensors and any number of trips.         *)
(***************************************************************************)
EXTENDS Alarms, SequenceTheorems, WellFoundedInduction, TLAPS

\* A RAB that a client asks for is one.
LEMMA RequestIsRAB ==
    /\ \A type \in Types, pos \in Places, tag \in Tags \cup {NoTag} :
          [type |-> type, pos |-> pos, sensor |-> NoSensor, tag |-> tag] \in RABs
    /\ \A type \in Types, pos \in Places, s \in Sensors, tag \in Tags \cup {NoTag} :
          [type |-> type, pos |-> pos, sensor |-> s, tag |-> tag] \in RABs
  BY DEF RABs

\* Every robot a command is given is there.
LEMMA RobotIsThere == \A command : RobotFor(command) \subseteq Robots
  BY DEF RobotFor, nearestRobotTo

\* A request only makes a queue longer.
LEMMA RequestStep ==
    ASSUME TSTypeOK, NEW tag \in Tags, RequestManual(tag) \/ RequestAuto(tag)
    PROVE  /\ automaticFIFO' \in Seq(RABs) /\ manualFIFO' \in Seq(RABs)
           /\ unused' \subseteq Tags
           /\ UNCHANGED <<stopped, cpc, work, position, reports, worked>>
<1>1. CASE RequestManual(tag)
  <2>1. PICK type \in Types, pos \in Places : runManualRAB(type, pos, tag)
    BY <1>1 DEF RequestManual
  <2>2. [type |-> type, pos |-> pos, sensor |-> NoSensor, tag |-> tag] \in RABs
    BY RequestIsRAB
  <2>3. QED
    BY <1>1, <2>1, <2>2 DEF RequestManual, runManualRAB, addManual, TSTypeOK
<1>2. CASE RequestAuto(tag)
  <2>1. PICK type \in Types, pos \in Places, s \in Sensors : runAutoRAB(type, pos, s, tag)
    BY <1>2 DEF RequestAuto
  <2>2. [type |-> type, pos |-> pos, sensor |-> s, tag |-> tag] \in RABs
    BY RequestIsRAB
  <2>3. QED
    BY <1>2, <2>1, <2>2 DEF RequestAuto, runAutoRAB, addAutomatic, TSTypeOK
<1>3. QED
  BY <1>1, <1>2

\* So does a request of the endless supply.
LEMMA AgainStep ==
    ASSUME TSTypeOK, NEW r \in Endless, RequestAgain(r)
    PROVE  /\ automaticFIFO' = Append(automaticFIFO, r) /\ r \in RABs /\ isAutomatic(r)
           /\ automaticFIFO' \in Seq(RABs)
           /\ UNCHANGED <<manualFIFO, unused, stopped, cpc, work, position, reports, worked>>
<1>1. r \in RABs /\ isAutomatic(r)
  BY EndlessAssumption
<1>2. r = [type |-> r.type, pos |-> r.pos, sensor |-> r.sensor, tag |-> r.tag]
  BY <1>1 DEF RABs
<1>3. QED
  BY <1>1, <1>2 DEF RequestAgain, runAutoRAB, addAutomatic, TSTypeOK

\* The consumer takes the head of one of the two lists.
LEMMA TakeStep ==
    ASSUME TSTypeOK, Take
    PROVE  /\ automaticFIFO' \in Seq(RABs) /\ manualFIFO' \in Seq(RABs)
           /\ rab' \in RABs
           /\ \/ automaticFIFO # <<>> /\ rab' = Head(automaticFIFO)
                 /\ automaticFIFO' = Tail(automaticFIFO)
              \/ manualFIFO # <<>> /\ rab' = Head(manualFIFO)
                 /\ UNCHANGED automaticFIFO
<1>1. automaticFIFO \in Seq(RABs) /\ manualFIFO \in Seq(RABs)
  BY DEF TSTypeOK
<1>2. CASE automaticFIFO # <<>>
  <2>1. Head(automaticFIFO) \in RABs /\ Tail(automaticFIFO) \in Seq(RABs)
    BY <1>1, <1>2, HeadTailProperties
  <2>2. QED
    BY <1>1, <1>2, <2>1 DEF Take, getNext
<1>3. CASE automaticFIFO = <<>>
  <2>1. manualFIFO # <<>>
    BY <1>3 DEF Take, getNext
  <2>2. Head(manualFIFO) \in RABs /\ Tail(manualFIFO) \in Seq(RABs)
    BY <1>1, <2>1, HeadTailProperties
  <2>3. QED
    BY <1>1, <1>3, <2>1, <2>2 DEF Take, getNext
<1>4. QED
  BY <1>2, <1>3

\* What the consumer does keeps the types.
LEMMA ConsumerKeepsTypes == ASSUME TSTypeOK, Consumer PROVE TSTypeOK'
<1> USE DEF TSTypeOK, InHand, fifos, work
<1>1. CASE Run \/ Wake \/ Drained
  BY <1>1 DEF Run, Wake, Drained
<1>2. CASE Take
  BY <1>2, TakeStep DEF Take
<1>3. CASE GetRAB
  <2>1. Recipe[rab.type] \in Seq(RobotCommands)
    BY <1>3, TaskSchedulerAssumption DEF GetRAB, RABs
  <2>2. QED
    BY <1>3, <2>1 DEF GetRAB
<1>4. CASE NextCommand
  BY <1>4, RobotIsThere DEF NextCommand
<1>5. CASE RobotNotFound
  BY <1>5, HeadTailProperties DEF RobotNotFound
<1>6. CASE Move
  BY <1>6 DEF Move, RABs
<1>7. CASE ExecuteCommand \/ CommandFails
  BY <1>7 DEF ExecuteCommand, CommandFails, RABs
<1>8. CASE ParkRobot
  BY <1>8, HeadTailProperties, TaskSchedulerAssumption DEF ParkRobot
<1>9. CASE CreateReport
  BY <1>9 DEF CreateReport
<1>10. CASE ResetSensor \/ ConsumerDies
  BY <1>10, EmptySeq DEF ResetSensor, ConsumerDies
<1>11. QED
  BY <1>1, <1>2, <1>3, <1>4, <1>5, <1>6, <1>7, <1>8, <1>9, <1>10 DEF Consumer

\* The types are inductive.
LEMMA TSTypeStep == TSTypeOK /\ [TSNext]_tsVars => TSTypeOK'
<1> SUFFICES ASSUME TSTypeOK, [TSNext]_tsVars PROVE TSTypeOK'
  OBVIOUS
<1>1. ASSUME NEW tag \in unused, RequestManual(tag) \/ RequestAuto(tag)
      PROVE  TSTypeOK'
  BY <1>1, RequestStep DEF TSTypeOK, InHand, work
<1>2. CASE cleanUp
  BY <1>2 DEF cleanUp, TSTypeOK, InHand, fifos, work
<1>3. CASE Consumer
  BY <1>3, ConsumerKeepsTypes
<1>4. CASE UNCHANGED tsVars
  BY <1>4 DEF tsVars, fifos, work, TSTypeOK, InHand
<1>5. ASSUME NEW r \in Endless, RequestAgain(r) PROVE TSTypeOK'
  BY <1>5, AgainStep DEF TSTypeOK, InHand, work
<1>6. QED
  BY <1>1, <1>2, <1>3, <1>4, <1>5 DEF TSNext

\* The types are right, and the consumer has a RAB and a robot of the base
\* exactly while it works with them: no call of processOne() is made on a robot
\* that was not found or for a RAB that is done.
THEOREM TSTypeCorrect == TSSpec => []TSTypeOK
<1>1. TSInit => TSTypeOK
  BY EmptySeq, TaskSchedulerAssumption DEF TSInit, FIFOsInit, TSTypeOK, InHand
<1>2. QED
  BY <1>1, TSTypeStep, PTL DEF TSSpec

-----------------------------------------------------------------------------
\* RobotsComeHome is inductive with the types: only Move() sends a robot out,
\* when no other is, and the way to the next command leads through ParkRobot.
LEMMA HomeStep ==
    ASSUME TSTypeOK, RobotsComeHome, [TSNext]_tsVars
    PROVE  RobotsComeHome'
<1> USE DEF RobotsComeHome, isParked
<1>1. CASE Move
  BY <1>1 DEF Move, TSTypeOK, work
<1>2. CASE ParkRobot
  BY <1>2, TaskSchedulerAssumption DEF ParkRobot, TSTypeOK
<1>3. CASE ExecuteCommand \/ CommandFails
  BY <1>3 DEF ExecuteCommand, CommandFails, TSTypeOK, work
<1>4. CASE Run \/ Wake \/ Drained \/ Take \/ GetRAB \/ NextCommand \/ RobotNotFound
  BY <1>4 DEF Run, Wake, Drained, Take, GetRAB, NextCommand, RobotNotFound
<1>5. CASE CreateReport \/ ResetSensor \/ ConsumerDies
  BY <1>5 DEF CreateReport, ResetSensor, ConsumerDies
<1>6. ASSUME NEW tag \in unused, RequestManual(tag) \/ RequestAuto(tag)
      PROVE  RobotsComeHome'
  BY <1>6, RequestStep DEF TSTypeOK, work
<1>7. CASE cleanUp \/ UNCHANGED tsVars
  BY <1>7 DEF cleanUp, tsVars, work
<1>8. ASSUME NEW r \in Endless, RequestAgain(r) PROVE RobotsComeHome'
  BY <1>8, AgainStep DEF work
<1>9. QED
  BY <1>1, <1>2, <1>3, <1>4, <1>5, <1>6, <1>7, <1>8 DEF TSNext, Consumer

\* Whatever calls fail, a robot is only away from its park position while the
\* consumer is about to execute or to park it, and never two at once; only the
\* end of the consumer by an exception leaves one outside.
THEOREM RobotsAlwaysComeHome == TSSpec => []RobotsComeHome
<1>1. TSInit => RobotsComeHome
  BY DEF TSInit, RobotsComeHome, isParked
<1>2. TSTypeOK /\ RobotsComeHome /\ [TSNext]_tsVars => RobotsComeHome'
  BY HomeStep
<1>3. QED
  BY <1>1, <1>2, TSTypeCorrect, PTL DEF TSSpec

-----------------------------------------------------------------------------
\* Squared distances are naturals.
LEMMA SquaresAdd == \A p, q \in Nat \X Nat :
                       sq(p[1] - q[1]) + sq(p[2] - q[2]) \in Nat
<1>1. \A n \in Int : sq(n) \in Nat
  <2> SUFFICES ASSUME NEW n \in Int PROVE n * n \in Nat
    BY DEF sq
  <2>1. CASE n >= 0
    BY <2>1
  <2>2. CASE n < 0
    BY <2>2
  <2>3. QED
    BY <2>1, <2>2
<1>2. TAKE p, q \in Nat \X Nat
<1>3. p[1] - q[1] \in Int /\ p[2] - q[2] \in Int
  OBVIOUS
<1>4. sq(p[1] - q[1]) \in Nat /\ sq(p[2] - q[2]) \in Nat
  BY <1>1, <1>3
<1>5. QED
  BY <1>4

\* While every robot is parked, the nearest one is one that is parked nearest.
LEMMA NearestIsParkedNearest ==
    ASSUME position = Park, NEW pos \in Places, NEW r \in nearestRobotTo(pos)
    PROVE  NearestParked(r, pos)
<1> DEFINE d(q) == sq(pos[1] - Park[q][1]) + sq(pos[2] - Park[q][2])
<1>1. \A q \in Robots : d(q) \in Nat
  <2>1. \A q \in Robots : Park[q] \in Nat \X Nat
    BY TaskSchedulerAssumption
  <2>2. QED
    BY <2>1, SquaresAdd, TaskSchedulerAssumption
<1>2. r \in Robots /\ \A q \in Robots : d(r) < d(q) \/ d(r) = d(q)
  BY DEF nearestRobotTo, Distance
<1> HIDE DEF d
<1>3. \A q \in Robots : d(r) <= d(q)
  BY <1>1, <1>2
<1>4. QED
  BY <1>3 DEF d, NearestParked

\* The history of the RAB in hand.  As long as nothing has failed it holds one
\* job for each command that is done, done as the recipe asks; after the first
\* failure it is shorter than that and stays so.
Jobs == [robotId : Robots, actionId : {"primary", "firefight"}, at : Places]

Working == cpc \in {"command", "move", "execute", "park"}

\* The commands that the consumer is done with, parking included or not.
Done == Len(Recipe[rab.type]) - Len(commands)
Ended == IF cpc = "park" THEN Done + 1 ELSE Done

\* What is left of the recipe is its end.
CommandsAreRest ==
    /\ Done \in Nat
    /\ \A i \in 1..Len(commands) : commands[i] = Recipe[rab.type][Done + i]

\* The robot of the command is one that it asks for, and it is at the place.
RobotIsRight ==
    /\ cpc \in {"move", "execute"} =>
         IF Command.actionId = "firefight" THEN NearestParked(robot, rab.pos)
         ELSE robot = Command.robotId
    /\ cpc = "execute" => position[robot] = rab.pos

JobsTellTruth ==
    /\ worked \in Seq(Jobs)
    /\ IF isSuccessful
       THEN /\ Len(worked) = Ended
            /\ \A i \in 1..Len(worked) : DoneAsAsked(worked[i], Recipe[rab.type][i])
       ELSE Len(worked) < Ended

WorkedOK == Working => CommandsAreRest /\ RobotIsRight /\ JobsTellTruth

\* The command at hand is the one of the recipe that comes next, and without
\* it the rest is still the end of the recipe.
LEMMA CommandInRecipe ==
    ASSUME TSTypeOK, Working, CommandsAreRest, commands # <<>>
    PROVE  /\ Command \in RobotCommands
           /\ Done + 1 \in 1..Len(Recipe[rab.type])
           /\ Command = Recipe[rab.type][Done + 1]
           /\ Len(Tail(commands)) = Len(commands) - 1
           /\ \A i \in 1..Len(Tail(commands)) :
                 Tail(commands)[i] = Recipe[rab.type][Done + 1 + i]
<1>1. commands \in Seq(RobotCommands) /\ Recipe[rab.type] \in Seq(RobotCommands)
  BY TaskSchedulerAssumption DEF TSTypeOK, InHand, Working, RABs
<1>2. Len(commands) \in Nat \ {0} /\ Len(Recipe[rab.type]) \in Nat
  BY <1>1, EmptySeq
<1>3. Command = commands[1] /\ Command \in RobotCommands
  BY <1>1, <1>2, HeadTailProperties DEF Command
<1>4. /\ Len(Tail(commands)) = Len(commands) - 1
      /\ \A i \in 1..Len(Tail(commands)) : Tail(commands)[i] = commands[i + 1]
  BY <1>1, <1>2, HeadTailProperties
<1>5. Done \in Nat /\ Done + 1 \in 1..Len(Recipe[rab.type])
  BY <1>2 DEF CommandsAreRest, Done
<1>6. Command = Recipe[rab.type][Done + 1]
  BY <1>2, <1>3 DEF CommandsAreRest
<1>7. ASSUME NEW i \in 1..Len(Tail(commands))
      PROVE  Tail(commands)[i] = Recipe[rab.type][Done + 1 + i]
  <2>1. i + 1 \in 1..Len(commands)
    BY <1>2, <1>4
  <2>2. commands[i + 1] = Recipe[rab.type][Done + (i + 1)]
    BY <2>1 DEF CommandsAreRest
  <2>3. Done + (i + 1) = Done + 1 + i
    BY <1>5
  <2>4. QED
    BY <1>4, <2>2, <2>3
<1>8. QED
  BY <1>3, <1>4, <1>5, <1>6, <1>7

\* The next command of the RAB in hand begins, with its robot or without one.
LEMMA CommandBegins ==
    ASSUME TSTypeOK, RobotsComeHome, WorkedOK, NextCommand \/ RobotNotFound
    PROVE  WorkedOK'
<1>1. Working /\ cpc = "command" /\ CommandsAreRest /\ JobsTellTruth /\ commands # <<>>
  BY DEF WorkedOK, Working, NextCommand, RobotNotFound
<1>2. rab \in RABs /\ rab.pos \in Places
  BY <1>1 DEF TSTypeOK, InHand, RABs
<1>3. position = Park
  <2>1. \A r \in Robots : position[r] = Park[r]
    BY <1>1 DEF RobotsComeHome, isParked
  <2>2. position \in [Robots -> Places] /\ Park \in [Robots -> Places]
    BY TaskSchedulerAssumption DEF TSTypeOK
  <2>3. QED
    BY <2>1, <2>2
<1>4. CASE NextCommand
  <2>1. CommandsAreRest' /\ JobsTellTruth'
    BY <1>1, <1>4 DEF NextCommand, CommandsAreRest, JobsTellTruth, Done, Ended, DoneAsAsked,
                      NearestParked
  <2>2. RobotIsRight'
    <3>1. CASE Command.actionId = "firefight"
      <4>1. robot' \in nearestRobotTo(rab.pos)
        BY <1>4, <3>1 DEF NextCommand, RobotFor
      <4>2. NearestParked(robot', rab.pos)
        BY <1>2, <1>3, <4>1, NearestIsParkedNearest
      <4>3. QED
        BY <1>4, <3>1, <4>2 DEF NextCommand, RobotIsRight, Command, NearestParked
    <3>2. CASE Command.actionId # "firefight"
      BY <1>4, <3>2 DEF NextCommand, RobotIsRight, RobotFor, Command
    <3>3. QED
      BY <3>1, <3>2
  <2>3. QED
    BY <2>1, <2>2 DEF WorkedOK
<1>5. CASE RobotNotFound
  <2>1. CommandsAreRest' /\ Done' = Done + 1
    <3>1. Len(Recipe[rab.type]) \in Nat /\ Len(commands) \in Nat
      BY TaskSchedulerAssumption, <1>1, <1>2 DEF RABs, TSTypeOK
    <3>2. Done' = Done + 1
      BY <1>1, <1>5, <3>1, CommandInRecipe DEF RobotNotFound, Done
    <3>3. QED
      BY <1>1, <1>5, <3>2, CommandInRecipe DEF RobotNotFound, CommandsAreRest
  <2>2. JobsTellTruth'
    BY <1>1, <1>5, <2>1 DEF RobotNotFound, JobsTellTruth, Ended, CommandsAreRest
  <2>3. RobotIsRight'
    BY <1>1, <1>5 DEF RobotNotFound, RobotIsRight
  <2>4. QED
    BY <2>1, <2>2, <2>3 DEF WorkedOK
<1>6. QED
  BY <1>4, <1>5

\* The command at hand goes on: the robot moves, works, fails, or is parked.
LEMMA CommandGoesOn ==
    ASSUME TSTypeOK, WorkedOK, Move \/ ExecuteCommand \/ CommandFails \/ ParkRobot
    PROVE  WorkedOK'
<1>1. Working /\ CommandsAreRest /\ RobotIsRight /\ JobsTellTruth
  BY DEF WorkedOK, Working, Move, ExecuteCommand, CommandFails, ParkRobot
<1>2. /\ rab \in RABs /\ rab.pos \in Places /\ position \in [Robots -> Places]
      /\ commands \in Seq(RobotCommands) /\ Recipe[rab.type] \in Seq(RobotCommands)
  BY <1>1, TaskSchedulerAssumption DEF TSTypeOK, InHand, Working, RABs
<1>3. robot \in Robots /\ commands # <<>>
  BY DEF TSTypeOK, Move, ExecuteCommand, CommandFails, ParkRobot
<1>4. Done \in Nat /\ worked \in Seq(Jobs) /\ Len(worked) \in Nat
  BY <1>1 DEF CommandsAreRest, JobsTellTruth
<1>5. /\ Command \in RobotCommands
      /\ Command = Recipe[rab.type][Done + 1]
  BY <1>1, <1>3, CommandInRecipe
<1>6. CASE Move
  <2>1. CommandsAreRest' /\ JobsTellTruth'
    BY <1>1, <1>6 DEF Move, work, CommandsAreRest, JobsTellTruth, Done, Ended,
                      DoneAsAsked, NearestParked
  <2>2. RobotIsRight'
    BY <1>1, <1>2, <1>3, <1>6 DEF Move, work, RobotIsRight, Command, NearestParked
  <2>3. QED
    BY <2>1, <2>2 DEF WorkedOK
<1>7. CASE ExecuteCommand
  <2> DEFINE job == [robotId |-> robot, actionId |-> Command.actionId,
                     at |-> position[robot]]
  <2>1. job \in Jobs /\ worked' = Append(worked, job)
    BY <1>2, <1>3, <1>5, <1>7 DEF ExecuteCommand, Jobs, RobotCommands
  <2>2. DoneAsAsked(job, Recipe[rab.type][Done + 1])
    BY <1>1, <1>5, <1>7 DEF ExecuteCommand, RobotIsRight, DoneAsAsked
  <2> HIDE DEF job
  <2>3. worked' \in Seq(Jobs) /\ Len(worked') = Len(worked) + 1
        /\ \A i \in 1..Len(worked') :
              worked'[i] = IF i = Len(worked) + 1 THEN job ELSE worked[i]
    BY <1>4, <2>1, AppendProperties
  <2>4. CommandsAreRest' /\ RobotIsRight' /\ Done' = Done /\ Ended' = Done + 1
    BY <1>1, <1>7 DEF ExecuteCommand, work, CommandsAreRest, RobotIsRight, Done, Ended
  <2>5. JobsTellTruth'
    <3>1. CASE isSuccessful
      <4>1. Len(worked) = Done
        BY <1>1, <1>7, <3>1 DEF ExecuteCommand, JobsTellTruth, Ended
      <4>2. \A i \in 1..Len(worked') : DoneAsAsked(worked'[i], Recipe[rab.type][i])
        <5>1. TAKE i \in 1..Len(worked')
        <5>2. CASE i = Done + 1
          BY <2>2, <2>3, <4>1, <5>2
        <5>3. CASE i # Done + 1
          <6>1. i \in 1..Len(worked) /\ worked'[i] = worked[i]
            BY <1>4, <2>3, <4>1, <5>3
          <6>2. QED
            BY <1>1, <3>1, <6>1 DEF JobsTellTruth
        <5>4. QED
          BY <5>2, <5>3
      <4>3. (\A i \in 1..Len(worked) : DoneAsAsked(worked[i], Recipe[rab.type][i]))'
        BY <1>7, <4>2 DEF ExecuteCommand, work, DoneAsAsked, NearestParked
      <4>4. QED
        BY <1>7, <2>3, <2>4, <3>1, <4>1, <4>3 DEF ExecuteCommand, work, JobsTellTruth
    <3>2. CASE ~isSuccessful
      <4>1. Len(worked) < Done
        BY <1>1, <1>7, <3>2 DEF ExecuteCommand, JobsTellTruth, Ended
      <4>2. QED
        BY <1>4, <1>7, <2>3, <2>4, <3>2, <4>1 DEF ExecuteCommand, work, JobsTellTruth
    <3>3. QED
      BY <3>1, <3>2
  <2>6. QED
    BY <2>4, <2>5 DEF WorkedOK
<1>8. CASE CommandFails
  <2>1. CommandsAreRest' /\ RobotIsRight' /\ Done' = Done /\ Ended' = Done + 1
    BY <1>1, <1>8 DEF CommandFails, CommandsAreRest, RobotIsRight, Done, Ended
  <2>2. Len(worked) <= Done
    BY <1>1, <1>4, <1>8 DEF CommandFails, JobsTellTruth, Ended
  <2>3. JobsTellTruth'
    BY <1>4, <1>8, <2>1, <2>2 DEF CommandFails, JobsTellTruth
  <2>4. QED
    BY <2>1, <2>3 DEF WorkedOK
<1>9. CASE ParkRobot
  <2>1. Len(commands) \in Nat /\ Len(Recipe[rab.type]) \in Nat
    BY <1>2
  <2>2. Done' = Done + 1
    BY <1>1, <1>3, <1>9, <2>1, CommandInRecipe DEF ParkRobot, Done
  <2>3. CommandsAreRest'
    <3>1. /\ \A i \in 1..Len(Tail(commands)) :
                Tail(commands)[i] = Recipe[rab.type][Done + 1 + i]
          /\ Done \in Nat
      BY <1>1, <1>3, <1>9, CommandInRecipe DEF CommandsAreRest
    <3>2. Done' \in Nat /\ UNCHANGED rab /\ commands' = Tail(commands)
      BY <1>9, <2>2, <3>1 DEF ParkRobot
    <3>3. QED
      BY <2>2, <3>1, <3>2 DEF CommandsAreRest
  <2>4. RobotIsRight'
    BY <1>9 DEF ParkRobot, RobotIsRight
  <2>5. Ended = Done + 1 /\ Ended' = Done + 1
    BY <1>9, <2>2 DEF ParkRobot, Ended
  <2>6. JobsTellTruth'
    BY <1>1, <1>9, <2>5 DEF ParkRobot, JobsTellTruth, DoneAsAsked, NearestParked
  <2>7. QED
    BY <2>3, <2>4, <2>6 DEF WorkedOK
<1>10. QED
  BY <1>6, <1>7, <1>8, <1>9

\* WorkedOK is inductive with the types.
LEMMA WorkedStep ==
    ASSUME TSTypeOK, RobotsComeHome, WorkedOK, [TSNext]_tsVars
    PROVE  WorkedOK'
<1>1. CASE NextCommand \/ RobotNotFound
  BY <1>1, CommandBegins
<1>2. CASE Move \/ ExecuteCommand \/ CommandFails \/ ParkRobot
  BY <1>2, CommandGoesOn
<1>3. CASE GetRAB
  <2>1. Recipe[rab.type] \in Seq(RobotCommands)
    BY <1>3, TaskSchedulerAssumption DEF GetRAB, TSTypeOK, InHand, RABs
  <2>2. CommandsAreRest' /\ RobotIsRight' /\ Ended' = 0
    BY <1>3, <2>1 DEF GetRAB, CommandsAreRest, RobotIsRight, Done, Ended
  <2>3. JobsTellTruth'
    BY <1>3, <2>2, EmptySeq DEF GetRAB, JobsTellTruth
  <2>4. QED
    BY <2>2, <2>3 DEF WorkedOK
<1>4. CASE Run \/ Wake \/ Drained \/ Take \/ CreateReport \/ ResetSensor \/ ConsumerDies
  BY <1>4 DEF Run, Wake, Drained, Take, CreateReport, ResetSensor, ConsumerDies,
              WorkedOK, Working
<1>5. ASSUME UNCHANGED <<cpc, work, position, worked>>
      PROVE  WorkedOK'
  BY <1>5 DEF WorkedOK, Working, work, CommandsAreRest, RobotIsRight, JobsTellTruth,
              Done, Ended, Command, DoneAsAsked, NearestParked
<1>6. ASSUME NEW tag \in unused, RequestManual(tag) \/ RequestAuto(tag)
      PROVE  UNCHANGED <<cpc, work, position, worked>>
  BY <1>6, RequestStep DEF TSTypeOK
<1>7. cleanUp \/ UNCHANGED tsVars => UNCHANGED <<cpc, work, position, worked>>
  BY DEF cleanUp, tsVars
<1>8. ASSUME NEW r \in Endless, RequestAgain(r)
      PROVE  UNCHANGED <<cpc, work, position, worked>>
  BY <1>8, AgainStep
<1>9. QED
  BY <1>1, <1>2, <1>3, <1>4, <1>5, <1>6, <1>7, <1>8 DEF TSNext, Consumer

\* So it always holds.
LEMMA WorkedCorrect == TSSpec => []WorkedOK
<1>1. TSInit => WorkedOK
  BY DEF TSInit, WorkedOK, Working
<1>2. TSTypeOK /\ RobotsComeHome /\ WorkedOK /\ [TSNext]_tsVars => WorkedOK'
  BY WorkedStep
<1>3. QED
  BY <1>1, <1>2, TSTypeCorrect, RobotsAlwaysComeHome, PTL DEF TSSpec

\* The report of a RAB says success exactly when all of the recipe was carried
\* out, in order, each command by the robot it names or by a nearest one and at
\* the place of the RAB, whatever calls failed on the way.
THEOREM ReportsTellTruth == TSSpec => []ReportTellsTruth
<1>1. TSTypeOK /\ WorkedOK => ReportTellsTruth
  <2> SUFFICES ASSUME TSTypeOK, WorkedOK, cpc = "command", commands = <<>>
               PROVE  isSuccessful <=>
                        /\ Len(worked) = Len(Recipe[rab.type])
                        /\ \A i \in 1..Len(worked) :
                              DoneAsAsked(worked[i], Recipe[rab.type][i])
    BY DEF ReportTellsTruth
  <2>1. JobsTellTruth
    BY DEF WorkedOK, Working
  <2>2. Recipe[rab.type] \in Seq(RobotCommands) /\ isSuccessful \in BOOLEAN
    BY TaskSchedulerAssumption DEF TSTypeOK, InHand, RABs
  <2>3. Ended = Len(Recipe[rab.type])
    BY <2>2 DEF Ended, Done
  <2>4. QED
    BY <2>1, <2>2, <2>3 DEF JobsTellTruth
<1>2. QED
  BY <1>1, TSTypeCorrect, WorkedCorrect, PTL

-----------------------------------------------------------------------------
(* The task scheduler implements the service of RABService.tla, for any      *)
(* robots, recipes and requests and with or without faults.                  *)

\* A set of naturals that has an element has a least one.
LEMMA LeastNatural ==
    ASSUME NEW S, S \subseteq Nat, S # {}
    PROVE  \E n \in S : \A m \in S : n <= m
<1>1. PICK n \in S : \A m \in S : <<m, n>> \notin OpToRel(<, Nat)
  BY WFMin, NatLessThanWellFounded, Zenon
<1>2. \A m \in S : ~ (m < n)
  <2> SUFFICES ASSUME NEW m \in S PROVE m < n => <<m, n>> \in OpToRel(<, Nat)
    BY <1>1
  <2>1. m \in Nat /\ n \in Nat
    OBVIOUS
  <2>2. QED
    BY <2>1, Zenon DEF OpToRel
<1>3. QED
  BY <1>2

\* A fire has a nearest robot as soon as there is a robot at all.
LEMMA NearestExists ==
    ASSUME position \in [Robots -> Places], NEW pos \in Places, Robots # {}
    PROVE  nearestRobotTo(pos) # {}
<1> DEFINE Distances == {Distance(r, pos) : r \in Robots}
<1>1. \A r \in Robots : Distance(r, pos) \in Nat
  <2>1. pos \in Nat \X Nat /\ \A r \in Robots : position[r] \in Nat \X Nat
    BY TaskSchedulerAssumption
  <2>2. QED
    BY <2>1, SquaresAdd DEF Distance
<1>2. PICK d \in Distances : \A e \in Distances : d <= e
  <2>1. Distances \subseteq Nat /\ Distances # {}
    BY <1>1
  <2> HIDE DEF Distances
  <2>2. QED
    BY <2>1, LeastNatural
<1> DEFINE Near == {r \in Robots : Distance(r, pos) = d}
<1>3. PICK r \in Near : \A q \in Near : r <= q
  <2>1. Near \subseteq Nat /\ Near # {}
    BY TaskSchedulerAssumption
  <2> HIDE DEF Near
  <2>2. QED
    BY <2>1, LeastNatural
<1>4. ASSUME NEW q \in Robots
      PROVE  \/ Distance(r, pos) < Distance(q, pos)
             \/ Distance(r, pos) = Distance(q, pos) /\ r <= q
  <2>1. Distance(r, pos) = d /\ d <= Distance(q, pos)
        /\ Distance(r, pos) \in Nat /\ Distance(q, pos) \in Nat
    BY <1>1, <1>2, <1>3
  <2>2. CASE Distance(q, pos) = d
    BY <1>3, <2>1, <2>2
  <2>3. CASE Distance(q, pos) # d
    BY <2>1, <2>3
  <2>4. QED
    BY <2>2, <2>3
<1>5. r \in nearestRobotTo(pos)
  BY <1>3, <1>4 DEF nearestRobotTo
<1>6. QED
  BY <1>5

-----------------------------------------------------------------------------
\* A RAB only fails because a robot of its recipe is not there, or by a fault.
FailureHasReason ==
    Working /\ ~isSuccessful => RemoteFaults \/ StoreFaults \/ ~Doable(rab)

\* FailureHasReason is inductive with the types and WorkedOK.
LEMMA ReasonStep ==
    ASSUME TSTypeOK, WorkedOK, FailureHasReason, [TSNext]_tsVars
    PROVE  FailureHasReason'
<1>1. CASE RobotNotFound
  <2>1. /\ Working /\ CommandsAreRest /\ commands # <<>> /\ RobotFor(Command) = {}
        /\ position \in [Robots -> Places] /\ rab.pos \in Places
    BY <1>1 DEF RobotNotFound, WorkedOK, Working, TSTypeOK, InHand, RABs
  <2>2. /\ Done + 1 \in DOMAIN Recipe[rab.type]
        /\ Command = Recipe[rab.type][Done + 1]
    <3>1. Recipe[rab.type] \in Seq(RobotCommands)
      BY <1>1, TaskSchedulerAssumption DEF RobotNotFound, TSTypeOK, InHand, RABs
    <3>2. QED
      BY <2>1, <3>1, CommandInRecipe
  <2>3. IF Command.actionId = "firefight" THEN Robots = {}
        ELSE Command.robotId \notin Robots
    BY <2>1, NearestExists DEF RobotFor
  <2>4. ~Doable(rab)
    BY <2>2, <2>3 DEF Doable
  <2>5. QED
    BY <1>1, <2>4 DEF RobotNotFound, FailureHasReason, Doable
<1>2. CASE CommandFails
  BY <1>2 DEF CommandFails, FailureHasReason
<1>3. CASE GetRAB
  BY <1>3 DEF GetRAB, FailureHasReason
<1>4. CASE NextCommand \/ Move \/ ExecuteCommand \/ ParkRobot
  BY <1>4 DEF NextCommand, Move, ExecuteCommand, ParkRobot, work, Working,
              FailureHasReason, Doable
<1>5. CASE Run \/ Wake \/ Drained \/ Take \/ CreateReport \/ ResetSensor \/ ConsumerDies
  BY <1>5 DEF Run, Wake, Drained, Take, CreateReport, ResetSensor, ConsumerDies,
              FailureHasReason, Working
<1>6. ASSUME UNCHANGED <<cpc, work>> PROVE FailureHasReason'
  BY <1>6 DEF FailureHasReason, Working, work, Doable
<1>7. ASSUME NEW tag \in unused, RequestManual(tag) \/ RequestAuto(tag)
      PROVE  UNCHANGED <<cpc, work>>
  BY <1>7, RequestStep DEF TSTypeOK
<1>8. cleanUp \/ UNCHANGED tsVars => UNCHANGED <<cpc, work>>
  BY DEF cleanUp, tsVars
<1>9. ASSUME NEW r \in Endless, RequestAgain(r) PROVE UNCHANGED <<cpc, work>>
  BY <1>9, AgainStep
<1>10. QED
  BY <1>1, <1>2, <1>3, <1>4, <1>5, <1>6, <1>7, <1>8, <1>9 DEF TSNext, Consumer

-----------------------------------------------------------------------------
\* A RAB that is about to be reported a success is one that can be done.
LEMMA SuccessIsDoable ==
    ASSUME TSTypeOK, WorkedOK, ReportTellsTruth,
           cpc = "command", commands = <<>>, isSuccessful
    PROVE  Doable(rab)
<1>1. worked \in Seq(Jobs) /\ Recipe[rab.type] \in Seq(RobotCommands)
  BY TaskSchedulerAssumption DEF WorkedOK, Working, JobsTellTruth, TSTypeOK, InHand, RABs
<1>2. /\ Len(worked) = Len(Recipe[rab.type])
      /\ \A i \in 1..Len(worked) : DoneAsAsked(worked[i], Recipe[rab.type][i])
  BY DEF ReportTellsTruth
<1>3. ASSUME NEW i \in DOMAIN Recipe[rab.type]
      PROVE  IF Recipe[rab.type][i].actionId = "firefight" THEN Robots # {}
             ELSE Recipe[rab.type][i].robotId \in Robots
  <2>1. i \in 1..Len(worked) /\ worked[i] \in Jobs
    BY <1>1, <1>2
  <2>2. worked[i].robotId \in Robots
    BY <2>1 DEF Jobs
  <2>3. QED
    BY <1>2, <2>1, <2>2 DEF DoneAsAsked
<1>4. QED
  BY <1>3 DEF Doable

\* The end of a RAB in hand, with a report or by the death of the consumer, is
\* the completion of the service's.
LEMMA ReportCompletes ==
    ASSUME TSTypeOK, WorkedOK, ReportTellsTruth, FailureHasReason, CreateReport
    PROVE  Service!Complete
<1>1. /\ cpc = "command" /\ commands = <<>> /\ rab \in RABs /\ rab # NoRAB
      /\ isSuccessful \in BOOLEAN
  BY NoRABAssumption DEF CreateReport, TSTypeOK, InHand
<1>2. isSuccessful = Doable(rab) \/ ((RemoteFaults \/ StoreFaults) /\ isSuccessful = FALSE)
  <2>1. Doable(rab) \in BOOLEAN
    BY DEF Doable
  <2>2. QED
    BY <1>1, <2>1, SuccessIsDoable DEF FailureHasReason, Working
<1>3. QED
  BY <1>1, <1>2 DEF CreateReport, fifos, Service!Complete

\* A consumer that dies before the report completes its RAB without one; after
\* the report the service sees nothing of it.
LEMMA DeathCompletes ==
    ASSUME TSTypeOK, ConsumerDies
    PROVE  [Service!Next]_Service!vars
<1>1. CASE cpc = "reset"
  BY <1>1 DEF ConsumerDies, fifos, Service!vars
<1>2. CASE cpc # "reset"
  <2>1. rab # NoRAB /\ (RemoteFaults \/ StoreFaults)
    BY <1>2, NoRABAssumption DEF ConsumerDies, TSTypeOK, InHand
  <2>2. Service!Complete
    BY <1>2, <2>1 DEF ConsumerDies, fifos, Service!Complete
  <2>3. QED
    BY <2>2 DEF Service!Next
<1>3. QED
  BY <1>1, <1>2

\* What the consumer takes is what the service begins.
LEMMA TakeBegins ==
    ASSUME TSTypeOK, Take
    PROVE  [Service!Next]_Service!vars
<1>1. rab = NoRAB /\ cpc = "drain" /\ cpc' = "recipe"
  BY DEF TSTypeOK, InHand, Take
<1>2. Service!BeginAuto \/ Service!BeginManual
  BY <1>1 DEF Take, getNext, Service!BeginAuto, Service!BeginManual
<1>3. QED
  BY <1>2 DEF Service!Next

\* A request is accepted.
LEMMA RequestAccepted ==
    ASSUME TSTypeOK, NEW tag \in unused, RequestManual(tag) \/ RequestAuto(tag)
    PROVE  [Service!Next]_Service!vars
<1>1. tag \in Tags /\ UNCHANGED <<cpc, rab, reports>>
  BY RequestStep DEF TSTypeOK, work
<1>2. CASE RequestManual(tag)
  <2>1. PICK type \in Types, pos \in Places : runManualRAB(type, pos, tag)
    BY <1>2 DEF RequestManual
  <2> DEFINE r == [type |-> type, pos |-> pos, sensor |-> NoSensor, tag |-> tag]
  <2>2. r \in RABs /\ ~isAutomatic(r)
    BY <1>1, RequestIsRAB DEF isAutomatic
  <2>3. manualFIFO' = Append(manualFIFO, r) /\ UNCHANGED automaticFIFO
    BY <2>1 DEF runManualRAB, addManual
  <2> HIDE DEF r
  <2>4. Service!AcceptManual(r)
    BY <1>1, <2>3 DEF Service!AcceptManual
  <2>5. QED
    BY <2>2, <2>4 DEF Service!Next
<1>3. CASE RequestAuto(tag)
  <2>1. PICK type \in Types, pos \in Places, s \in Sensors : runAutoRAB(type, pos, s, tag)
    BY <1>3 DEF RequestAuto
  <2> DEFINE r == [type |-> type, pos |-> pos, sensor |-> s, tag |-> tag]
  <2>2. r \in RABs /\ isAutomatic(r)
    BY <1>1, RequestIsRAB, TaskSchedulerAssumption DEF isAutomatic
  <2>3. automaticFIFO' = Append(automaticFIFO, r) /\ UNCHANGED manualFIFO
    BY <2>1 DEF runAutoRAB, addAutomatic
  <2> HIDE DEF r
  <2>4. Service!AcceptAuto(r)
    BY <1>1, <2>3 DEF Service!AcceptAuto
  <2>5. QED
    BY <2>2, <2>4 DEF Service!Next
<1>4. QED
  BY <1>2, <1>3

\* Every step of the task scheduler is one of the service or leaves it alone.
LEMMA RABStepRefines ==
    ASSUME TSTypeOK, WorkedOK, ReportTellsTruth, FailureHasReason, [TSNext]_tsVars
    PROVE  [Service!Next]_Service!vars
<1>1. CASE Run \/ Wake \/ Drained
  BY <1>1 DEF Run, Wake, Drained, fifos, work, Service!vars
<1>2. CASE Take
  BY <1>2, TakeBegins
<1>3. CASE GetRAB \/ NextCommand \/ RobotNotFound
  BY <1>3 DEF GetRAB, NextCommand, RobotNotFound, fifos, Service!vars
<1>4. CASE Move \/ ExecuteCommand \/ CommandFails \/ ParkRobot
  BY <1>4 DEF Move, ExecuteCommand, CommandFails, ParkRobot, fifos, work, Service!vars
<1>5. CASE CreateReport
  BY <1>5, ReportCompletes DEF Service!Next
<1>6. CASE ResetSensor
  BY <1>6 DEF ResetSensor, fifos, Service!vars
<1>7. CASE ConsumerDies
  BY <1>7, DeathCompletes
<1>8. ASSUME NEW tag \in unused, RequestManual(tag) \/ RequestAuto(tag)
      PROVE  [Service!Next]_Service!vars
  BY <1>8, RequestAccepted
<1>9. CASE cleanUp \/ UNCHANGED tsVars
  BY <1>9 DEF cleanUp, tsVars, fifos, work, Service!vars
<1>10. ASSUME NEW r \in Endless, RequestAgain(r) PROVE [Service!Next]_Service!vars
  <2>1. Service!AcceptAuto(r)
    BY <1>10, AgainStep DEF work, Service!AcceptAuto
  <2>2. QED
    BY <1>10, <2>1, AgainStep DEF Service!Next
<1>11. QED
  BY <1>1, <1>2, <1>3, <1>4, <1>5, <1>6, <1>7, <1>8, <1>9, <1>10 DEF TSNext, Consumer

\* The queue with its consumer is the service: RABs are begun one at a time,
\* those of the failure detection first and each class in the order of arrival,
\* and each ends with a report that is right about whether the base has the
\* robots for it, or, if calls fail, with a failed one or none.
THEOREM RABServiceImplemented == TSSpec => ImplementsRABService
<1>1. TSInit => Service!Init
  BY DEF TSInit, FIFOsInit, Service!Init
<1>2. TSInit => FailureHasReason
  BY DEF TSInit, FailureHasReason, Working
<1>3. TSTypeOK /\ WorkedOK /\ FailureHasReason /\ [TSNext]_tsVars => FailureHasReason'
  BY ReasonStep
<1>4. TSTypeOK /\ WorkedOK /\ ReportTellsTruth /\ FailureHasReason /\ [TSNext]_tsVars
        => [Service!Next]_Service!vars
  BY RABStepRefines
<1>5. QED
  BY <1>1, <1>2, <1>3, <1>4, TSTypeCorrect, WorkedCorrect, ReportsTellTruth, PTL
     DEF TSSpec, ImplementsRABService, Service!Spec

-----------------------------------------------------------------------------
\* The alarm loop around the task scheduler.

\* Where a sensor's next RAB may be, past the thread of its sensor control.
Queued(s)   == \E i \in DOMAIN automaticFIFO : automaticFIFO[i].sensor = s
InChannel(s) == \E kind \in {"ACTIVE", "TERMINATE"} : channel[<<Member(s), kind>>] > 0
OnItsWay(s) == InChannel(s) \/ Queued(s)

\* What makes AlarmNeverLost inductive: reset() has pushed the fault state for
\* its sensor before it clears the sensor, and that fault state, or the RAB it
\* became, cannot have been taken by the consumer, which is the caller.
ResetIsCovered ==
    /\ cpc = "reset" => rab.sensor \in Sensors
    /\ terminated => OnItsWay(rab.sensor) \/ rab.sensor \in dropped

\* The names of the fault states stand for the sensors, one to one.
LEMMA NamesAreSensors ==
    /\ \A s \in Sensors : SensorOf(Member(s)) = s
    /\ \A s, t \in Sensors : Member(s) = Member(t) => s = t
    /\ \A s \in Sensors : \A kind \in {"ACTIVE", "TERMINATE"} :
          <<Member(s), kind>> \in Faults
    /\ \A fault \in Faults : \E s \in Sensors : \E kind \in {"ACTIVE", "TERMINATE"} :
          fault = <<Member(s), kind>>
  BY AlarmsAssumption DEF SensorOf, Member, Members, Faults

\* Counting up, and down from a positive count, keeps the channel's type.
LEMMA ChannelUp ==
    ASSUME channel \in [Faults -> Nat], NEW fault, Pushed(fault)
    PROVE  channel' \in [Faults -> Nat]
<1>1. fault \in Faults => channel[fault] + 1 \in Nat
  OBVIOUS
<1>2. QED
  BY <1>1 DEF Pushed

LEMMA ChannelDown ==
    ASSUME channel \in [Faults -> Nat], NEW fault \in Faults, channel[fault] > 0,
           channel' = [channel EXCEPT ![fault] = @ - 1]
    PROVE  channel' \in [Faults -> Nat]
<1>1. channel[fault] - 1 \in Nat
  OBVIOUS
<1>2. QED
  BY <1>1

\* A fault state that is received becomes a RAB of its sensor at the end of the
\* automatic list.
LEMMA ReceivedStep ==
    ASSUME AlarmsTypeOK, NEW s \in Sensors, NEW kind \in {"ACTIVE", "TERMINATE"},
           FaultStateReceived(<<Member(s), kind>>)
    PROVE  /\ \E r \in RABs : r.sensor = s /\ automaticFIFO' = Append(automaticFIFO, r)
           /\ automaticFIFO' \in Seq(RABs)
           /\ channel' = [channel EXCEPT ![<<Member(s), kind>>] = @ - 1]
           /\ channel[<<Member(s), kind>>] > 0
           /\ UNCHANGED <<manualFIFO, unused, stopped, cpc, work, position, reports,
                          worked, sensorArray, spc, terminated, trips, unanswered, dropped>>
<1> DEFINE r == [type |-> ActionOf[s], pos |-> PlaceOf[s], sensor |-> s, tag |-> NoTag]
<1>1. SensorOf(Member(s)) = s
  BY NamesAreSensors
<1>2. r \in RABs /\ r.sensor = s
  BY AlarmsAssumption, RequestIsRAB
<1>3. runAutoRAB(ActionOf[s], PlaceOf[s], s, NoTag)
  BY <1>1 DEF FaultStateReceived
<1>4. automaticFIFO' = Append(automaticFIFO, r) /\ UNCHANGED manualFIFO
  BY <1>3 DEF runAutoRAB, addAutomatic
<1>5. automaticFIFO \in Seq(RABs)
  BY DEF AlarmsTypeOK, TSTypeOK
<1> HIDE DEF r
<1>6. automaticFIFO' \in Seq(RABs)
  BY <1>2, <1>4, <1>5
<1>7. UNCHANGED <<stopped, cpc, work, position, reports, worked>>
  BY <1>3 DEF runAutoRAB
<1>8. QED
  BY <1>2, <1>4, <1>6, <1>7 DEF FaultStateReceived

\* Every step of the loop keeps the types of the task scheduler.
LEMMA LoopKeepsTSTypes ==
    ASSUME AlarmsTypeOK, [AlarmsNext]_alarmVars
    PROVE  TSTypeOK'
<1>0. TSTypeOK
  BY DEF AlarmsTypeOK
<1>1. CASE UNCHANGED tsVars
  BY <1>0, <1>1, TSTypeStep
<1>2. CASE Consumer
  BY <1>0, <1>2, ConsumerKeepsTypes
<1>3. ASSUME NEW s \in Sensors, Trip(s) \/ SensorThread(s)
      PROVE  TSTypeOK'
  BY <1>1, <1>3 DEF Trip, SensorThread, SeesAlarm, ClearStatus, ClearStatusFails,
     SendActive, SendFails
<1>4. ASSUME NEW fault \in Faults, FaultStateReceived(fault)
      PROVE  TSTypeOK'
  <2>1. PICK s \in Sensors, kind \in {"ACTIVE", "TERMINATE"} : fault = <<Member(s), kind>>
    BY NamesAreSensors
  <2>2. QED
    BY <1>0, <1>4, <2>1, ReceivedStep DEF TSTypeOK, InHand, work
<1>5. CASE ConsumerThread
  BY <1>1, <1>2, <1>5 DEF ConsumerThread, OtherSteps, LosesConsumer, BeginRAB,
     SendTerminate, ResetSimulator, ResetFails, Consumer
<1>6. CASE ByHand
  BY <1>0, <1>6, TSTypeStep DEF ByHand, TSNext
<1>7. ASSUME NEW fault \in Faults, ReceiveFails(fault)
      PROVE  TSTypeOK'
  BY <1>1, <1>7 DEF ReceiveFails
<1>8. QED
  BY <1>1, <1>3, <1>4, <1>5, <1>6, <1>7 DEF AlarmsNext, alarmVars

\* The rest of the type invariant.
LEMMA AlarmsTypeStep ==
    ASSUME AlarmsTypeOK, [AlarmsNext]_alarmVars
    PROVE  AlarmsTypeOK'
<1>0. TSTypeOK'
  BY LoopKeepsTSTypes
<1> USE <1>0 DEF AlarmsTypeOK
<1>1. ASSUME NEW s \in Sensors, Trip(s) \/ SeesAlarm(s) \/ ClearStatus(s) \/ ClearStatusFails(s)
      PROVE  AlarmsTypeOK'
  <2>1. CASE Trip(s)
    BY <2>1 DEF Trip, tsVars
  <2>2. CASE SeesAlarm(s)
    BY <2>2 DEF SeesAlarm, tsVars
  <2>3. CASE ClearStatus(s)
    BY <2>3 DEF ClearStatus, tsVars
  <2>4. CASE ClearStatusFails(s)
    BY <2>4 DEF ClearStatusFails, tsVars
  <2>5. QED
    BY <1>1, <2>1, <2>2, <2>3, <2>4
<1>2. ASSUME NEW s \in Sensors, SendActive(s) \/ SendFails(s)
      PROVE  AlarmsTypeOK'
  <2>1. CASE SendActive(s)
    BY <2>1, ChannelUp DEF SendActive, tsVars
  <2>2. CASE SendFails(s)
    BY <2>2 DEF SendFails, tsVars
  <2>3. QED
    BY <1>2, <2>1, <2>2
<1>3. ASSUME NEW fault \in Faults, FaultStateReceived(fault)
      PROVE  AlarmsTypeOK'
  <2>1. PICK s \in Sensors, kind \in {"ACTIVE", "TERMINATE"} : fault = <<Member(s), kind>>
    BY NamesAreSensors
  <2>2. QED
    BY <1>3, <2>1, ReceivedStep, ChannelDown
<1>4. CASE SendTerminate
  BY <1>4, ChannelUp DEF SendTerminate, tsVars
<1>5. CASE ResetSimulator
  BY <1>5 DEF ResetSimulator
<1>6. CASE ResetFails \/ BeginRAB
  <2>1. CASE ResetFails
    BY <2>1 DEF ResetFails
  <2>2. CASE BeginRAB
    <3>1. ~terminated /\ unanswered' \subseteq unanswered
      BY <2>2 DEF BeginRAB, Take
    <3>2. QED
      BY <2>2, <3>1 DEF BeginRAB
  <2>3. QED
    BY <1>6, <2>1, <2>2
<1>7. CASE OtherSteps
  BY <1>7 DEF OtherSteps, Run, Wake, Drained, GetRAB, NextCommand, RobotNotFound, Move,
     ExecuteCommand, CommandFails, ParkRobot, CreateReport
<1>8. CASE ByHand
  BY <1>8 DEF ByHand, RequestManual, runManualRAB
<1>9. CASE UNCHANGED alarmVars
  BY <1>9 DEF alarmVars, tsVars
<1>10. ASSUME NEW fault \in Faults, ReceiveFails(fault)
       PROVE  AlarmsTypeOK'
  <2>1. SensorOf(fault[1]) \in Sensors
    BY NamesAreSensors
  <2>2. QED
    BY <1>10, <2>1, ChannelDown DEF ReceiveFails, tsVars
<1>11. CASE LosesConsumer
  BY <1>11 DEF LosesConsumer
<1>12. QED
  BY <1>1, <1>2, <1>3, <1>4, <1>5, <1>6, <1>7, <1>8, <1>9, <1>10, <1>11
  DEF AlarmsNext, SensorThread, ConsumerThread

THEOREM AlarmsTypeCorrect == AlarmsSpec => []AlarmsTypeOK
<1>1. AlarmsInit => AlarmsTypeOK
  <2>1. TSInit => TSTypeOK
    BY EmptySeq, TaskSchedulerAssumption DEF TSInit, FIFOsInit, TSTypeOK, InHand
  <2>2. AlarmsInit =>
           /\ sensorArray \in [Sensors -> BOOLEAN]
           /\ spc \in [Sensors -> {"watch", "clear", "send", "dead"}]
           /\ channel \in [Faults -> Nat]
           /\ terminated = FALSE /\ unanswered = {} /\ dropped = {}
    BY DEF AlarmsInit
  <2>3. QED
    BY <2>1, <2>2 DEF AlarmsInit, AlarmsTypeOK
<1>2. AlarmsTypeOK /\ [AlarmsNext]_alarmVars => AlarmsTypeOK'
  BY AlarmsTypeStep
<1>3. QED
  BY <1>1, <1>2, PTL DEF AlarmsSpec

-----------------------------------------------------------------------------
\* Nothing leaves the channel or the queue unseen.

LEMMA AppendKeepsQueued ==
    ASSUME AlarmsTypeOK, NEW r \in RABs, automaticFIFO' = Append(automaticFIFO, r)
    PROVE  /\ \A s \in Sensors : Queued(s) => Queued(s)'
           /\ \A s \in Sensors : r.sensor = s => Queued(s)'
<1>1. automaticFIFO \in Seq(RABs)
  BY DEF AlarmsTypeOK, TSTypeOK
<1>2. /\ DOMAIN automaticFIFO' = 1..(Len(automaticFIFO) + 1)
      /\ \A i \in DOMAIN automaticFIFO : i \in DOMAIN automaticFIFO' /\ automaticFIFO'[i] = automaticFIFO[i]
      /\ automaticFIFO'[Len(automaticFIFO) + 1] = r
  BY <1>1
<1>3. Len(automaticFIFO) + 1 \in DOMAIN automaticFIFO'
  BY <1>1, <1>2
<1>4. QED
  BY <1>2, <1>3 DEF Queued

\* The consumer only takes RABs of its own sensor away.
LEMMA TakeKeepsQueued ==
    ASSUME AlarmsTypeOK, Take, NEW s \in Sensors, s # rab'.sensor, Queued(s)
    PROVE  Queued(s)'
<1>1. automaticFIFO \in Seq(RABs)
  BY DEF AlarmsTypeOK, TSTypeOK
<1>2. CASE UNCHANGED automaticFIFO
  BY <1>2 DEF Queued
<1>3. CASE /\ automaticFIFO # <<>> /\ rab' = Head(automaticFIFO)
           /\ automaticFIFO' = Tail(automaticFIFO)
  <2>1. PICK i \in DOMAIN automaticFIFO : automaticFIFO[i].sensor = s
    BY DEF Queued
  <2>2. i # 1
    BY <1>1, <1>3, <2>1
  <2>3. i - 1 \in DOMAIN automaticFIFO' /\ automaticFIFO'[i - 1] = automaticFIFO[i]
    BY <1>1, <1>3, <2>1, <2>2
  <2>4. QED
    BY <2>1, <2>3 DEF Queued
<1>4. QED
  BY <1>2, <1>3, TakeStep DEF AlarmsTypeOK

LEMMA PushedIsInChannel ==
    ASSUME AlarmsTypeOK, NEW s \in Sensors, NEW kind \in {"ACTIVE", "TERMINATE"},
           Pushed(<<Member(s), kind>>)
    PROVE  /\ InChannel(s)'
           /\ \A t \in Sensors : InChannel(t) => InChannel(t)'
<1>1. channel \in [Faults -> Nat]
  BY DEF AlarmsTypeOK
<1>2. /\ \A fault \in Faults : channel[fault] \in Nat /\ channel'[fault] \in Nat
      /\ \A fault \in Faults : channel'[fault] >= channel[fault]
      /\ channel'[<<Member(s), kind>>] = channel[<<Member(s), kind>>] + 1
  <2> DEFINE f == <<Member(s), kind>>
  <2>1. f \in Faults /\ channel' = [channel EXCEPT ![f] = @ + 1]
    BY NamesAreSensors DEF Pushed
  <2> HIDE DEF f
  <2>2. \A fault \in Faults : channel[fault] \in Nat
    BY <1>1
  <2>3. /\ \A fault \in Faults : fault # f => channel'[fault] = channel[fault]
        /\ channel'[f] = channel[f] + 1
    BY <1>1, <2>1
  <2>4. \A fault \in Faults : channel'[fault] \in Nat /\ channel'[fault] >= channel[fault]
    BY <2>2, <2>3
  <2>5. QED
    BY <2>2, <2>3, <2>4 DEF f
<1>3. \A t \in Sensors : Member(t)' = Member(t)
  BY DEF Member
<1>4. InChannel(s)'
  BY <1>1, <1>2, NamesAreSensors DEF InChannel
<1>5. \A t \in Sensors : InChannel(t) => InChannel(t)'
  BY <1>1, <1>2, NamesAreSensors DEF InChannel
<1>6. QED
  BY <1>4, <1>5

\* A fault state that leaves the channel leaves those of other sensors in it.
LEMMA OthersStayInChannel ==
    ASSUME AlarmsTypeOK, NEW t \in Sensors, NEW kind \in {"ACTIVE", "TERMINATE"},
           channel' = [channel EXCEPT ![<<Member(t), kind>>] = @ - 1],
           NEW s \in Sensors, s # t, InChannel(s)
    PROVE  InChannel(s)'
<1>1. PICK k \in {"ACTIVE", "TERMINATE"} : channel[<<Member(s), k>>] > 0
  BY DEF InChannel
<1> DEFINE f == <<Member(s), k>>
           g == <<Member(t), kind>>
<1>2. f \in Faults /\ f # g
  BY NamesAreSensors
<1>3. channel \in [Faults -> Nat] /\ channel' = [channel EXCEPT ![g] = @ - 1]
  BY DEF AlarmsTypeOK
<1> HIDE DEF f, g
<1>4. channel'[f] = channel[f]
  BY <1>2, <1>3
<1>5. QED
  BY <1>1, <1>4 DEF f, InChannel

\* A fault state on its way stays on its way when one is received: it is still
\* in the channel, or it is the one and becomes a RAB.
LEMMA ReceivedStaysOnItsWay ==
    ASSUME AlarmsTypeOK, NEW fault \in Faults, FaultStateReceived(fault),
           NEW s \in Sensors, OnItsWay(s)
    PROVE  OnItsWay(s)'
<1>1. PICK t \in Sensors, kind \in {"ACTIVE", "TERMINATE"} : fault = <<Member(t), kind>>
  BY NamesAreSensors
<1>2. PICK r \in RABs : r.sensor = t /\ automaticFIFO' = Append(automaticFIFO, r)
  BY <1>1, ReceivedStep
<1>3. Queued(s) \/ s = t => Queued(s)'
  BY <1>2, AppendKeepsQueued
<1>4. s # t /\ InChannel(s) => InChannel(s)'
  BY <1>1, ReceivedStep, OthersStayInChannel
<1>5. QED
  BY <1>3, <1>4 DEF OnItsWay

-----------------------------------------------------------------------------
Safe == AlarmNeverLost /\ ResetIsCovered

LEMMA NeverLostMeans ==
    /\ AlarmNeverLost <=>
          \A s \in unanswered \ dropped : sensorArray[s] \/ spc[s] \in {"clear", "send"} \/ OnItsWay(s)
    /\ AlarmNeverLost' <=>
          \A s \in unanswered' \ dropped' : sensorArray'[s] \/ spc'[s] \in {"clear", "send"} \/ OnItsWay(s)'
  BY DEF AlarmNeverLost, OnItsWay, InChannel, Queued

\* The sensor and its thread: an alarm leaves the sensor for the thread, and the
\* thread for the channel.
LEMMA SensorStepIsSafe ==
    ASSUME AlarmsTypeOK, Safe, NEW t \in Sensors, Trip(t) \/ SensorThread(t)
    PROVE  Safe'
<1>0. terminated => cpc = "reset"
  BY DEF AlarmsTypeOK
<1>1. UNCHANGED <<automaticFIFO, cpc, rab, terminated>>
  BY DEF Trip, SensorThread, SeesAlarm, ClearStatus, ClearStatusFails, SendActive,
         SendFails, tsVars, fifos, work
<1>2. CASE Trip(t)
  BY <1>1, <1>2 DEF Trip, AlarmsTypeOK,
     Safe, AlarmNeverLost, ResetIsCovered, OnItsWay, InChannel, Queued
<1>3. CASE SeesAlarm(t) \/ ClearStatus(t) \/ ClearStatusFails(t)
  BY <1>1, <1>3 DEF SeesAlarm, ClearStatus, ClearStatusFails, AlarmsTypeOK,
     Safe, AlarmNeverLost, ResetIsCovered, OnItsWay, InChannel, Queued
<1>4. CASE SendActive(t)
  <2>1. InChannel(t)' /\ (\A s \in Sensors : InChannel(s) => InChannel(s)')
    BY <1>4, PushedIsInChannel DEF SendActive
  <2>2. \A s \in Sensors : Queued(s) => Queued(s)'
    BY <1>1 DEF Queued
  <2>3. \A s \in Sensors : s # t => spc'[s] = spc[s] /\ sensorArray'[s] = sensorArray[s]
    BY <1>4 DEF SendActive, AlarmsTypeOK
  <2>4. UNCHANGED <<unanswered, dropped>> /\ unanswered \subseteq Sensors
    BY <1>4 DEF SendActive, AlarmsTypeOK
  <2>5. \A s \in Sensors : OnItsWay(s) => OnItsWay(s)'
    BY <2>1, <2>2 DEF OnItsWay
  <2>6. AlarmNeverLost'
    BY <2>1, <2>3, <2>4, <2>5, NeverLostMeans DEF Safe, OnItsWay
  <2>7. ResetIsCovered'
    BY <1>0, <1>1, <2>4, <2>5 DEF Safe, ResetIsCovered
  <2>8. QED
    BY <2>6, <2>7 DEF Safe
<1>5. CASE SendFails(t)
  BY <1>0, <1>1, <1>5 DEF SendFails, AlarmsTypeOK,
     Safe, AlarmNeverLost, ResetIsCovered, OnItsWay, InChannel, Queued
<1>6. QED
  BY <1>2, <1>3, <1>4, <1>5 DEF SensorThread

\* The consumer: it takes the RAB that answers an alarm, and the reset of its
\* sensor is covered by the fault state reset() has pushed before.
LEMMA ConsumerStepIsSafe ==
    ASSUME AlarmsTypeOK, Safe, ConsumerThread
    PROVE  Safe'
<1>0. /\ unanswered \subseteq Sensors
      /\ terminated => cpc = "reset"
  BY DEF AlarmsTypeOK
<1>1. CASE SendTerminate
  <2>1. PICK t \in Sensors : t = rab.sensor
    BY <1>1 DEF Safe, ResetIsCovered, SendTerminate
  <2>2. InChannel(t)' /\ (\A s \in Sensors : InChannel(s) => InChannel(s)')
    BY <1>1, <2>1, PushedIsInChannel DEF SendTerminate
  <2>3. UNCHANGED <<automaticFIFO, cpc, rab, sensorArray, spc, unanswered, dropped>>
    BY <1>1 DEF SendTerminate, tsVars, fifos, work
  <2>4. QED
    <3>1. \A s \in Sensors : OnItsWay(s) => OnItsWay(s)'
      BY <2>2, <2>3 DEF OnItsWay, Queued
    <3>2. AlarmNeverLost'
      BY <1>0, <2>3, <3>1, NeverLostMeans DEF Safe
    <3>3. ResetIsCovered'
      <4>1. rab' = rab /\ OnItsWay(t)'
        BY <2>2, <2>3 DEF OnItsWay
      <4>2. OnItsWay(rab.sensor)'
        BY <2>1, <4>1 DEF OnItsWay, InChannel, Queued
      <4>3. QED
        BY <2>1, <4>1, <4>2 DEF ResetIsCovered
    <3>4. QED
      BY <3>2, <3>3 DEF Safe
<1>2. CASE ResetSimulator
  <2>1. terminated /\ cpc = "reset" /\ rab.sensor \in Sensors
        /\ (OnItsWay(rab.sensor) \/ rab.sensor \in dropped)
    BY <1>0, <1>2 DEF ResetSimulator, Safe, ResetIsCovered
  <2>2. /\ UNCHANGED <<automaticFIFO, channel, spc, unanswered, dropped>>
        /\ cpc' = "drain" /\ terminated' = FALSE
        /\ \A s \in Sensors : s # rab.sensor => sensorArray'[s] = sensorArray[s]
    BY <1>2 DEF ResetSimulator, ResetSensor, fifos, AlarmsTypeOK
  <2>3. QED
    BY <1>0, <2>1, <2>2
    DEF Safe, AlarmNeverLost, ResetIsCovered, OnItsWay, InChannel, Queued
<1>3. CASE ResetFails
  BY <1>3 DEF ResetFails, ResetSensor, fifos,
     Safe, AlarmNeverLost, ResetIsCovered
<1>4. CASE BeginRAB
  <2>1. /\ UNCHANGED <<sensorArray, spc, channel, terminated, dropped>>
        /\ unanswered' = unanswered \ {rab'.sensor}
        /\ cpc = "drain" /\ cpc' = "recipe"
    BY <1>4 DEF BeginRAB, Take
  <2>2. \A s \in Sensors : s # rab'.sensor /\ Queued(s) => Queued(s)'
    BY <1>4, TakeKeepsQueued DEF BeginRAB
  <2>3. QED
    BY <1>0, <2>1, <2>2 DEF Safe, AlarmNeverLost, ResetIsCovered, Queued
<1>5. CASE OtherSteps
  <2>1. UNCHANGED <<automaticFIFO, sensorArray, spc, channel, terminated, unanswered,
                    dropped>>
    BY <1>5 DEF OtherSteps, Run, Wake, Drained, GetRAB, NextCommand, RobotNotFound, Move,
       ExecuteCommand, CommandFails, ParkRobot, CreateReport, fifos
  <2>2. ~terminated
    BY <1>0, <1>5 DEF OtherSteps, Run, Wake, Drained, GetRAB, NextCommand, RobotNotFound,
       Move, ExecuteCommand, CommandFails, ParkRobot, CreateReport
  <2>3. cpc' = "reset" => rab'.sensor \in Sensors
    <3>1. CASE CreateReport
      BY <3>1 DEF CreateReport, isAutomatic, AlarmsTypeOK, TSTypeOK, InHand, RABs
    <3>2. CASE ~CreateReport
      BY <3>2, <1>5 DEF OtherSteps, Run, Wake, Drained, GetRAB, NextCommand, RobotNotFound,
         Move, ExecuteCommand, CommandFails, ParkRobot
    <3>3. QED
      BY <3>1, <3>2
  <2>4. QED
    BY <2>1, <2>2, <2>3 DEF Safe, AlarmNeverLost, ResetIsCovered
<1>6. CASE LosesConsumer
  BY <1>6 DEF LosesConsumer, ConsumerDies, fifos,
     Safe, AlarmNeverLost, ResetIsCovered
<1>7. QED
  BY <1>1, <1>2, <1>3, <1>4, <1>5, <1>6 DEF ConsumerThread

LEMMA SafeStep ==
    ASSUME AlarmsTypeOK, Safe, [AlarmsNext]_alarmVars
    PROVE  Safe'
<1>1. ASSUME NEW fault \in Faults, FaultStateReceived(fault)
      PROVE  Safe'
  <2>1. PICK s \in Sensors, kind \in {"ACTIVE", "TERMINATE"} : fault = <<Member(s), kind>>
    BY NamesAreSensors
  <2>2. UNCHANGED <<cpc, rab, sensorArray, spc, terminated, unanswered, dropped>>
    BY <1>1, <2>1, ReceivedStep DEF work
  <2>3. \A s1 \in Sensors : OnItsWay(s1) => OnItsWay(s1)'
    BY <1>1, ReceivedStaysOnItsWay
  <2>4. unanswered \subseteq Sensors /\ (terminated => cpc = "reset")
    BY DEF AlarmsTypeOK
  <2>5. AlarmNeverLost'
    BY <2>2, <2>3, <2>4, NeverLostMeans DEF Safe
  <2>6. ResetIsCovered'
    BY <2>2, <2>3, <2>4 DEF Safe, ResetIsCovered
  <2>7. QED
    BY <2>5, <2>6 DEF Safe
<1>2. CASE ByHand
  <2>1. UNCHANGED <<automaticFIFO, cpc, rab, sensorArray, spc, channel, terminated, unanswered, dropped>>
    BY <1>2 DEF ByHand, RequestManual, runManualRAB, addManual, work
  <2>2. QED
    BY <2>1 DEF Safe, AlarmNeverLost, ResetIsCovered, OnItsWay, InChannel, Queued
<1>3. CASE UNCHANGED alarmVars
  BY <1>3 DEF alarmVars, tsVars, fifos, work,
     Safe, AlarmNeverLost, ResetIsCovered, OnItsWay, InChannel, Queued
<1>4. ASSUME NEW fault \in Faults, ReceiveFails(fault)
      PROVE  Safe'
  <2>1. PICK t \in Sensors, kind \in {"ACTIVE", "TERMINATE"} : fault = <<Member(t), kind>>
    BY NamesAreSensors
  <2>2. /\ UNCHANGED <<automaticFIFO, cpc, rab, sensorArray, spc, terminated, unanswered>>
        /\ dropped' = dropped \cup {t}
    BY <1>4, <2>1, NamesAreSensors DEF ReceiveFails, tsVars, fifos, work
  <2>3. \A s \in Sensors : s # t /\ OnItsWay(s) => OnItsWay(s)'
    <3>1. channel' = [channel EXCEPT ![<<Member(t), kind>>] = @ - 1]
      BY <1>4, <2>1 DEF ReceiveFails
    <3>2. \A s \in Sensors : s # t /\ InChannel(s) => InChannel(s)'
      BY <3>1, OthersStayInChannel
    <3>3. \A s \in Sensors : Queued(s) => Queued(s)'
      BY <2>2 DEF Queued
    <3>4. QED
      BY <3>2, <3>3 DEF OnItsWay
  <2>4. unanswered \subseteq Sensors /\ (terminated => cpc = "reset")
    BY DEF AlarmsTypeOK
  <2>5. AlarmNeverLost'
    BY <2>2, <2>3, <2>4, NeverLostMeans DEF Safe
  <2>6. ResetIsCovered'
    BY <2>2, <2>3, <2>4 DEF Safe, ResetIsCovered
  <2>7. QED
    BY <2>5, <2>6 DEF Safe
<1>5. QED
  BY <1>1, <1>2, <1>3, <1>4, SensorStepIsSafe, ConsumerStepIsSafe DEF AlarmsNext

\* A tripped sensor is never forgotten before a RAB is begun for it, although
\* its own thread and the reset() that the consumer asks for both clear it, and
\* the calls in between may fail.
THEOREM AlarmsAreNeverLost == AlarmsSpec => []AlarmNeverLost
<1>1. AlarmsInit => Safe
  BY DEF AlarmsInit, TSInit, Safe, AlarmNeverLost, ResetIsCovered
<1>2. AlarmsTypeOK /\ Safe /\ [AlarmsNext]_alarmVars => Safe'
  BY SafeStep
<1>3. Safe => AlarmNeverLost
  BY DEF Safe
<1>4. QED
  BY <1>1, <1>2, <1>3, AlarmsTypeCorrect, PTL DEF AlarmsSpec
=============================================================================
