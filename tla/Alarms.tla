------------------------------- MODULE Alarms -------------------------------
(***************************************************************************)
(* The alarm loop of MARS around the task scheduler.  A thread of each     *)
(* sensor control (SensorControl.cpp) watches its sensor of the simulator  *)
(* (SensorSimulator.py) and pushes a fault state; the failure detection    *)
(* (FailureDetection.java) turns each fault state of the alarm channel     *)
(* into an automatic RAB; the consumer of the task scheduler, done with    *)
(* it, resets the sensor, which pushes a fault state again.                *)
(***************************************************************************)
EXTENDS TaskScheduler

CONSTANTS ActionOf,   \* the action that answers the alarm of each sensor
          PlaceOf,    \* where each sensor is
          MaxTrips    \* bound: trips of sensors, and failures to clear one

ASSUME AlarmsAssumption ==
    /\ Sensors \subseteq Nat
    /\ NoTag \notin Tags
    /\ ActionOf \in [Sensors -> Types]
    /\ PlaceOf \in [Sensors -> Places]
    /\ MaxTrips \in Nat

VARIABLES sensorArray,  \* the simulator: the sensors that signal an alarm
          spc,          \* what the thread of each sensor control is doing
          channel,      \* how many fault states of each kind are on their way
          terminated,   \* reset() has pushed its fault state
          trips,        \* the bound on the environment
          unanswered,   \* history: tripped, and no RAB was begun for it since
          dropped       \* history: the sensors a failing call took a fault state of

alarmVars == <<tsVars, sensorArray, spc, channel, terminated, trips, unanswered, dropped>>

\* Fault states carry the name of the sensor, SENSOR1 for the sensor 0.
Member(s) == s + 1

\* Mutant: the number in the name is taken for the id.
SensorOf_NoShift(member) == member
SensorOf(member) == member - 1

Members == {Member(s) : s \in Sensors}
Faults  == Members \X {"ACTIVE", "TERMINATE"}

Pushed(fault) == channel' = [channel EXCEPT ![fault] = @ + 1]

-----------------------------------------------------------------------------
Trip(s) ==
    /\ trips < MaxTrips
    /\ trips' = trips + 1
    /\ sensorArray' = [sensorArray EXCEPT ![s] = TRUE]
    /\ unanswered' = unanswered \cup {s}
    /\ UNCHANGED <<tsVars, spc, channel, terminated, dropped>>

\* runLoop(): the status, the sensor back to 0, the fault state.
SeesAlarm(s) ==
    /\ spc[s] = "watch"
    /\ sensorArray[s]
    /\ spc' = [spc EXCEPT ![s] = "clear"]
    /\ UNCHANGED <<tsVars, sensorArray, channel, terminated, trips, unanswered, dropped>>

ClearStatus(s) ==
    /\ spc[s] = "clear"
    /\ sensorArray' = [sensorArray EXCEPT ![s] = FALSE]
    /\ spc' = [spc EXCEPT ![s] = "send"]
    /\ UNCHANGED <<tsVars, channel, terminated, trips, unanswered, dropped>>

\* An exception of setStatus() is only logged; the alarm will be seen again.
ClearStatusFails(s) ==
    /\ RemoteFaults
    /\ trips < MaxTrips
    /\ trips' = trips + 1
    /\ spc[s] = "clear"
    /\ spc' = [spc EXCEPT ![s] = "send"]
    /\ UNCHANGED <<tsVars, sensorArray, channel, terminated, unanswered, dropped>>

SendActive(s) ==
    /\ spc[s] = "send"
    /\ Pushed(<<Member(s), "ACTIVE">>)
    /\ spc' = [spc EXCEPT ![s] = "watch"]
    /\ UNCHANGED <<tsVars, sensorArray, terminated, trips, unanswered, dropped>>

\* sendAlarm() is not in the try: its exception leaves runLoop(), after the
\* sensor was cleared.  The thread library goes on with it or ends the thread.
SendFails(s) ==
    /\ RemoteFaults
    /\ spc[s] = "send"
    /\ spc' \in {[spc EXCEPT ![s] = "watch"], [spc EXCEPT ![s] = "dead"]}
    /\ dropped' = dropped \cup {s}
    /\ UNCHANGED <<tsVars, sensorArray, channel, terminated, trips, unanswered>>

-----------------------------------------------------------------------------
\* Mutant: the end of an alarm is no alarm.
FaultStateReceived_ActiveOnly(fault) ==
    LET s == SensorOf(fault[1])
    IN  /\ channel[fault] > 0
        /\ channel' = [channel EXCEPT ![fault] = @ - 1]
        /\ IF fault[2] = "ACTIVE" THEN runAutoRAB(ActionOf[s], PlaceOf[s], s, NoTag)
           ELSE UNCHANGED <<fifos, stopped, cpc, work, position, reports, worked>>
        /\ UNCHANGED <<unused, sensorArray, spc, terminated, trips, unanswered, dropped>>

\* faultStateReceived(): the descriptor of the fault state is not looked at.
FaultStateReceived(fault) ==
    LET s == SensorOf(fault[1])
    IN  /\ channel[fault] > 0
        /\ channel' = [channel EXCEPT ![fault] = @ - 1]
        /\ IF s \in Sensors THEN runAutoRAB(ActionOf[s], PlaceOf[s], s, NoTag)
           ELSE UNCHANGED <<fifos, stopped, cpc, work, position, reports, worked>>
        /\ UNCHANGED <<unused, sensorArray, spc, terminated, trips, unanswered, dropped>>

\* status() of a sensor control or runAutoRAB() fails: the fault state is gone.
ReceiveFails(fault) ==
    /\ RemoteFaults
    /\ channel[fault] > 0
    /\ channel' = [channel EXCEPT ![fault] = @ - 1]
    /\ dropped' = dropped \cup {SensorOf(fault[1])}
    /\ UNCHANGED <<tsVars, sensorArray, spc, terminated, trips, unanswered>>

-----------------------------------------------------------------------------
\* reset() of the sensor control, called through the failure detection: the
\* fault state first, then the sensor.

SendTerminate ==
    /\ cpc = "reset" /\ ~terminated
    /\ Pushed(<<Member(rab.sensor), "TERMINATE">>)
    /\ terminated' = TRUE
    /\ UNCHANGED <<tsVars, sensorArray, spc, trips, unanswered, dropped>>

\* Mutant: reset() does not finish with the sensor of this RAB.
ResetSimulator_Pending ==
    /\ terminated
    /\ ResetSensor
    /\ sensorArray' = [sensorArray EXCEPT ![rab.sensor] = FALSE]
    /\ UNCHANGED <<terminated, spc, channel, trips, unanswered, dropped>>

ResetSimulator ==
    /\ terminated
    /\ terminated' = FALSE
    /\ ResetSensor
    /\ sensorArray' = [sensorArray EXCEPT ![rab.sensor] = FALSE]
    /\ UNCHANGED <<spc, channel, trips, unanswered, dropped>>

\* An exception of either call is only logged; the first one skips the second.
ResetFails ==
    /\ RemoteFaults
    /\ terminated' = FALSE
    /\ ResetSensor
    /\ UNCHANGED <<sensorArray, spc, channel, trips, unanswered, dropped>>

BeginRAB ==
    /\ Take
    /\ unanswered' = unanswered \ {rab'.sensor}
    /\ UNCHANGED <<sensorArray, spc, channel, terminated, trips, dropped>>

OtherSteps ==
    /\ \/ Run \/ Wake \/ Drained
       \/ GetRAB \/ NextCommand \/ RobotNotFound \/ Move \/ ExecuteCommand
       \/ CommandFails \/ ParkRobot \/ CreateReport
    /\ UNCHANGED <<sensorArray, spc, channel, terminated, trips, unanswered, dropped>>

LosesConsumer ==
    /\ ConsumerDies
    /\ terminated' = FALSE
    /\ UNCHANGED <<sensorArray, spc, channel, trips, unanswered, dropped>>

ByHand ==
    /\ \E tag \in unused : RequestManual(tag)
    /\ UNCHANGED <<sensorArray, spc, channel, terminated, trips, unanswered, dropped>>

-----------------------------------------------------------------------------
AlarmsInit ==
    /\ TSInit
    /\ sensorArray = [s \in Sensors |-> FALSE]
    /\ spc = [s \in Sensors |-> "watch"]
    /\ channel = [fault \in Faults |-> 0]
    /\ terminated = FALSE
    /\ trips = 0
    /\ unanswered = {} /\ dropped = {}

SensorThread(s) ==
    SeesAlarm(s) \/ ClearStatus(s) \/ ClearStatusFails(s)
    \/ SendActive(s) \/ SendFails(s)

ConsumerThread ==
    OtherSteps \/ LosesConsumer \/ BeginRAB \/ SendTerminate \/ ResetSimulator \/ ResetFails

AlarmsNext ==
    \/ \E s \in Sensors : Trip(s) \/ SensorThread(s)
    \/ \E fault \in Faults : FaultStateReceived(fault) \/ ReceiveFails(fault)
    \/ ConsumerThread
    \/ ByHand

AlarmsSpec == AlarmsInit /\ [][AlarmsNext]_alarmVars

\* Threads run and the channel delivers; sensors need not trip.
FairAlarmsSpec ==
    /\ AlarmsSpec
    /\ \A s \in Sensors : WF_alarmVars(SensorThread(s))
    /\ \A fault \in Faults : WF_alarmVars(FaultStateReceived(fault) \/ ReceiveFails(fault))
    /\ WF_alarmVars(ConsumerThread)

-----------------------------------------------------------------------------
AlarmsTypeOK ==
    /\ TSTypeOK
    /\ sensorArray \in [Sensors -> BOOLEAN]
    /\ spc \in [Sensors -> {"watch", "clear", "send", "dead"}]
    /\ channel \in [Faults -> Nat]
    /\ terminated \in BOOLEAN /\ (terminated => cpc = "reset")
    /\ unanswered \subseteq Sensors /\ dropped \subseteq Sensors
    /\ \A s \in Sensors : spc[s] = "dead" => s \in dropped

\* An alarm is never lost on its way to the consumer, although its signal is
\* cleared by two threads, and the second may clear a trip that nobody has seen:
\* while no RAB was begun for it, it is in the sensor, with the sensor's thread,
\* in the channel or in the queue.  Only an exception that takes a fault state
\* of the sensor, of this alarm or of the reset before it, ends the promise.
AlarmNeverLost ==
    \A s \in unanswered \ dropped :
        \/ sensorArray[s] \/ spc[s] \in {"clear", "send"}
        \/ \E kind \in {"ACTIVE", "TERMINATE"} : channel[<<Member(s), kind>>] > 0
        \/ \E i \in DOMAIN automaticFIFO : automaticFIFO[i].sensor = s

\* Every alarm is answered by a RAB that begins after it, unless an exception
\* has taken a fault state of its sensor or ended the consumer.
EveryAlarmAnswered ==
    \A s \in Sensors :
        s \in unanswered ~> (s \notin unanswered \/ s \in dropped \/ cpc = "dead")
=============================================================================
