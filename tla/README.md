# Specifications of SORT, MARS and UOS

This directory holds TLA+ specifications of the three observatory projects of
this repository, of the vehicles and the device driver below them, with the
configurations that model-check them with TLC and proofs that TLAPS checks.

The repository is a collection of workshop projects on ALMA Common Software
(ACS): components that talk over CORBA, activated and deactivated by the ACS
manager, written in Java, C++ and Python.

 * **SORT** (`src/acs/workshop/awu2010/SORT`) observes: astronomers submit
   proposals (lists of targets), a scheduler points the telescope at each
   target, takes a picture and stores it.
 * **MARS** (`src/acs/workshop/awu2009/MARS`) runs a base of robots: sensors
   raise alarms, an operator gives orders, and both become robotic action
   blocks (RABs) that robots carry out.
 * **UOS** (`src/acs/workshop/awu2008/UOS`) is the predecessor of SORT.
 * The **LEGO farm** (`MARS/EXTERNAL/LegoFarm`) are the vehicles of MARS: NXT
   bricks that drive over a floor of lines by a path that is searched for them.
 * The **LEGO telescope** (`SORT/lego`, `SORT/EXTERNAL/scarletport`) is the other
   telescope of SORT: a mount of LEGO with a control loop on an RCX brick.
 * The **LEGO tower** (`SORT/EXTERNAL/legousbtower-0.5.4`) is the Linux driver
   SORT reaches that mount through.

In what follows SORT, MARS and UOS stand for these directories.

Contents: 1 inventory, 2 modules, 3 modelling decisions, 4 runs, 5 fairness,
6 proofs, 7 what is only model-checked, 8 disagreements found, 9 what is not
modelled, 10 plan.

## 1. Inventory

### SORT

| Component | State | Operations | Talks to |
|---|---|---|---|
| database, `Database/.../DataBaseImpl.java` | map pid -> proposal and images, pid counter, one file | storeProposal, removeProposal, clean, setProposalStatus, storeImage, queries, initialize, cleanUp | called by all; the ACS manager activates and deactivates it |
| scheduler, `scheduler/.../SchedulerImpl.java` | `isRunning` (atomic), `stopSchedulerRequest`, `proposalUnderExecution` (volatile), the latch (plain) | start, stop, proposalUnderExecution, the round thread | database, instrument, telescope |
| console, `console/src/ConsoleImpl.py` | `mode` | setMode, getMode, camera and telescope by hand | scheduler, instrument, telescope |
| telescope, `Nexstar/src/telescopeImpl.cpp` | whether mount and instrument were found | moveTo, observe, getCurrentPosition | mount, instrument |
| instrument, `instrument/src/InstrumentImpl.cpp` | the camera reference | cameraOn, cameraOff, takeImage | camera device |

What is hard. `start()`, `stop()` and the round run in different threads and
share four fields without a lock; the latch that `stop()` waits on is made by
the thread it waits for; the wait ends after 60 s; rounds work on a snapshot of
proposals which their owners may remove; every remote call may fail, some
outside every `try`; the database keeps everything in memory and writes two
objects to a truncated file when it is deactivated.

What makes it correct. No two rounds at once; the pid reported is the one that
is observed; a proposal is ready only after all its targets were tried, and is
never left running by a stop; an image is stored once, for the target it was
taken of; pids are not reused; `stop()` returns; rounds end.

### MARS

| Component | State | Operations | Talks to |
|---|---|---|---|
| task scheduler, `TaskScheduler/.../TaskScheduler.java`, `RABQueueConsumer.java`, `utils/TwoParallelFIFOs.java` | two queues, the flag `stopped`, the consumer thread | runManualRAB, runAutoRAB, getRobotsList, getRobotStatus, cleanUp, processOne | robot controls, report database, failure detection |
| robot control, `RC/src/RCBaseImpl.cpp` | position, isParked | move, executeCommand, park, status | LEGO farm |
| task and report database, `TRD/.../TRD.java` | recipe and report tables (SQLite) | getRAB, createReport, getReport, getReportsList | |
| failure detection, `FailureDetection/.../FailureDetection.java` | references | faultStateReceived, resetSensor, sensorStatus | alarm channel, sensor controls, task scheduler |
| sensor control, `SC/src/SensorControl.cpp` | a thread per sensor | runLoop, reset, status | sensor simulator, alarm channel |
| sensor simulator, `EXTERNAL/senSim/.../SensorSimulator.py` | one flag per sensor | getStatus, setStatus, resetSensor | |
| operator console, `OC/src/OCimpl/OCimpl.py` | the last lists fetched | executeRAB, report and status queries | task scheduler, report database, failure detection |

What is hard. One consumer thread drains two queues that two clients fill;
commands of a block fail one by one and the robot must be parked all the same;
exceptions outside the inner `try` end the thread; a sensor flag is cleared by
two threads while it may be set again; the reset of a sensor is itself
announced on the alarm channel.

What makes it correct. Blocks run one at a time, the failure detection's
first, each class in order, none lost or doubled; a report says success exactly
if every command was done by the right robot in the right place; at most one
robot is out; no alarm is lost between sensor and block; the consumer ends when
told to.

### UOS

| Component | State | Operations | Talks to |
|---|---|---|---|
| scheduler, `Scheduler/.../SchedulerImpl.java` | `loop`, `loopValidator`, `startValidator` (plain fields), the loop threads | start, stop, proposalUnderExecution | database, instrument, telescope |
| database, `DataBase/.../DataBase.py` | two SQLite tables | storeProposal, removeProposal, clean, getProposals, setProposalStatus, storeImage, queries | |
| console, `Console/.../ConsoleImpl.java` | `mode` | setMode, camera and telescope by hand | scheduler, instrument, telescope |
| telescope and instrument, `Telescope`, `Instrument` | references | observe, cameraOn, cameraOff, takeImage | mount, camera |

What is hard. The flag that a loop is running is tested by `start()` and set by
the thread it creates; an exception of any call ends that thread with the flag
set; the methods of the database are several statements, some with a commit of
their own; a target has an id from its client and a row number, and one half of
the code uses the one, the other half the other.

What makes it correct. While a round runs the operators do not switch the camera
or move the telescope, and the camera is on; a proposal that is ready has its
pictures; `stop()` comes back. (A picture by hand has no test of the mode: section 8.)

### LEGO farm

| Component | State | Operations | Talks to |
|---|---|---|---|
| path search, `nxtCS/.../AstarImpl/*.java` | none | solveAlgorithm | |
| coordinator, `nxtCS/.../CoordinatorImpl.java` | references of five vehicles | instantiate, setObjectivesCaller, runVehiclesCaller | vehicles |
| vehicle, `nxtCS/src/NXTImpl.cpp` | its grid, its road | setObjective, runVehicle, forward and the turns | search, device |
| device and radio, `nxtCS/src/LegoNXTImpl.cpp`, `lestat/src/{opcodes,bluecomm}.cpp` | `connectedToLego`, the socket | motor and sensor state | brick |

What is hard. The search leaves out a bound and never reopens a cell; the road
is put together turn by turn; each vehicle plans with what the others have done
by then; a failed link answers as if all was well, or with -1.

What makes it correct. Roads are as short as possible and given up only if there
is none; a vehicle arrives, facing north; vehicles do not meet; runs end.

### LEGO telescope

| Component | State | Operations | Talks to |
|---|---|---|---|
| telescope, `lego/src/legoImpl.cpp` | references | observe, moveTo, getCurrentPosition | antenna, instrument |
| antenna, `scarletport/src/{AltAzImpl,refAltDevIO,refAzDevIO}.cpp` | queued actions | moveto, park, stop, the positions as properties | link |
| link, `scarletport/src/SCTlib.cpp` | the file of the tower, a toggle bit | setVariable, getVariable | tower driver, brick |
| brick, `scarletport/nqc/LegoMountProg5.nqc` | target, real and previous target of each axis, motor states, scales | calibration, control loop | motors, rotation and touch sensors |

What is hard. The host writes variables that the loop of the brick reads several
times and writes itself; results of writes are not looked at; positions are kept
by remainders of 16-bit counts; `moveTo()` is answered before anything was sent.

What makes it correct. Both axes end where they were last sent and their motors
are switched off; the cables of the azimuth are not wound up; a picture is taken
where it was asked for.

### LEGO tower

`legousbtower.c` keeps a table of minors with a semaphore, and per device a
semaphore, an open count, a read buffer, two urbs and two wait queues. Its
operations are those of a file (open, release, read, write, ioctl), two
callbacks in which transfers end, probe and disconnect.

What is hard. Programs, controller and hub come at any moment; threads sleep
between raising and taking the semaphore; signals; devices that are unplugged
while they are open; memory that is freed on several ways.

What makes it correct. One file for each device, transfers and table entries
only as long as their memory is there, bytes in order and once each, calls that
return.

### The rest

Drivers for the Nexstar mount and the cameras (`SORT/EXTERNAL/Nexstar`, `lpi`,
`UOS/CCD`), interface definitions and test simulators (`ICD`,
`ITS`), the third-party compiler `nqc-3.1.r1` (most of the lines of the
repository), an Eclipse plug-in (`ACSUCNProjects`) and student clients
(`internship`). `PROJECT.json` lists each with its status.

## 2. Modules

```
ProposalStore <-refined by- DataBase --- DataBase_proofs
                               |
ObservationService <-refined- Scheduler --- Scheduler_proofs
                               |                |
                            Console ----------- '

                            TwoParallelFIFOs
                               |
RABService <---refined by-- TaskScheduler
                               |
                            Alarms ---------- Alarms_proofs

                            UOSScheduler ---- UOSScheduler_proofs

                            LegoTower ------- LegoTower_proofs

                            LegoMount ------- LegoMount_proofs

                            AStar ----------- AStar_proofs
                               |                |
                            LegoFarm -------- LegoFarm_proofs
```

A line down is EXTENDS: `Scheduler` is the composition of the scheduler with
the database and the telescope, `Console` adds the console, `Alarms` adds
sensors and failure detection to the task scheduler. `Alarms_proofs` has the theorems
on both, as `Scheduler_proofs` has those on scheduler and console.

**DataBase** (`DataBaseImpl.java`). Every servant method is synchronized and is
one action. `proposals` and `lastProposalId` are the live object, `dbFile` is
what a reader would find in the file, `dbState` says where in its life the
object is. `cleanUp()` is three actions, because a crash can fall between the
truncation, the pid and the map; `Initialize` reads back what is there, keeping
the pid if only the map is unreadable, as the code does. `Lose` is a crash or a
swallowed disk error. `OpenSlot` is the loop of `storeImage` over the targets
(the first one with the tid decides).

**ProposalStore**. The promise of the database: a map in which calls take
effect at once and every pid is new, and which a loss takes back to what the
last orderly deactivation kept, or to nothing.

**Scheduler** (`SchedulerImpl.java`, `telescopeImpl.cpp`, `InstrumentImpl.cpp`).
`rpc[r]` is the place of round `r` in `run()`, `cpc[c]` the place of an ORB
thread in `start()` or `stop()`; each access to a shared field and each remote
call is an action of its own. The locals of `run()` are `todo`, `current`,
`index`, `image`. The latch that round `r` creates is called `r`, `released`
are the latches counted down. `aim` is where the mount points. Every way out of
`run()` is there: `Abort` is an exception of a call outside the inner `try`
blocks, `CountDown` has the NullPointerException of a latch field another round
has cleared.

**ObservationService**. The promise of scheduler, telescope and database
together, without threads, flags or files.

**Console** (`ConsoleImpl.py`). A console thread blocks in the scheduler call it
makes, so console threads are the `Callers` of the scheduler. `mode` is tested
and set in steps apart from the remote calls, as in the code.

**TwoParallelFIFOs**, **TaskScheduler** (`TaskScheduler.java`, `RABQueueConsumer.java`,
with `RCBaseImpl.cpp` and `TRD.java` as they are used). `cpc` is the place of the consumer
thread; `rab`, `commands`, `robot`, `isSuccessful` are the locals of `processOne()`.
`RequestAgain` is the failure detection with an alarm that does not go away: an endless
supply of automatic blocks. `nearestRobotTo` is the loop's result, the nearest robot and
of equals the one with the smallest number. `CommandFails` is the catch block: the reply
may be lost after the robot has moved. `ConsumerDies` has the calls outside that block.

**RABService**. The promise of the task scheduler.

**Alarms** (`SensorControl.cpp`, `FailureDetection.java`,
`SensorSimulator.py`). `spc[s]` is the place of sensor `s`'s thread in
`runLoop()`, `channel` counts the fault states on their way, so delivery is in
any order; the reset of a sensor is two steps, its fault state and its flag.

**UOSScheduler** (the Java scheduler and console and the Python database of UOS).
`at[l]` is the place of loop thread `l` in `run()`, `pid` and `targets` are its
locals; `operators` are the clients of the console, in `setMode()` and through
it in `start()` or `stop()`, or in `getCameraImage()`, which no mode keeps out;
`clients` are in `storeProposal()`. Each SQL
statement that others can get in front of is a step. `races` remembers the worst
window that was hit: "tables", if a statement of another came between two that
belong together, "threads", if two loops or two operators met.

**AStar** (`AstarImpl.java`, `Graph.java`, `List.java`, `Node.java`) is an algorithm
without state: `Search` is the loop, with its lists in the order in which the code
keeps them, `RoadAlong` the switch over orientations. `WalledIn` and `Within` are
reference definitions that know nothing of lists.

**LegoFarm** (`NXTImpl.cpp`, `LegoNXTImpl.cpp`, `lestat`, with the coordinator and
its client) composes the search with the vehicles. `vpc` is the place of the
running vehicle in `runVehicle()`, from one call of its device to the next;
`link` is what became of each device, `motion`, `line`, `place` and `heading` are
the brick on the floor. A call of a device whose link failed does nothing, and a
reading is "-1".

**LegoTower** (`legousbtower.c`). A critical section is one step, except where others
can look into it: the loop of `tower_write()` and the control messages.
`tower[d]` are the fields of a structure and `memory[d]` whether it is there;
`files[f]` and `threads[t]` are in their calls; `readsleep` is the time between
`up()` and the wait queue, in which a wake-up is missed. `held` and `lost` remember
which bytes went to which call, and which went with a call that failed. Touching freed memory
(and the two other ways to bring down the kernel) is not undefined further on: it
sets `oops` and all stops, so no property is claimed beyond it.

**LegoMount** (`legoImpl.cpp`, `AltAzImpl.cpp`, `SCTlib.cpp`,
`LegoMountProg5.nqc`). `at` is the next access of the loop to a variable that the
host writes, and each access is a step: the brick answers the host between any two
instructions, and `%=` is several. `target`, `real`, `prev`, `enc` and `state` are the
variables of the program, one for each axis; `actions` are the positions the antenna
has accepted, `mover` the axis its thread writes next. `winding` is where the axis is,
counted from the end of the calibration, and `SENSOR_1` is pressed for `Pressed` of the
`Circle` counts of a turn. `raced` remembers the axes whose write fell between two accesses
of the loop that belong together, `astray` a write of an azimuth that is not `Clear`:
negative, or so close to a full turn that the mount runs on to its touch sensor from below.

The `MC` modules define small instances. An operator named `X_Something` beside
an operator `X` is a plausible slip in that code, kept to show that some property
notices it; nothing uses it.

## 3. Modelling decisions

 * **Memory.** `isRunning`, `stopSchedulerRequest` and `proposalUnderExecution`
   are atomic or volatile. The latch field is neither. A round reads it after
   remote calls, and `stop()` reads it after a volatile write and between
   logging calls, so its reads are modelled as reads of memory in program order;
   more weakly ordered outcomes are not added. The same holds for the flag
   `stopped` of the MARS consumer, read around `sleep()`.
 * **Exceptions.** Every remote call that the code makes may fail in the runs
   with `RemoteFaults`, and its failure goes to the `catch` that takes it.
   `telescopeImpl.cpp` throws `PositionOutOfLimitsEx` where the client has a
   `catch`; whether it arrives as that exception or as a system exception, both
   handlers go on with the next target.
 * **Pictures** are the position the mount pointed at, or `Blank` where the code
   answers an empty image (camera off, no instrument).
 * **Positions** out of limits are a constant set: the code's test is
   `el < 0 && az < 0`, and only with a mount.
 * **The ACS manager** may deactivate the database when nobody holds a reference
   (`DBReleased`) and activates it again; a new reference waits for that. A crash
   or disk error is `MayFail`.
 * **The request to stop** is seen by a round in one step and cleared in another
   (`CutShort`, `ForgetRequest`), so a request that comes in between is lost.
 * **Reports** are a set: the order of rows and the text of errors are left out.
 * **Interrupts** of the MARS consumer only end a sleep that may end at any time
   anyway.
 * **The plain flags of UOS** are read and written as memory in program order: each
   read stands between remote calls, a `join()` or the start of a thread. The
   `currentpid` is left out, since only `proposalUnderExecution()` reads it.
 * **Pictures of UOS** are there or not. `takeImage()` works on a field that
   nobody sets (`cameraOn()` has a local variable of its name) and `observe()`
   deletes its storage before it returns it, so their content means nothing.
 * **The floor of the farm.** A drive ends at the next line as the sensors see it,
   in any order of left and right; a limited movement ends by itself. Positions
   are those of the table, and a vehicle begins where its table says. The commands to the
   two motors are one step (`Motors`): the vehicle makes no other call between them, and
   what the wheels do meanwhile is no more than the abstraction of a motion leaves open. A
   link that fails between them leaves one wheel on; of vehicles whose link has failed
   nothing is claimed.
 * **A run state that nobody returned.** `getMotorState()` has ways out without a
   return statement; the caller may find any run state.
 * **The brick of the mount.** Its integers have 16 bits and its division truncates;
   the assumption on the constants keeps every product within them, as the calibration
   of the real mount does. A variable that was not initialized holds any of `Garbage`.
   The calibration (63-139) is over when the model begins: its result is the number of
   counts of each axis, of which the elevation's is taken negative. The motors turn while
   the loop waits, at most `Speed` counts and no further than the cables allow (`Reach`).
   The power of the motors only changes how fast they are.
 * **The touch sensor of the mount** is pressed over a stretch of each turn, `Pressed`
   counts wide. It cannot be narrower than what a motor turns in a wait: the calibration
   looks at it once a wait with the motor on (117-119, 131-134), so a narrower one would
   be run over; this is `Speed <= Pressed` in the assumption. The loop clears the encoder
   wherever on that stretch it is (190). The calibration ends when it finds the sensor
   pressed again, up to a wait late, which gives `Turn` its range (for `Lead` and `late`
   less than `Speed`).
 * **Failing calls of the tower.** A `read()` that times out, gets a signal or finds a bad
   address answers an error and no count, whatever it has copied before (c:480-488,
   498-501): those bytes go to `lost`. A bad address leaves the buffer as it is.
 * **Undefined memory.** In the tower driver a structure that was freed is "gone",
   as is one that `tower_probe()` leaks; only the first can be touched.
 * **Bounds.** `MaxStores` bounds calls of `storeProposal` and crashes together, `Rounds`
   the number of rounds, `Callers` the ORB threads, `Tags` the requests of the task
   scheduler (`Endless` are requests without a bound, of which one of a kind waits at a
   time), `MaxTrips` the trips of sensors, `MaxLoops` the threads of the UOS scheduler,
   `MaxPid` and `MaxRow` its tables, `MaxBroken` the links of the farm, `NDevs`,
   `MaxBytes` and `MaxCount` plugs, bytes and requests of the tower, `MaxMoves` the calls
   of the LEGO telescope. No property but the liveness ones is about what happens when
   they are used up.

## 4. Runs

| Run | Module, configuration | States | Question |
|---|---|---|---|
| `db` | MCDataBase | 216,618 | Does the database keep its promise across removals, orderly restarts, crashes and cut files? |
| `sched_rounds` | MCScheduler, `_rounds` | about 384,000 | Do two callers of `start()` ever get two rounds, with every call failing and the database coming and going? |
| `sched_service` | MCScheduler, `_service` | 35,958 | Without stop and faults, is the whole the observation service, and does every fetched proposal become ready? |
| `sched_stop` | MCScheduler, `_stop` | 84,302 | What survives a `stop()` at any moment whose wait may expire, so that two rounds overlap? |
| `console` | MCConsole | 639,867 | Is no movement by hand under way while a round runs, and do pictures show their targets? |
| `tasks` | MCTaskScheduler | 218,236 | Order, truth of reports, parking, progress and the end of the consumer under failures, with and without an endless supply of automatic blocks. |
| `alarms` | MCAlarms | 187,357 | Is an alarm ever lost between two sensors that trip at any moment and the consumer? |
| `farm` | MCLegoFarm | 401,545 | Do vehicles arrive on the shortest roads, without meeting, whatever link fails? |
| `tower` | MCLegoTower | 1,068,700 | Does the driver keep the bytes of two readers, files, devices and memory in order, while devices come and go? |
| `tower_calls` | MCLegoTower, `_calls` | 57,064 | Does every call of the driver return, with two threads that write and one that reads? |
| `uos` | MCUOSScheduler | 754,948 | What do flags without a lock and tables without transactions still guarantee? |
| `mount` | MCLegoMount | 1,275,654 | Does the mount stay in its turn, and come to rest where it was last sent, whatever is written or lost, with a wide touch sensor? |

**db.** `CounterCoversMap`: the counter is at least every pid stored with it, in
the object and in every file a crash can leave; otherwise `storeProposal` would
overwrite a proposal. `PidsNeverReissued`: between two crashes no pid is handed
out twice. `StoredImagesAreFinal`: no step replaces an image.
`ImplementsStore`: all of it, the three writes of `cleanUp` included, is the
abstract store, in which a crash takes the map back to what the last
deactivation kept. `MaxStores` = 3 allows three proposals, or two and a crash
between them, and any number of orderly restarts; one target list has a tid
twice, so that the search for the slot has something to go wrong on, the other
is empty; two images tell a picture that was replaced. `DBTypeOK` and
`SchedulerTypeOK` are conjuncts of `ConsoleTypeOK`, which `console` checks, and
`TSTypeOK` is one of `AlarmsTypeOK`, which `alarms` checks.

**sched_rounds.** Two callers, two rounds, two proposals, all faults, a telescope
without mount. `OneRoundAtATime` is stated without `stop()`: with it two rounds
do overlap (section 8).

**sched_service.** `FetchedGetsReady` and `RoundsEnd` are the progress of a
round through deactivations of the database; `ImplementsService` says that a
picture is stored for its own target, proposals do not overlap, and the status
only advances. `ReportedProposal`: while a round observes, the pid answered by
`proposalUnderExecution()` is that of its proposal. (What it answers when nothing
is observed is another matter: section 8.) All this
needs the absence of `stop()`: with two rounds the status of a
proposal can go back, since `setProposalStatus` accepts every transition.

**sched_stop.** One caller can produce two overlapping rounds (start, stop whose
wait expires, start). `NoPrematureReady` and `NoOrphanRunning` hold all the same:
the request is only tested between proposals, and a status is only written by a
round that executes the proposal. `EveryStopReturns` holds although the latch
counted down may be the wrong one, thanks to the limit of 60 s, and with the
NullPointerException counted as a return.

**console.** One operator thread, all of its calls. `HandsOffDuringRounds` says that while
a round runs the mode is automatic, but for the moment in which `setMode(True)` returns,
and that no movement by hand is under way, neither one that has passed its test of the
mode nor one that waits for the mount. `ImageShowsItsTarget` says a
stored picture shows its own target or nothing. It is stated as long as no round
was asked to stop (`asked` = {}), since a stop whose wait expires leaves a round
running in manual mode; and with a mount, since `observe()` without one takes a
picture of anywhere. With two console threads the test of `mode` and the movement
leave a window that the run does not claim to be closed.

**tasks.** Two tagged requests of either kind, and beside them an alarm that does not go
away and asks again and again (`MCEndless`); a recipe that names a robot that was not found,
one with two commands, two robots at different distances, all failures, deactivation.
`ReportTellsTruth` compares the flag of the report with what robots confirmed.
`ImplementsRABService` has order and exactly-once. `EveryRABHasItsTurn` excuses a
deactivation and a dead consumer. It claims that automatic blocks get their turn however many
others come, and manual ones if the automatic ones cease (`AlarmsCease`): `getNext()` asks
for automatic ones first (`TwoParallelFIFOs.java:46`), so an endless supply starves the
operator, and TLC finds that behaviour when the premise is left out. So it is with
`StoppedConsumerEnds`: the flag is tested only when the queue is empty.

**alarms.** Two sensors, two trips, so one sensor can trip again while its first
alarm is anywhere. The interesting case is a trip between the two steps of
`reset()`: its flag is cleared unseen. It is saved only because the fault state
pushed before (descriptor TERMINATE) is turned into a RAB like an alarm.
`AlarmNeverLost` therefore breaks under the obvious repair of the loop of section
8, which is to drop TERMINATE fault states: `FaultStateReceived_ActiveOnly` is
that repair. A repair has to clear the flag first and announce it afterwards, or
test the flag again.

**farm.** A floor of three by three has corners, edges and an inner cell, detours
and vehicles that are walled in; three vehicles are one that goes earlier and one
that goes later than another; the 80 tables differ in who stands in whose way.
One link may be missing, fail to connect or fail at any moment. `ShortestRoad`
compares the road with the cells that can be reached at all in fewer moves, and
`GivesUpOnlyWalledIn` an exception with a wall: both hold although `searchMinF()`
compares with the first node only (`List.java:26`) and a closed cell is never opened
again; section 6 says why. `ArrivesThere` puts together
plan, search, turns and driving: the last vehicle arrives only if each of them is
right, and faces north, as the road of its next run assumes. `NoCollision` needs
that all links hold; a vehicle that was cut off drives on until it leaves the floor.

**tower.** Two files compete for one minor and two structures, so that a tower can come
back in a structure of its own after the first was freed, with files that still point to
that one. Two threads read from one of the files, one or two bytes each, with a timeout
that is positive or over: reads are whole, take their bytes in two parts with the other
thread in between, or fail half way. Four bytes fill the buffer of packets of one byte and
overflow it; the other device sends none. The threads are alike (`Twins`), and no property
of this run is a liveness property. `ReadsInOrder` speaks of the stream and of the calls:
each byte is copied to one of them, in order, and those of a call that failed come to
nobody else. `FreedOnlyByARefusal` says that memory goes away under a file on one way
only: a second open is refused after the device was unplugged (c:286-320, c:396-398).

**tower_calls.** Two threads share a file; both write, one also reads and sets timeouts:
positive, zero and negative; signals at any moment. Nothing is assumed of the hub.
`CallsReturn` excuses the semaphore that `tower_write()` keeps when it returns with a
signal pending (c:568-570). Of writes it claims that they return if the other threads on
the file do not write for ever (`OthersCease`): `tower_write()` reads its timeout anew on
each pass (c:565), and a writer that finds the packet of the other in progress each time
it wakes sleeps again, which TLC finds when the premise is left out. A read goes on with
what is left of its timeout (c:492).

**uos.** One operator, one client, two loops, two targets with ids that may be row
numbers in or out of order. `HandsOff` says that the console's tests of the mode keep the
operator from the switches and the telescope during a round, and that the loop observes
with the camera on; it says nothing of `getCameraImage()`, which may come into any round,
as it does here. `HandsOff` and `ReadyHasImages` are claimed outside of
the windows which `races` names, and the run goes into these windows too.
`ReadyHasImages` holds although `getProposals()` gives row numbers for ids
(`DataBase.py:211`) because a picture that finds no row ends the loop before the
proposal is marked. One pid is enough for it, since a pid is given away again after
a removal. `StopReturns` holds even for a loop that an exception ended, as a
thread that is over can be joined.

**mount.** Eight degrees of azimuth and four of elevation of one count each, a touch sensor
that is pressed over three counts, a range of two counts and motors that turn at most two
counts while the loop waits: small enough for every interleaving of two positions with the
loop, and large enough that a target is reached in several rounds and the sensor is wider
than the range around a target. One position is beyond a turn of azimuth (9) and above
the highest elevation, the other is below the lowest and on the last degree before the turn is full
(7): there the mount runs on to its sensor from below, the encoder is cleared, and the way
begins again. `NoWindup` therefore excuses azimuths that are not `Clear`, and `ComesToRest` those
where the last one written is not; what was written before it does not matter. Each write may
be lost. `NoWindup` depends on a motor that cannot overrun the range around a target
(`Speed` <= `ENC_RANGE` + 1); the code has ENC_AZIM_RANGE = 5 and a wait of one period.
`ComesToRest` claims of the azimuth that it ends near where the brick was last told, and of
the elevation that its motor is switched off: where it stands then the loop itself has
changed (section 8). Both excuse an axis with a write in one of the windows `raced` names: one that
`%=` overwrites; one between the calculation of an encoder target and the assignment to
`prev_..`, which then takes every repetition for known; one of 0 before the first test; and one
beyond a turn that is read before the next `%=`. Only azimuths that are not negative are sent.

## 5. Fairness

Safety runs assume none. The liveness runs assume weak fairness of each thread
that the code starts and of each call under way: Java and C++ threads that can
run do run, and a blocked call is not enabled. `StartRound` has strong fairness:
`getComponent` needs the database to be up, the manager deactivates and
activates it again and again, and serves a pending request in between. The
alarm channel delivers (weak fairness of delivery or of its failure). Nobody has
to call `start()`, to submit, to trip or to deactivate. `AwaitExpires` in
`sched_stop` is the clock of `await(60, SECONDS)`; the step is fair because
time passes.

In the farm the client and the driving vehicle are fair and so are the bricks; that the
search ends is stated as such (`[]<>(vpc # "road")`, one of its two ends is always
possible). Links need not fail. In the tower driver a thread's own steps and the end of an
outgoing transfer are weakly fair, taking a semaphore is strongly fair, since others raise
and take it again; nobody has to call, plug or send a signal, and no byte has to come.
Reads end because the bytes of a run are bounded (`MaxBytes`) and their timeout is finite:
a byte that comes only shortens the call. Writes have no such end, hence `OthersCease`. In
UOS the loops and the calls under way are weakly fair and no remote call has to fail: it
returns or it does. A picture by hand need not end. In the task scheduler nobody has to
ask again (`RequestAgain`), but may for ever. The brick of the mount runs its loop and the
antenna its action thread; a write may be lost, and `ComesToRest` is about the last that
was not.

`CHECK_DEADLOCK FALSE` appears in `tasks`, `alarms`, `farm`, both tower runs and
`uos`, where the system may stop: the consumer ends or dies and all requests are
used up, the client of the farm is done, the kernel has stopped, no thread is left
for `start()`.

## 6. Proofs

All proofs hold for any values of the constants that satisfy the named assumptions of the
modules (`DBAssumption`, `SchedulerAssumption`, `ConsoleAssumption`,
`TaskSchedulerAssumption`, `NoRABAssumption`, `AlarmsAssumption`, `UOSAssumption`,
`TowerAssumption`, `LegoMountAssumption`, `FloorAssumption`, `FarmAssumption`): sets of
identifiers, special values outside of the sets they are added to, sizes and ranges. Where
a theorem assumes more, its `ASSUME` says so. The runs evaluate all of these, and
`MCLegoFarm` the two that the theorems on the farm take for granted (`TheoremsApply`).

**DataBase_proofs.** `DBTypeCorrect`: `DBTypeOK` is inductive, with a lemma for
each call that builds or changes an entry. `CounterAlwaysCoversMap`: inductive
with the type invariant; the file is cut pid first, so a cut file has the counter
and no map. `PidsAreNeverReissued` needs a strengthening, `CounterRemembers`: the
counter, of the object or of the file if the object is gone, is at least every
pid returned since the last loss. `StoredImagesStayFinal` follows for each step
from the type invariant, `CounterCoversMap` (a new proposal is not an old one)
and `DownIsEmpty` (an object that is gone holds nothing that a restart could
change). `DBImplementsStore` is the refinement: initial states map to initial
states, and under these invariants each step is a step of `ProposalStore` or
leaves the view unchanged; activation and the writes of `cleanUp` are stutters.

**Scheduler_proofs.** `RoundsExclude`: the invariant `ControlOK /\ Exclusion`.
`OneRoundAtATime` alone is not inductive: it does not say that a caller between
`getAndSet` and the creation of the thread excludes rounds and other such
callers. `Exclusion` says that `isRunning` is held by exactly one call or round.
`RoundStepMoves` reduces the twenty-odd actions of a round to two cases: it stays
alive and keeps the flag, or ends and gives it back.

`SchedulerTypeCorrect` rests on `SchedulerTypes`, which says of each place in `run()`
which locals hold what, and with it that what a round gives to the database are pids,
targets and pictures. `ReadyIsEarned` is `NoPrematureReady` for any number of rounds,
with `stop()`, faults, removals and deactivations. Two rounds that overlap may carry
the same proposal, and a proposal may be removed while a round has it; so the
invariant `EarnedInv` says three things: a snapshot has the targets that the database
has under its pid (`SnapshotsAgree`), a round has tried the targets before its
`index`, and what is ready has been tried. It assumes `~MayFail`, since after a crash
the database may give the same pid to another proposal. `NobodyIsStranded` is
`NoOrphanRunning` from `RunningIsServed`, that a proposal marked running is the one
some round has at hand, and `Served`, that a round finds the database up from its
start until it releases it. It needs that no exception ends a round: not of a remote call
(`~RemoteFaults`), and not of a database that a second round released
(`~DBReleased \/ ~Stops`). `PidIsReported` is `ReportedProposal` from `Exclusion` and
the place at which a round sets the pid; it holds with failures and crashes.

`ServiceImplemented` is the refinement of the service: start() calls,
rounds, submissions, removals and deactivations of the database, any number of them and
interleaved as they may be, are steps of `ObservationService` or stutters. The service
sees the map of the database, which only `MarkRunning`, `KeepImage`, `MarkReady` and
the clients change (`ViewSteps`). That each of them is a step of the service is the
invariant `ServiceInv`. On top of `Served`, `RunningIsServed` and `SnapshotsAgree` it
says where a proposal in the hands of a round is in its life (`InStep`: what is still
to do is queued and there is no second copy of it, what is at hand is queued before
`MarkRunning` and running after it, unless its owner has removed it) and that the mount
and the picture belong to the target at hand (`Seen`). `OwnStepInStep` is about the
round that has the telescope; the others are over (`OthersAreOver`, from `Exclusion`) or
not born (`QuietInStep`). The theorem assumes no `stop()`, no crash, no failing
call, a telescope with its mount, and `DistinctTids`. None can be dropped: TLC refutes
`ImplementsService` in an instance that leaves out just that one (with `stop()`, three
rounds are needed if its wait does not expire).

In the same module, on the console: `ConsoleTypeCorrect`, for any number of console
threads. `OperatorKeepsHandsOff` and `ImagesShowTheirTargets` for one (`OneThread`). The
invariant of the first, `HandsOff`, adds to the property that `isRunning` is the lock that
it is without `stop()`, and that the thread, whenever it moves the telescope or changes
the mode by itself, has seen that no round runs: a thread past its test of the mode has
found manual mode, which is left only by the same thread and only after the movement. The
second has the invariant `Pictures`: from the movement to the exposure the mount points at
the target of the round, which holds because rounds exclude each other and hands are off,
and what is stored is what was taken. It assumes that no target list has a tid twice
(`DistinctTids`) and no crash: each lets a picture come to another target.

**Alarms_proofs**, first on `TaskScheduler`: `TSTypeCorrect` and `RobotsAlwaysComeHome`, the latter
inductive with the type invariant (which ties `robot` to the place of the
consumer). `ReportsTellTruth` has the invariant `WorkedOK`: the commands left are a
rest of the recipe, the robot is the one the command names or a nearest one, and
the jobs done so far are the ones before that rest exactly while the flag says
success.

`RABServiceImplemented` is the refinement of the service: each step of queue
and consumer is a step of the service or a stutter. A RAB may be given up only if
the base lacks a robot for it, so the proof needs that a robot is found if there is
one at all: the squared distances of the parked robots have a least element, by the
well-foundedness of the naturals. `FailureHasReason` says what a flag that is false
means: a call failed or no robot was found.

Then on `Alarms`: `AlarmsTypeCorrect`, and `AlarmsAreNeverLost` with the
strengthening `ResetIsCovered`: between the two steps of `reset()` the sensor's
own fault state, or the RAB it became, is still on its way, since the only one
who could take it from the queue is the thread that is in `reset()`. Without it
clearing the flag could lose a trip. The lemmas on channel and queue say what
each step leaves on its way.

**UOSScheduler_proofs.** `UOSHandsOff`: `HandsOff` for any number of loops, operators
and clients. The invariant is `UOSInv`, the types and, as long as no two loops or
operators met, `Calm`: one loop at a time and one operator in a call, a loop that
runs is the one in the field and has set `startValidator`, a loop that works does so
in automatic mode or under an operator who is on his way through `stop()`, and
nobody has cleared `loopValidator` but such an operator. `HandsOff` alone is not
inductive: that the mode is still automatic when a round begins follows from what
`start()` and `stop()` have left in the flags. `LoopMoves` reduces the steps of a loop
to those that change a flag, and the rest.

`ReadyOnlyWithImages` is `ReadyHasImages` for any clients, target ids and rows. The
invariant is `TablesInv`: the tables are as typed, a loop is in its observations exactly
while it has targets left (`ListsFit`), and while no window of the tables was hit and no
two loops or operators met (`Undisturbed`), a proposal into which a client is still storing is
queued, one that is marked running belongs to the loop that marked it, and that loop has got
an image for each `ROWID` it has observed (`GotImages`). That the last
observation leaves no row without an image does not follow row by row: the loop takes
the picture of a `ROWID` and stores it in the first row whose `target_id`, given by the client,
is that number. It follows by counting (`AllIllustrated`): when all were observed, each
`ROWID` is named by a row of its own that has an image, different ones by different rows,
and there are only so many rows. `MaxRow` makes them finitely many.

**LegoTower_proofs.** `TowerInvariance`: `TowerInv` is inductive, for any numbers of
devices, minors, files and threads, and any sizes of packets, buffers and calls. Its parts
build on each other. `TableLocked` and `DeviceLocked` say who holds `minor_table_mutex`
and the semaphore of each device: just the file, hub or thread that is at a place where
its call has it, and that the structure it has looked up is still there then. `Counts`
ties `open_count` to the files that have a structure (0, or 1 and one file), the table to
the structures that are live, each under its own minor, and says that no transfer runs for
a device that nobody has. None of these is inductive alone: `open_count` is tested and
changed by calls that hold one lock, the other or both. `Streams` is about the reads: what
the callers were given and what the read buffer holds, one after the other (`Stream`), are
the bytes that came but for those of packets that found no room, each once and in order.
`Hands`, proved next to it, divides what was read among the calls: those in progress hold
bytes of their own, in order, of which none was lost with another call; a copy gives its
bytes, which come after all that were read before, to one of them. From these follow
`TowerTypesOK`, `EveryDeviceOneFile`, `ReadsStayInOrder` and the action property
`OnlyARefusalFrees`. `SemaphoresExclude` draws from the locks what they are there for: of
the threads that share a file, one at most is in the loop of `tower_write()` or in a
control message. Where the driver would touch freed memory the model stops (`oops`), and
the theorems claim nothing beyond.

**LegoMount_proofs.** The scales of the calibration are quotients by constants that are
not known, so the proofs begin with lemmas on division as the brick does it (towards
0), on remainders and on numbers that agree modulo a turn; the solver finds those when
each is asked for by itself and `%` is kept behind a name afterwards. `MountTypesOK`: angles and
products fit 16 bits, and the encoder of the azimuth counts from a place that presses the
touch sensor, because that is where it is cleared, however wide the sensor is.
`StaysWithinTheTurn` is `NoWindup` with the invariant `Steady`: until a write of
the azimuth comes between two accesses that belong together or is not `Clear`, the axis is between
the near end of the touch sensor and its far end below; the encoder counts from a place on that
sensor, so it differs from the axis by less than its width; the target is less than
`AZIMUTH_MAX` from the remainder to the scaling (`Reduced`); the register holds a remainder
(`Reducing`); the first target is not the 0 that the memory of the loop begins with, so the
scaled target is not what the variable happened to hold (`Unscaled`); and a motor is on only if it
has more than `ENC_RANGE` to go (`Driven`). The theorem assumes `Speed <= ENC_RANGE + 1`, as an
overrun leaves the turn; that `Clear` cannot be left out of the property TLC shows in the run.

**AStar_proofs.** The search, the way back and the road are recursive functions, and
what such a function computes has to be proved by induction. The installed provers cannot
use the induction theorems that take an operator, so the module has its own: a set of
numbers with 0 that goes on from each number to the next has them all
(`NatSetInduction`), and a step on a set can be repeated any number of times
(`Recursion`). With these a recursive function unrolls (`SearchIsRounds`, `WayBacks`,
`RoadGrows`), and what each round keeps holds at the end.

The invariant of a round is `SearchOK`: lists without a cell twice; a closed node's father was
closed before it, in a neighbouring cell (`Descends`); and as long as the finish is not closed,
what borders on a closed cell is closed, open or blocked (`Bordered`). From it follow
both outcomes (`SearchResult`): either the finish is closed, or the closed cells are the
room of `WalledIn`. Since each round closes another cell, `Size * Size` rounds are enough
(`DistinctIsShort`). The fathers lead back to the start over ever earlier nodes
(`WayIsOK`), so a way has no step back, and the reversals for which the switch of
`getSolution()` has no case never occur (`NoReversal`). Hence the road takes a vehicle
cell by cell along that way and turns it north again (`RoadTakes`, in `LegoFarm_proofs`).

`ShortestWay`: a road drives to no more cells than it must. The usual argument for such a search is
that it closes a node with the least estimate, and `searchMinF()` need not do
so: it compares every node with the first only. It does all the same, because of `TwoSums`:
what the open nodes have of moves made plus moves estimated is one number or that number
and two more, so the last node below the first has the least. That in turn needs
that a move changes the sum by 0 or 2, which is so because all moves cost the same and the
estimate counts rows and columns. With it goes `Tight`: what
the nodes have of moves made is what the cells are away from the start, for closed nodes
exactly, so it does not matter that none is opened again. A round keeps both (`RoundTight`);
`NoShorter` and `WayCost` draw the conclusion for the way, `RoadMoves` for the road.

`FewBlocked` bounds the length of a road when fewer cells are blocked than the floor has
rows. A blocked cell spoils one row and one column, so some are free all along, the
*streets* (`FewBad`), and any two cells on streets are at most `(Size - 1) +
Roundabout(b)` moves apart (`AlongStreets`). The cells on no street, the *corners*, are
where a spoiled row meets a spoiled column and no blocked cell is: `b * b - b` at most
(`FewCorners`). A shortest way is at each corner once at most, and between its first and
its last stop on a street it makes no detour (`NoShortcut`). That is `Longest(b)` moves,
and a road has a turn and a move for each and a last turn.

**LegoFarm_proofs** extends it. The state invariant is `FarmInv`. A vehicle that has not
begun is where it was set down (`Parked`), one that is done and whose link holds is at its
destination (`There`), the grids are the plans (`Planned`), and the one that runs is on
its route: `Route` is the sequence of poses along its road, and `OnRoad` says for each
place of `runVehicle()` at which of them it is, what its motors do and what its sensors
see. `ArrivesThere` alone is not inductive by far; it is what `OnRoad` says at the end of
the road. `NobodyCollides`: the vehicle that runs is in a cell which its plan has free
(`DriverOnFreeCell`), and its plan blocks the start of those who go later and the end of
those who went earlier (`PlanOK`). `RoadsAreShortest` carries `ShortestWay` to the farm:
the road a vehicle has when it sets out is the one found for its plan (`Fetched`).

These theorems assume `ApartTables`, that a table has no cell twice: the marks
of a cell overwrite each other otherwise. That is so for the table of the client
(`coordinatorTestClient.py:20`). `ThrowsOnlyWalledIn` also assumes `RoadsFit`: a road
that is too long for its array ends in the same exception. `LongArraysFit` shows that it
holds when the array has room for two actions in each cell, but the array of the code, 36
for 6 by 6 cells, is half of that. `ArraysFit` is about such arrays: a plan blocks one
cell at most for each other vehicle (`OneBlockedEach`), and `FewBlocked` bounds the road.
With the 4 vehicles that `setObjective()` looks at, a road has 35 actions at most.
`ThrowsOnlyWalledInHere` is the theorem for the numbers of the code, with `ApartTables` as its only
assumption about the tables.

## 7. What is only model-checked

Liveness (`FetchedGetsReady`, `RoundsEnd`, `EveryStopReturns`,
`EveryRABHasItsTurn`, `StoppedConsumerEnds`, `EveryAlarmAnswered`, `RunsEnd`,
`CallsReturn`, `StopReturns`, `ComesToRest`) is out of the prover's reach, as is
ENABLED. Every other property of the runs is stated by a theorem.

## 8. Disagreements between code and texts

They came to light in the models, and a look at the lines settles each.

 * `Scheduler.idl:64-65`: `stop()` "will return only when the running observation
   has finished". The latch is created by the new thread (`SchedulerImpl.java:60`);
   a `stop()` before finds null (223) and returns, and clears `isRunning`, so that
   even a second round may start. The wait may also expire (226).
 * `Scheduler.idl:52-53`: the scheduler
   loops "either until all proposals are done or until the stop method is
   called". `stop()` sets `stopSchedulerRequest` (`SchedulerImpl.java:220`) also
   when nothing runs, and only a round that sees it clears it (147): the next
   round ends before its first proposal.
 * `Scheduler.idl:73-80`: `proposalUnderExecution()` "raises exception if no proposal is
   executing". `SchedulerImpl.java:177-179` declares it and returns the field: -1, or the pid of the
   last proposal for as long as a round has not cleared it (151).
 * `RABQueueConsumer.java:50`: "do nothing, but
   carry on regardless". The block is a `finally`, so the exception goes on and
   ends the consumer.
 * `TaskScheduler.java:343`: "Reset the alarm
   sensor if this is an automatic command". The reset announces itself with a
   TERMINATE fault state (`SensorControl.cpp:144`), `FailureDetection.java:123`
   takes it for an alarm, and so for ever. While it lasts, manual blocks starve, since
   `TwoParallelFIFOs.java:46` gives automatic ones first, and a consumer told to stop
   goes on, since it tests the flag with an empty queue only.
 * `legousbtower.c:286`: "the cleanup code will decrement the count to 1". After an
   unplug it deletes the device instead, under the file that has it.
 * `legousbtower.c:480-488`: a `read()` that runs into its timeout or a signal after it
   has copied and removed bytes returns an error instead of `bytes_read` (518), so they
   are lost. And `write_timeout` (565) begins anew on each pass: with two writers on a
   file a write may take for ever.
 * `DataBase.py:197` of UOS: "Returns stored proposals which have not been executed
   yet"; `getProposals()` returns all of them, and the loop skips the others.
 * `SchedulerImpl.java:166,190` of UOS: "Raises an exception if called twice";
   `start()` and `stop()` only log a warning.
 * `Console.idl:106-107` of UOS names SystemInAutoModeEx for `getCameraImage()`, in a
   `raises` that is commented out; `ConsoleImpl.java:126-140` asks the instrument without
   a test of the mode, unlike the switches, so an operator's exposure may fall into one of
   a round.
 * `LegoMountProg5.nqc:57-60`: the loop will "guide the mount from actual to target
   position". An azimuth nearer to a full turn than the touch sensor is wide is never reached: the
   mount comes on to the sensor from below, the encoder is cleared (190), and it sets out on another
   turn. When it starts the motor of the elevation it overwrites
   `target_elevation` with the position of that moment (172, 181), so the mount
   stops on the way in elevation, at the position it had when the next round scaled that target.
 * `Telescope.idl:24`: "Moves to the given position and takes an exposure".
   `observe()` of the LEGO telescope (`legoImpl.cpp:28`) takes it as soon as the
   movement is queued (`AltAzImpl.cpp:133`).
 * `SCTdefs.h:33` defines a least azimuth of 0, AZIMUTH_MIN, which nothing uses: a
   negative azimuth stays negative under `%=` (157), and the position is never reached.

## 9. Not modelled

The pure queries (`getMode`, `getRobotsList`, `getCurrentPosition`, the report
queries) change nothing. Not modelled are the life cycles of the MARS components
other than the task scheduler's, the SQL of the report tables, device drivers and
firmware (I/O with fixed command strings), user interfaces, generated and
third-party code. `nqc-3.1.r1`, a compiler with its lexer and parser tables and
the definitions of its byte code, is most of what the repository holds; nothing of
the three projects changes it or depends on more than its command line.
Of the LEGO telescope the picture of `observe()`, `park()`, `stop()`, the frames of the
link with their toggle bit and the calibration are left out.
Of the LEGO farm the bytes of the commands and the USB link are left out, and the
fifth vehicle: `setObjective()` looks at four entries of the table, so it never gets
an objective. `PROJECT.json` lists under "hazards" also what no property
covers, each with the reason.

## 10. Plan

Done, in this order: DataBase with its store and proofs; Scheduler with the
telescope; Console; the queue and TaskScheduler; Alarms; the disagreements; the
theorems on these; AStar and LegoFarm; LegoTower; UOSScheduler with its theorem;
the remaining theorems on scheduler, console and task scheduler, with the refinements
of `RABService` and of `ObservationService`; LegoMount; the invariants of the tower
driver, `ReadyHasImages`, those of the mount and those of the farm; the shortest roads, the
bound on their length and the exclusion by the semaphores of the tower.

Next, as model:

 1. `ReportDesk`: the report table of `TRD.java` (insert and read of the last id
    are two connections) with the lists that `OCimpl.py` keeps in fields.
 2. `FailureDetection` start-up: the listener is connected before the reference
    to the task scheduler is set.
 3. The frames of the mount's link (`SCTlib.cpp`): the toggle bit with which the brick
    tells a repeated command, and replies that are cut or arrive late.

Next, as proof: `ArraysFit` for more vehicles than rows, where the search may have no free
row to count by; the state invariants that the liveness properties rest on, such as a
bound on the steps that a run of a vehicle has left.
