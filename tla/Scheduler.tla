------------------------------ MODULE Scheduler ------------------------------
(***************************************************************************)
(* The SORT scheduler component, SchedulerImpl.java, with the database and *)
(* the telescope it drives.  start() creates a thread that makes one round *)
(* of observations over the queued proposals; stop() asks the round to end *)
(* and waits for it.  Round and callers share the fields below without a   *)
(* lock, so every access to a field is a step of its own.  The field of    *)
(* the latch is not even volatile; its reads come from memory in program   *)
(* order, behind a volatile write or a remote call.  The latch that round  *)
(* r creates is called r.                                                  *)
(***************************************************************************)
EXTENDS DataBase, FiniteSets

CONSTANTS Rounds,        \* the threads start() may create, one per round
          Callers,       \* the ORB threads that serve start() and stop()
          Null,          \* Java's null
          Blank,         \* the picture taken while the camera is not on
          OutOfLimits,   \* positions moveTo refuses
          Stops,         \* TRUE: stop() is called at all
          AwaitExpires,  \* TRUE: the 60 s of await may pass
          RemoteFaults,  \* TRUE: calls to other components may fail
          MountFound,    \* TRUE: the telescope component has got its mount
          DBReleased     \* TRUE: the manager may deactivate an unused database

ASSUME SchedulerAssumption ==
    /\ Images = Positions \cup {Blank}
    /\ Blank \notin Positions
    /\ Null \notin Rounds
    /\ OutOfLimits \subseteq Positions
    /\ {Stops, AwaitExpires, RemoteFaults, MountFound, DBReleased} \subseteq BOOLEAN

VARIABLES isRunning, stopSchedulerRequest, proposalUnderExecution,
          telescopeFinishedSync,  \* a latch or Null
          released,               \* the latches that were counted down
          dbHeld,                 \* the container holds a reference to DATABASE
          rpc, todo, current, index, image,  \* the locals of each round
          cpc, awaited,           \* the locals of each caller
          aim,                    \* where the mount points
          attempted,              \* history: <<pid, i>> of targets a round tried
          asked                   \* history: rounds alive at a call of stop()

flags   == <<isRunning, stopSchedulerRequest, proposalUnderExecution,
             telescopeFinishedSync, released>>
locals  == <<todo, current, index, image>>
callers == <<cpc, awaited>>
history == <<attempted, asked>>
vars    == <<dbVars, flags, dbHeld, rpc, locals, callers, aim, history>>

NoProposal == [pid |-> -1, targets |-> <<>>]

Alive(r)     == rpc[r] \notin {"unborn", "dead"}
Executing(r) == rpc[r] \in {"cameraOn", "target", "moving", "expose", "store",
                            "cameraOff", "ready"}

At(r, here)     == rpc[r] = here
Goto(r, there)  == rpc' = [rpc EXCEPT ![r] = there]
CallerAt(c, here)    == cpc[c] = here
CallerGoto(c, there) == cpc' = [cpc EXCEPT ![c] = there]

-----------------------------------------------------------------------------
\* start(): getAndSet, the three getComponent calls, the new thread.

\* The bound on start(): a thread is left for every start() under way.
ThreadsLeft == Cardinality({c \in Callers : CallerAt(c, "starting")})
                 < Cardinality({r \in Rounds : At(r, "unborn")})

\* Mutant: the flag is set without the test of getAndSet.
Start_NoTest(c) ==
    /\ ThreadsLeft
    /\ CallerAt(c, "idle")
    /\ isRunning' = TRUE
    /\ CallerGoto(c, "starting")
    /\ UNCHANGED <<dbVars, stopSchedulerRequest, proposalUnderExecution,
                   telescopeFinishedSync, released, dbHeld, rpc, locals,
                   awaited, aim, history>>

Start(c) ==
    /\ ThreadsLeft
    /\ CallerAt(c, "idle")
    /\ ~isRunning               \* else SchedulerAlreadyRunningEx
    /\ isRunning' = TRUE
    /\ CallerGoto(c, "starting")
    /\ UNCHANGED <<dbVars, stopSchedulerRequest, proposalUnderExecution,
                   telescopeFinishedSync, released, dbHeld, rpc, locals,
                   awaited, aim, history>>

StartRound(c) ==
    /\ CallerAt(c, "starting")
    /\ dbState = "up"
    /\ \E r \in Rounds : At(r, "unborn") /\ Goto(r, "new")
    /\ dbHeld' = TRUE
    /\ CallerGoto(c, "idle")
    /\ UNCHANGED <<dbVars, flags, locals, awaited, aim, history>>

\* A component that cannot be had is reported as AlreadyRunning as well.
StartFails(c) ==
    /\ RemoteFaults
    /\ CallerAt(c, "starting")
    /\ CallerGoto(c, "idle")
    /\ UNCHANGED <<dbVars, flags, dbHeld, rpc, locals, awaited, aim, history>>

\* stop(): the request, two reads of the latch field, the wait, the flag.

Stop(c) ==
    /\ Stops
    /\ CallerAt(c, "idle")
    /\ stopSchedulerRequest' = TRUE
    /\ asked' = asked \cup {r \in Rounds : Alive(r)}
    /\ CallerGoto(c, "requested")
    /\ UNCHANGED <<dbVars, isRunning, proposalUnderExecution, attempted, aim,
                   telescopeFinishedSync, released, dbHeld, rpc, locals, awaited>>

StopTestsLatch(c) ==
    /\ CallerAt(c, "requested")
    /\ CallerGoto(c, IF telescopeFinishedSync = Null THEN "clearing" ELSE "tested")
    /\ UNCHANGED <<dbVars, flags, dbHeld, rpc, locals, awaited, aim, history>>

\* A field that turned null since the test is a NullPointerException.
StopAwaits(c) ==
    /\ CallerAt(c, "tested")
    /\ awaited' = [awaited EXCEPT ![c] = telescopeFinishedSync]
    /\ CallerGoto(c, IF telescopeFinishedSync = Null THEN "idle" ELSE "waiting")
    /\ UNCHANGED <<dbVars, flags, dbHeld, rpc, locals, aim, history>>

\* Mutant: await() without a time limit.
StopWakes_NoLimit(c) ==
    /\ CallerAt(c, "waiting")
    /\ awaited[c] \in released
    /\ awaited' = [awaited EXCEPT ![c] = Null]
    /\ CallerGoto(c, "clearing")
    /\ UNCHANGED <<dbVars, flags, dbHeld, rpc, locals, aim, history>>

StopWakes(c) ==
    /\ CallerAt(c, "waiting")
    /\ awaited[c] \in released \/ AwaitExpires
    /\ awaited' = [awaited EXCEPT ![c] = Null]
    /\ CallerGoto(c, "clearing")
    /\ UNCHANGED <<dbVars, flags, dbHeld, rpc, locals, aim, history>>

StopReturns(c) ==
    /\ CallerAt(c, "clearing")
    /\ isRunning' = FALSE
    /\ CallerGoto(c, "idle")
    /\ UNCHANGED <<dbVars, stopSchedulerRequest, proposalUnderExecution,
                   telescopeFinishedSync, released, dbHeld, rpc, locals,
                   awaited, aim, history>>

-----------------------------------------------------------------------------
\* The round, executeProposalRun.run().

CreateLatch(r) ==
    /\ At(r, "new")
    /\ telescopeFinishedSync' = r
    /\ Goto(r, "fetch")
    /\ UNCHANGED <<dbVars, isRunning, stopSchedulerRequest, released, dbHeld,
                   proposalUnderExecution, locals, callers, aim, history>>

FetchProposals(r) ==
    /\ At(r, "fetch")
    /\ dbState = "up"
    /\ todo' = [todo EXCEPT ![r] =
                   {[pid |-> p, targets |-> proposals[p].targets] : p \in GetProposals}]
    /\ Goto(r, "loop")
    /\ UNCHANGED <<dbVars, flags, dbHeld, current, index, image, callers, aim, history>>

\* Mutant: the pid is only reported when none is.
NextProposal_PidLate(r) ==
    /\ At(r, "loop")
    /\ ~stopSchedulerRequest
    /\ \E p \in todo[r] :
          /\ current' = [current EXCEPT ![r] = p]
          /\ todo' = [todo EXCEPT ![r] = @ \ {p}]
          /\ proposalUnderExecution' = IF proposalUnderExecution = -1
                                      THEN p.pid ELSE proposalUnderExecution
    /\ Goto(r, "begin")
    /\ UNCHANGED <<dbVars, isRunning, stopSchedulerRequest, telescopeFinishedSync,
                   released, dbHeld, index, image, callers, aim, history>>

\* The head of the loop over the proposals: on to the next one, cut short by a
\* stop request, or done.
NextProposal(r) ==
    /\ At(r, "loop")
    /\ ~stopSchedulerRequest
    /\ \E p \in todo[r] :
          /\ current' = [current EXCEPT ![r] = p]
          /\ todo' = [todo EXCEPT ![r] = @ \ {p}]
          /\ proposalUnderExecution' = p.pid
    /\ Goto(r, "begin")
    /\ UNCHANGED <<dbVars, isRunning, stopSchedulerRequest, telescopeFinishedSync,
                   released, dbHeld, index, image, callers, aim, history>>

\* Mutant: the request is tested before every target.
CutShort_MidProposal(r) ==
    /\ rpc[r] \in {"loop", "target"}
    /\ stopSchedulerRequest
    /\ todo' = [todo EXCEPT ![r] = {}]
    /\ current' = [current EXCEPT ![r] = NoProposal]
    /\ Goto(r, "cut")
    /\ UNCHANGED <<dbVars, flags, dbHeld, index, image, callers, aim, history>>

CutShort(r) ==
    /\ At(r, "loop")
    /\ stopSchedulerRequest
    /\ todo[r] # {}
    /\ todo' = [todo EXCEPT ![r] = {}]
    /\ Goto(r, "cut")
    /\ UNCHANGED <<dbVars, flags, dbHeld, current, index, image, callers, aim, history>>

\* With the request it has seen, the round forgets those that came since.
ForgetRequest(r) ==
    /\ At(r, "cut")
    /\ stopSchedulerRequest' = FALSE
    /\ Goto(r, "epilogue")
    /\ UNCHANGED <<dbVars, isRunning, proposalUnderExecution, telescopeFinishedSync,
                   released, dbHeld, locals, callers, aim, history>>

AllDone(r) ==
    /\ At(r, "loop")
    /\ todo[r] = {}
    /\ Goto(r, "epilogue")
    /\ UNCHANGED <<dbVars, flags, dbHeld, locals, callers, aim, history>>

\* InvalidProposalStatusTransitionEx is printed and the round goes on.
MarkRunning(r) ==
    /\ At(r, "begin")
    /\ SetProposalStatus(current[r].pid, Running)
    /\ Goto(r, "cameraOn")
    /\ UNCHANGED <<flags, dbHeld, locals, callers, aim, history>>

CameraOn(r) ==
    /\ At(r, "cameraOn")
    /\ index' = [index EXCEPT ![r] = 1]
    /\ Goto(r, "target")
    /\ UNCHANGED <<dbVars, flags, dbHeld, todo, current, image, callers, aim, history>>

\* Mutant: the last target is left out.
HasTarget_Short(r) == index[r] < Len(current[r].targets)

HasTarget(r) == index[r] <= Len(current[r].targets)
Sight(r)     == current[r].targets[index[r]]
NextTarget(r) == index' = [index EXCEPT ![r] = @ + 1]

\* telescope.observe(), first half: moveTo() sends the mount to the target.
Move(r) ==
    /\ MountFound
    /\ At(r, "target")
    /\ HasTarget(r)
    /\ Sight(r).pos \notin OutOfLimits
    /\ aim' = Sight(r).pos
    /\ Goto(r, "moving")
    /\ UNCHANGED <<dbVars, flags, dbHeld, locals, callers, history>>

\* moveTo() polls until the mount is where this call wants it.
Arrive(r) ==
    /\ At(r, "moving")
    /\ aim = Sight(r).pos
    /\ Goto(r, "expose")
    /\ UNCHANGED <<dbVars, flags, dbHeld, locals, callers, aim, history>>

\* A telescope without a mount exposes where it is; one without an instrument
\* answers an empty image at once.
ObserveWithoutMount(r) ==
    /\ ~MountFound
    /\ At(r, "target")
    /\ HasTarget(r)
    /\ Goto(r, "expose")
    /\ UNCHANGED <<dbVars, flags, dbHeld, locals, callers, aim, history>>

ObserveWithoutInstrument(r) ==
    /\ RemoteFaults
    /\ At(r, "target")
    /\ HasTarget(r)
    /\ image' = [image EXCEPT ![r] = Blank]
    /\ attempted' = attempted \cup {<<current[r].pid, index[r]>>}
    /\ Goto(r, "store")
    /\ UNCHANGED <<dbVars, flags, dbHeld, todo, current, index, callers, aim, asked>>

\* Second half: takeImage().  CameraIsOffEx gives an empty image and no
\* exception.
Expose(r) ==
    /\ At(r, "expose")
    /\ \E picture \in IF RemoteFaults THEN {aim, Blank} ELSE {aim} :
          image' = [image EXCEPT ![r] = picture]
    /\ attempted' = attempted \cup {<<current[r].pid, index[r]>>}
    /\ Goto(r, "store")
    /\ UNCHANGED <<dbVars, flags, dbHeld, todo, current, index, callers, aim, asked>>

\* On to the next target: PositionOutOfLimitsEx, which moveTo() throws as a
\* pointer that no catch of observe() takes, or a CORBA SystemException.
ObserveFails(r) ==
    /\ \/ /\ MountFound
          /\ At(r, "target") /\ HasTarget(r) /\ Sight(r).pos \in OutOfLimits
       \/ RemoteFaults /\ rpc[r] \in {"moving", "expose"}
    /\ attempted' = attempted \cup {<<current[r].pid, index[r]>>}
    /\ NextTarget(r)
    /\ Goto(r, "target")
    /\ UNCHANGED <<dbVars, flags, dbHeld, todo, current, image, callers, aim, asked>>

\* Mutant: every picture goes to the first target.
KeepImage_FirstTarget(r) ==
    /\ At(r, "store")
    /\ \/ StoreImage(current[r].pid, current[r].targets[1].tid, image[r])
       \/ (dbState # "up" \/ RemoteFaults) /\ UNCHANGED dbVars
    /\ image' = [image EXCEPT ![r] = NoImage]
    /\ NextTarget(r)
    /\ Goto(r, "target")
    /\ UNCHANGED <<flags, dbHeld, todo, current, callers, aim, history>>

\* Every exception of storeImage is caught.
KeepImage(r) ==
    /\ At(r, "store")
    /\ \/ StoreImage(current[r].pid, Sight(r).tid, image[r])
       \/ (dbState # "up" \/ RemoteFaults) /\ UNCHANGED dbVars
    /\ image' = [image EXCEPT ![r] = NoImage]
    /\ NextTarget(r)
    /\ Goto(r, "target")
    /\ UNCHANGED <<flags, dbHeld, todo, current, callers, aim, history>>

NoMoreTargets(r) ==
    /\ At(r, "target")
    /\ ~HasTarget(r)
    /\ Goto(r, "cameraOff")
    /\ UNCHANGED <<dbVars, flags, dbHeld, locals, callers, aim, history>>

CameraOff(r) ==
    /\ At(r, "cameraOff")
    /\ Goto(r, "ready")
    /\ UNCHANGED <<dbVars, flags, dbHeld, locals, callers, aim, history>>

\* Mutant: the proposal is left as it is.
MarkReady_Forgotten(r) ==
    /\ At(r, "ready")
    /\ current' = [current EXCEPT ![r] = NoProposal]
    /\ index' = [index EXCEPT ![r] = 0]
    /\ Goto(r, "loop")
    /\ UNCHANGED <<dbVars, flags, dbHeld, todo, image, callers, aim, history>>

MarkReady(r) ==
    /\ At(r, "ready")
    /\ SetProposalStatus(current[r].pid, Ready)
    /\ current' = [current EXCEPT ![r] = NoProposal]
    /\ index' = [index EXCEPT ![r] = 0]
    /\ Goto(r, "loop")
    /\ UNCHANGED <<flags, dbHeld, todo, image, callers, aim, history>>

ClearProposal(r) ==
    /\ At(r, "epilogue")
    /\ proposalUnderExecution' = -1
    /\ Goto(r, "countDown")
    /\ UNCHANGED <<dbVars, isRunning, stopSchedulerRequest, telescopeFinishedSync,
                   released, dbHeld, locals, callers, aim, history>>

\* The latch of the field, which need not be the one this round created; with
\* a null field the NullPointerException skips everything but the finally block.
CountDown(r) ==
    /\ At(r, "countDown")
    /\ released' = released \cup ({telescopeFinishedSync} \ {Null})
    /\ Goto(r, IF telescopeFinishedSync = Null THEN "finally" ELSE "counted")
    /\ UNCHANGED <<dbVars, isRunning, stopSchedulerRequest, telescopeFinishedSync,
                   proposalUnderExecution, dbHeld, locals, callers, aim, history>>

ClearLatch(r) ==
    /\ At(r, "counted")
    /\ telescopeFinishedSync' = Null
    /\ Goto(r, "release")
    /\ UNCHANGED <<dbVars, isRunning, stopSchedulerRequest, released, dbHeld,
                   proposalUnderExecution, locals, callers, aim, history>>

ReleaseComponents(r) ==
    /\ At(r, "release")
    /\ dbHeld' = FALSE
    /\ Goto(r, "finally")
    /\ UNCHANGED <<dbVars, flags, locals, callers, aim, history>>

\* Mutant: no finally block.
Finish_KeepsFlag(r) ==
    /\ At(r, "finally")
    /\ Goto(r, "dead")
    /\ UNCHANGED <<dbVars, flags, dbHeld, locals, callers, aim, history>>

Finish(r) ==
    /\ At(r, "finally")
    /\ isRunning' = FALSE
    /\ Goto(r, "dead")
    /\ UNCHANGED <<dbVars, stopSchedulerRequest, proposalUnderExecution,
                   telescopeFinishedSync, released, dbHeld, locals, callers,
                   aim, history>>

\* A remote call outside every try block fails: the exception leaves run()
\* through the finally block.
Abort(r) ==
    /\ \/ rpc[r] \in {"fetch", "begin", "ready"} /\ dbState # "up"
       \/ RemoteFaults /\ rpc[r] \in {"fetch", "begin", "cameraOn", "cameraOff", "ready"}
    /\ todo' = [todo EXCEPT ![r] = {}]
    /\ current' = [current EXCEPT ![r] = NoProposal]
    /\ index' = [index EXCEPT ![r] = 0]
    /\ Goto(r, "finally")
    /\ UNCHANGED <<dbVars, flags, dbHeld, image, callers, aim, history>>

-----------------------------------------------------------------------------
SchedulerInit ==
    /\ DBInit
    /\ isRunning = FALSE
    /\ stopSchedulerRequest = FALSE
    /\ proposalUnderExecution = -1
    /\ telescopeFinishedSync = Null
    /\ released = {}
    /\ dbHeld = FALSE
    /\ rpc = [r \in Rounds |-> "unborn"]
    /\ todo = [r \in Rounds |-> {}]
    /\ current = [r \in Rounds |-> NoProposal]
    /\ index = [r \in Rounds |-> 0]
    /\ image = [r \in Rounds |-> NoImage]
    /\ cpc = [c \in Callers |-> "idle"]
    /\ awaited = [c \in Callers |-> Null]
    /\ aim \in Positions
    /\ attempted = {}
    /\ asked = {}

\* A call that is under way, as opposed to a new one.
CallProceeds(c) ==
    \/ StartRound(c) \/ StartFails(c)
    \/ StopTestsLatch(c) \/ StopAwaits(c) \/ StopWakes(c) \/ StopReturns(c)

CallerStep(c) == Start(c) \/ Stop(c) \/ CallProceeds(c)

RoundStep(r) ==
    \/ CreateLatch(r) \/ FetchProposals(r)
    \/ NextProposal(r) \/ CutShort(r) \/ ForgetRequest(r) \/ AllDone(r)
    \/ MarkRunning(r) \/ CameraOn(r)
    \/ Move(r) \/ Arrive(r) \/ ObserveWithoutMount(r) \/ ObserveWithoutInstrument(r)
    \/ Expose(r) \/ ObserveFails(r) \/ KeepImage(r)
    \/ NoMoreTargets(r) \/ CameraOff(r) \/ MarkReady(r)
    \/ ClearProposal(r) \/ CountDown(r) \/ ClearLatch(r)
    \/ ReleaseComponents(r) \/ Finish(r) \/ Abort(r)

\* The astronomers, who share the database with the scheduler.
Observers ==
    /\ Client
    /\ UNCHANGED <<flags, dbHeld, rpc, locals, callers, aim, history>>

\* The ACS manager deactivates a component nobody holds and activates it again
\* when somebody asks for it.
ManagerDeactivates ==
    /\ DBReleased /\ ~dbHeld
    /\ CleanUpOpen
    /\ UNCHANGED <<flags, dbHeld, rpc, locals, callers, aim, history>>

ManagerProceeds ==
    /\ CleanUpWritePid \/ CleanUpWriteMap \/ Initialize
    /\ UNCHANGED <<flags, dbHeld, rpc, locals, callers, aim, history>>

DatabaseFails ==
    /\ Lose
    /\ UNCHANGED <<flags, dbHeld, rpc, locals, callers, aim, history>>

SchedulerNext ==
    \/ \E c \in Callers : CallerStep(c)
    \/ \E r \in Rounds : RoundStep(r)
    \/ Observers
    \/ ManagerDeactivates \/ ManagerProceeds \/ DatabaseFails

SchedulerSpec == SchedulerInit /\ [][SchedulerNext]_vars

\* Threads and calls that can go on do; nobody has to call or submit anything.
FairSchedulerSpec ==
    /\ SchedulerSpec
    /\ \A c \in Callers : WF_vars(CallProceeds(c)) /\ SF_vars(StartRound(c))
    /\ \A r \in Rounds : WF_vars(RoundStep(r))
    /\ WF_vars(ManagerProceeds)

-----------------------------------------------------------------------------
RoundStates == {"unborn", "new", "fetch", "loop", "begin", "cameraOn", "target",
                "moving", "expose", "store", "cameraOff", "ready", "cut", "epilogue",
                "countDown", "counted", "release", "finally", "dead"}
CallerStates == {"idle", "starting", "requested", "tested", "waiting", "clearing"}

\* What the rounds carry: copies of proposals as getProposals returned them.
Snapshot == [pid : Nat \ {0}, targets : Seq(Target)]

\* The type invariant: every round has a snapshot exactly while it works on a
\* proposal and a picture exactly while it is about to store one.
SchedulerTypeOK ==
    /\ DBTypeOK
    /\ {isRunning, stopSchedulerRequest, dbHeld} \subseteq BOOLEAN
    /\ proposalUnderExecution \in Nat \cup {-1}
    /\ telescopeFinishedSync \in Rounds \cup {Null}
    /\ released \subseteq Rounds
    /\ rpc \in [Rounds -> RoundStates]
    /\ cpc \in [Callers -> CallerStates]
    /\ awaited \in [Callers -> Rounds \cup {Null}]
    /\ aim \in Positions
    /\ \A r \in Rounds :
          /\ todo[r] \subseteq Snapshot
          /\ IF Executing(r) \/ At(r, "begin")
             THEN current[r] \in Snapshot ELSE current[r] = NoProposal
          /\ rpc[r] \in {"moving", "expose", "store"} =>
                index[r] \in 1..Len(current[r].targets)
          /\ IF At(r, "store") THEN image[r] \in Images ELSE image[r] = NoImage

\* isRunning is a lock on the round as long as stop() is never called: two
\* start() calls, however they interleave with the end of a round, never get
\* two threads on the telescope.
OneRoundAtATime ==
    ~Stops => \A r, s \in Rounds : Alive(r) /\ Alive(s) => r = s

\* While a round observes, the pid that proposalUnderExecution() answers is the one
\* of the proposal it observes, however start() calls, rounds and clients interleave.
ReportedProposal ==
    ~Stops => \A r \in Rounds : Executing(r) => proposalUnderExecution = current[r].pid

\* A proposal is marked ready only after its round has tried all its targets,
\* whatever other rounds and stop() calls do meanwhile.
NoPrematureReady ==
    \A p \in DOMAIN proposals : proposals[p].status = Ready =>
        \A i \in DOMAIN proposals[p].targets : <<p, i>> \in attempted

\* A proposal marked running has a round that is still working on it, stopped
\* or not: a stop request never strands one.  (Stranded, no later round would
\* take it, since getProposals only returns queued ones.)
NoOrphanRunning ==
    \A p \in DOMAIN proposals : proposals[p].status = Running =>
        \E r \in Rounds : Executing(r) /\ current[r].pid = p

\* Every call of stop() comes back.
EveryStopReturns == \A c \in Callers : CallerAt(c, "requested") ~> CallerAt(c, "idle")

\* A proposal that a round has fetched becomes ready, unless its owner removes
\* it.
FetchedGetsReady ==
    \A p \in Pids :
        (\E r \in Rounds : \E q \in todo[r] : q.pid = p)
            ~> (p \notin DOMAIN proposals \/ proposals[p].status = Ready)

\* The scheduler can always be started again.
RoundsEnd == []<>~isRunning

-----------------------------------------------------------------------------
\* Without stop() and without remote faults, the threads, flags and restarts
\* add up to the abstract service: proposals are executed one at a time and
\* never twice, and the pictures are the right ones.
Service == INSTANCE ObservationService WITH
               book <- IF dbState = "down" THEN dbFile.map ELSE proposals

ImplementsService == Service!Spec
=============================================================================
