------------------------------- MODULE Console -------------------------------
(***************************************************************************)
(* The SORT console, ConsoleImpl.py, on top of the scheduler: setMode()    *)
(* hands the telescope to the scheduler or takes it back, the other        *)
(* methods use telescope and camera by hand and refuse in automatic mode.  *)
(* A thread of the console blocks in the scheduler call it makes, so the   *)
(* callers of the scheduler are the threads of the console.  The flag mode *)
(* is read and written without a lock, before and after those calls.       *)
(***************************************************************************)
EXTENDS Scheduler

\* What a console thread does, when it does not wait for the mount.
ThreadStates == {"idle", "starting", "started", "stopping", "stopped", "moving"}

ASSUME ConsoleAssumption == Positions \cap ThreadStates = {}

VARIABLES mode,   \* TRUE: automatic
          kpc     \* what each console thread is doing; a position while it waits
                  \* for the mount to be there

consoleVars == <<vars, mode, kpc>>

ThreadAt(c, here)    == kpc[c] = here
ThreadGoto(c, there) == kpc' = [kpc EXCEPT ![c] = there]

\* setMode(True): start(), then the flag.  AlreadyRunning, also for a start()
\* that could not get its components, leaves the flag alone.
AskAutomatic(c) ==
    /\ ThreadAt(c, "idle")
    /\ Start(c)
    /\ ThreadGoto(c, "starting")
    /\ UNCHANGED mode

AutomaticGranted(c) ==
    /\ ThreadAt(c, "starting")
    /\ StartRound(c)
    /\ ThreadGoto(c, "started")
    /\ UNCHANGED mode

AutomaticRefused(c) ==
    /\ ThreadAt(c, "starting")
    /\ StartFails(c)
    /\ ThreadGoto(c, "idle")
    /\ UNCHANGED mode

\* Mutant: the flag is only set by setMode(False).
EnterAutomatic_Forgets(c) ==
    /\ ThreadAt(c, "started")
    /\ ThreadGoto(c, "idle")
    /\ UNCHANGED <<vars, mode>>

EnterAutomatic(c) ==
    /\ ThreadAt(c, "started")
    /\ mode' = TRUE
    /\ ThreadGoto(c, "idle")
    /\ UNCHANGED vars

\* setMode(False): stop(), then the flag.
AskManual(c) ==
    /\ ThreadAt(c, "idle")
    /\ Stop(c)
    /\ ThreadGoto(c, "stopping")
    /\ UNCHANGED mode

\* Mutant: the exception of stop() is lost.
StopGoesOn_NoException(c) ==
    /\ ThreadAt(c, "stopping")
    /\ StopTestsLatch(c) \/ StopWakes(c) \/ StopAwaits(c)
    /\ UNCHANGED <<mode, kpc>>

StopGoesOn(c) ==
    /\ ThreadAt(c, "stopping")
    /\ \/ StopTestsLatch(c)
       \/ StopWakes(c)
       \/ StopAwaits(c) /\ telescopeFinishedSync # Null
    /\ UNCHANGED <<mode, kpc>>

\* The NullPointerException of stop() reaches the client; the flag stays.
StopThrows(c) ==
    /\ ThreadAt(c, "stopping")
    /\ StopAwaits(c)
    /\ telescopeFinishedSync = Null
    /\ ThreadGoto(c, "idle")
    /\ UNCHANGED mode

StopDone(c) ==
    /\ ThreadAt(c, "stopping")
    /\ StopReturns(c)
    /\ ThreadGoto(c, "stopped")
    /\ UNCHANGED mode

EnterManual(c) ==
    /\ ThreadAt(c, "stopped")
    /\ mode' = FALSE
    /\ ThreadGoto(c, "idle")
    /\ UNCHANGED vars

\* Mutant: moveTelescope() does not look at the mode.
MoveTelescope_Unguarded(c) ==
    /\ ThreadAt(c, "idle")
    /\ ThreadGoto(c, "moving")
    /\ UNCHANGED <<vars, mode>>

\* moveTelescope(): the test of the flag, and later the movement.
MoveTelescope(c) ==
    /\ ThreadAt(c, "idle")
    /\ ~mode                  \* else SystemInAutoModeEx
    /\ ThreadGoto(c, "moving")
    /\ UNCHANGED <<vars, mode>>

TelescopeMoves(c) ==
    /\ ThreadAt(c, "moving")
    /\ \E pos \in Positions \ OutOfLimits :
          /\ aim' = IF MountFound THEN pos ELSE aim
          /\ ThreadGoto(c, IF MountFound THEN pos ELSE "idle")
    /\ UNCHANGED <<dbVars, flags, dbHeld, rpc, locals, callers, history, mode>>

\* moveTo() polls here as it does for a round.
TelescopeArrives(c) ==
    /\ kpc[c] \in Positions
    /\ aim = kpc[c]
    /\ ThreadGoto(c, "idle")
    /\ UNCHANGED <<vars, mode>>

\* The exception of moveTo() or of the mount.
MoveFails(c) ==
    /\ \/ ThreadAt(c, "moving") /\ MountFound /\ OutOfLimits # {}
       \/ RemoteFaults /\ kpc[c] \in Positions \cup {"moving"}
    /\ ThreadGoto(c, "idle")
    /\ UNCHANGED <<vars, mode>>

-----------------------------------------------------------------------------
ConsoleInit ==
    /\ SchedulerInit
    /\ mode = FALSE
    /\ kpc = [c \in Callers |-> "idle"]

SetMode(c) ==
    \/ AskAutomatic(c) \/ AutomaticGranted(c) \/ AutomaticRefused(c) \/ EnterAutomatic(c)
    \/ AskManual(c) \/ StopGoesOn(c) \/ StopThrows(c) \/ StopDone(c) \/ EnterManual(c)

Background ==
    /\ \/ \E r \in Rounds : RoundStep(r)
       \/ Observers \/ ManagerDeactivates \/ ManagerProceeds \/ DatabaseFails
    /\ UNCHANGED <<mode, kpc>>

ConsoleNext ==
    \/ \E c \in Callers : SetMode(c) \/ MoveTelescope(c) \/ TelescopeMoves(c)
                         \/ TelescopeArrives(c) \/ MoveFails(c)
    \/ Background

ConsoleSpec == ConsoleInit /\ [][ConsoleNext]_consoleVars

-----------------------------------------------------------------------------
\* A console thread and the scheduler call it is blocked in agree, and the
\* flag is one.
ConsoleTypeOK ==
    /\ SchedulerTypeOK
    /\ mode \in BOOLEAN
    /\ \A c \in Callers :
          IF ThreadAt(c, "starting") THEN CallerAt(c, "starting")
          ELSE IF ThreadAt(c, "stopping")
          THEN cpc[c] \in {"requested", "tested", "waiting", "clearing"}
          ELSE /\ kpc[c] \in {"idle", "started", "stopped", "moving"} \cup Positions
               /\ CallerAt(c, "idle")

\* As long as no round has been asked to stop, a round only runs in automatic
\* mode, but for the moment in which setMode(True) returns, and while it runs no
\* movement by hand is under way, neither one whose test of the mode has passed nor
\* one that waits for the mount.
HandsOffDuringRounds ==
    asked = {} /\ (\E r \in Rounds : Alive(r)) =>
        /\ mode \/ \E c \in Callers : ThreadAt(c, "started")
        /\ \A c \in Callers : kpc[c] \notin Positions \cup {"moving"}

\* So one operator, whose calls follow each other, cannot move the telescope
\* between a round's own movement and its exposure: a picture kept for a
\* target was taken with the mount on that target.  (Without a mount observe()
\* takes a picture of wherever the telescope points, and no exception tells.)
ImageShowsItsTarget ==
    asked = {} /\ MountFound => \A p \in DOMAIN proposals : \A i \in DOMAIN proposals[p].targets :
        proposals[p].observations[i] \in {NoImage, Blank, proposals[p].targets[i].pos}
=============================================================================
