---------------------------- MODULE UOSScheduler ----------------------------
(***************************************************************************)
(* The scheduler of the UOS with the parts it works with: the loop threads *)
(* that start() creates, the SQLite tables of the database, the camera,    *)
(* and the console whose operators switch between automatic and manual.    *)
(*                                                                         *)
(* Each statement on the tables and each read or write of a flag that two  *)
(* threads share is a step.  A picture is only known to be there or not:   *)
(* takeImage() works on a field nobody sets, so what observe() returns is  *)
(* the storage it has just freed.                                          *)
(*                                                                         *)
(* The code has windows in which its promises break: statements of others  *)
(* between two statements on the tables, and two loops or two operators at *)
(* once.  "races" remembers the worst that was hit, and each property says *)
(* how far it goes.                                                        *)
(***************************************************************************)
EXTENDS Naturals, Sequences, SequencesExt

CONSTANTS MaxLoops,   \* bound: the threads start() creates
          Operators,  \* clients of the console
          Clients,    \* clients that store proposals
          Tids,       \* the target ids they give
          MaxPid, MaxRow    \* bounds: rows of the two tables

ASSUME UOSAssumption ==
    /\ Tids \subseteq Nat
    /\ MaxLoops \in Nat /\ MaxPid \in Nat /\ MaxRow \in Nat

VARIABLES proposal,         \* ROWID -> status
          target,           \* ROWID -> proposal, target_id, and whether there is an image
          clients,          \* the storeProposal() each client is in
          at,               \* where each thread of the loop is
          pid, targets,     \* the proposal of each thread, and its targets to come
          loop,             \* the field of the scheduler, the youngest thread
          loopValidator, startValidator,
          operators,        \* where each operator is in a call of the console
          joined,           \* the thread he waits for
          mode,             \* TRUE is automatic
          camera,
          races             \* history: "none", "tables" or "threads"

tables  == <<proposal, target>>
flags   == <<loop, loopValidator, startValidator>>
loops   == <<at, pid, targets>>
console == <<operators, joined, mode>>
uosVars == <<tables, clients, loops, flags, console, camera, races>>

Loops == 1..MaxLoops
None  == 0

Hits(window, happens) ==
    races' = IF happens /\ races # "threads" THEN window ELSE races

QUEUED  == 0
RUNNING == 1
READY   == 2

NextRow(table) == Max(DOMAIN table \cup {0}) + 1

RowsOf(p) == {r \in DOMAIN target : target[r].proposal = p}

UOSInit ==
    /\ proposal = <<>> /\ target = <<>>
    /\ clients = [c \in Clients |-> [pc |-> "idle", pid |-> 0]]
    /\ at = [l \in Loops |-> "unused"]
    /\ pid = [l \in Loops |-> 0] /\ targets = [l \in Loops |-> <<>>]
    /\ loop = None /\ loopValidator = TRUE /\ startValidator = FALSE
    /\ operators = [o \in Operators |-> "idle"] /\ joined = [o \in Operators |-> None]
    /\ mode = TRUE /\ camera = FALSE /\ races = "none"

-----------------------------------------------------------------------------
(* The database *)

\* The window in which a pid must not be given away again: a loop has its
\* targets or has tested its status, and writes the status next.

Exposed(l) == at[l] \in {"check", "mark", "ready"}

InsertProposal(c) ==
    LET new == NextRow(proposal) IN
    /\ clients[c].pc = "idle" /\ new <= MaxPid
    /\ proposal' = [p \in DOMAIN proposal \cup {new} |-> IF p = new THEN QUEUED ELSE proposal[p]]
    /\ clients' = [clients EXCEPT ![c] = [pc |-> "max", pid |-> new]]
    /\ Hits("tables", \E l \in Loops : Exposed(l) /\ pid[l] = new)
    /\ UNCHANGED <<target, loops, flags, console, camera>>

\* SELECT MAX(ROWID): the row of somebody else if he was quick, and an error
\* if there is none any more.

SelectMax(c) ==
    LET last == Max(DOMAIN proposal \cup {0}) IN
    /\ clients[c].pc = "max"
    /\ clients' = [clients EXCEPT ![c] =
           IF last = 0 THEN [pc |-> "idle", pid |-> 0] ELSE [pc |-> "targets", pid |-> last]]
    /\ Hits("tables", last # clients[c].pid)
    /\ UNCHANGED <<tables, loops, flags, console, camera>>

\* The targets follow one by one, each committed, until the list ends.

InsertTarget(c, tid) ==
    LET row == NextRow(target)
        new == [proposal |-> clients[c].pid, target_id |-> tid, image |-> FALSE] IN
    /\ clients[c].pc = "targets" /\ row <= MaxRow
    /\ target' = [r \in DOMAIN target \cup {row} |-> IF r = row THEN new ELSE target[r]]
    /\ UNCHANGED <<proposal, clients, loops, flags, console, camera, races>>

Stored(c) ==
    /\ clients[c].pc = "targets"
    /\ clients' = [clients EXCEPT ![c] = [pc |-> "idle", pid |-> 0]]
    /\ UNCHANGED <<tables, loops, flags, console, camera, races>>

removeProposal(p) ==
    /\ p \in DOMAIN proposal
    /\ proposal' = [q \in DOMAIN proposal \ {p} |-> proposal[q]]
    /\ target' = [r \in DOMAIN target \ RowsOf(p) |-> target[r]]
    /\ UNCHANGED <<clients, loops, flags, console, camera, races>>

clean ==
    /\ proposal' = <<>> /\ target' = <<>>
    /\ UNCHANGED <<clients, loops, flags, console, camera, races>>

-----------------------------------------------------------------------------
(* The loop *)

Alive(l) == at[l] \notin {"unused", "over"}

Goes(l, to) == at' = [at EXCEPT ![l] = to] /\ UNCHANGED <<pid, targets>>

\* What is not caught in run() ends the thread and leaves the flags.

Ends(l) ==
    /\ at' = [at EXCEPT ![l] = "over"]
    /\ pid' = [pid EXCEPT ![l] = 0] /\ targets' = [targets EXCEPT ![l] = <<>>]

\* A failure of any call to another component reaches the loop as an exception.

Remote == {"fetch", "targets", "check", "on", "observe", "off", "check again"}

RemoteFails(l) ==
    /\ at[l] \in Remote
    /\ Ends(l)
    /\ UNCHANGED <<tables, clients, flags, console, camera, races>>

\* getComponent() may fail; that is caught, outside the while.

Run(l) ==
    /\ at[l] = "new"
    /\ startValidator' = TRUE
    /\ Goes(l, "test") \/ Ends(l)
    /\ UNCHANGED <<tables, clients, loop, loopValidator, console, camera, races>>

\* prToRun is forgotten with each turn.

TestLoop(l) ==
    /\ at[l] = "test"
    /\ at' = [at EXCEPT ![l] = IF loopValidator THEN "fetch" ELSE "exit"]
    /\ pid' = [pid EXCEPT ![l] = 0]
    /\ UNCHANGED <<tables, clients, targets, flags, console, camera, races>>

Exit(l) ==
    /\ at[l] = "exit"
    /\ startValidator' = IF loopValidator THEN startValidator ELSE FALSE
    /\ Ends(l)
    /\ UNCHANGED <<tables, clients, loop, loopValidator, console, camera, races>>

\* getProposals() answers all proposals in the order of their ROWIDs; the
\* loop takes the first that is queued, or sleeps and looks again.

Queued == {p \in DOMAIN proposal : proposal[p] = QUEUED}

getProposals_NoTest(l) ==
    /\ at[l] = "fetch" /\ Queued # {}
    /\ at' = [at EXCEPT ![l] = "targets"]
    /\ pid' = [pid EXCEPT ![l] = Min(Queued)]
    /\ UNCHANGED <<tables, clients, targets, flags, console, camera, races>>

getProposals(l) ==
    /\ at[l] = "fetch"
    /\ at' = [at EXCEPT ![l] = IF Queued = {} THEN "test" ELSE "targets"]
    /\ pid' = [pid EXCEPT ![l] = IF Queued = {} THEN @ ELSE Min(Queued)]
    /\ UNCHANGED <<tables, clients, targets, flags, console, camera, races>>

\* The targets are read by a statement of their own, and go by their ROWIDs.

getTargets(l) ==
    /\ at[l] = "targets"
    /\ at' = [at EXCEPT ![l] = "check"]
    /\ \E rows \in [1..Cardinality(RowsOf(pid[l])) -> RowsOf(pid[l])] :
          /\ Range(rows) = RowsOf(pid[l])
          /\ \A i, j \in DOMAIN rows : i < j => rows[i] < rows[j]
          /\ targets' = [targets EXCEPT ![l] = rows]
    /\ Hits("tables", \E c \in Clients : clients[c].pc # "idle" /\ clients[c].pid = pid[l])
    /\ UNCHANGED <<tables, clients, pid, flags, console, camera>>

\* setProposalStatus(): a transition that is not the next one is only logged;
\* without the row None[0] is a TypeError.

CheckStatus(l, pc, from, write, refused) ==
    /\ at[l] = pc
    /\ IF pid[l] \in DOMAIN proposal THEN Goes(l, IF proposal[pid[l]] = from THEN write ELSE refused)
                                     ELSE Ends(l)
    /\ UNCHANGED <<tables, clients, flags, console, camera, races>>

WriteStatus(l, pc, to, next) ==
    /\ at[l] = pc
    /\ proposal' = [p \in DOMAIN proposal |-> IF p = pid[l] THEN to ELSE proposal[p]]
    /\ Goes(l, next)
    /\ UNCHANGED <<target, clients, flags, console, camera, races>>

CameraOn(l) ==
    /\ at[l] = "on"
    /\ camera' = TRUE
    /\ Goes(l, IF targets[l] = <<>> THEN "off" ELSE "observe")
    /\ UNCHANGED <<tables, clients, flags, console, races>>

\* A loop is at "observe" while the telescope moves and takes the picture.
\* The row is looked for by its target_id; the image goes to all that have
\* it, unless the first has one already.  Without a row, a TypeError again.

RowsToGet(l) == {r \in RowsOf(pid[l]) : target[r].target_id = Head(targets[l])}

NextTarget(l) ==
    /\ targets' = [targets EXCEPT ![l] = Tail(@)]
    /\ at' = [at EXCEPT ![l] = IF Tail(targets[l]) = <<>> THEN "off" ELSE @]
    /\ UNCHANGED pid

storeImage_Tolerant(l) ==
    /\ at[l] = "observe"
    /\ target' = [r \in DOMAIN target |->
           IF r \in RowsToGet(l) THEN [target[r] EXCEPT !.image = TRUE] ELSE target[r]]
    /\ NextTarget(l)
    /\ UNCHANGED <<proposal, clients, flags, console, camera, races>>

storeImage(l) ==
    /\ at[l] = "observe"
    /\ target' = [r \in DOMAIN target |->
           IF r \in RowsToGet(l) /\ ~target[Min(RowsToGet(l))].image
           THEN [target[r] EXCEPT !.image = TRUE] ELSE target[r]]
    /\ IF RowsToGet(l) = {} THEN Ends(l) ELSE NextTarget(l)
    /\ UNCHANGED <<proposal, clients, flags, console, camera, races>>

CameraOff(l) ==
    /\ at[l] = "off"
    /\ camera' = FALSE
    /\ Goes(l, "check again")
    /\ UNCHANGED <<tables, clients, flags, console, races>>

LoopStep(l) ==
    \/ Run(l) \/ TestLoop(l) \/ Exit(l)
    \/ getProposals(l) \/ getTargets(l)
    \/ CheckStatus(l, "check", QUEUED, "mark", "on") \/ WriteStatus(l, "mark", RUNNING, "on")
    \/ CameraOn(l) \/ storeImage(l) \/ CameraOff(l)
    \/ CheckStatus(l, "check again", RUNNING, "ready", "test") \/ WriteStatus(l, "ready", READY, "test")

-----------------------------------------------------------------------------
(* The scheduler's start() and stop(), called by the console *)

Continues(o, to) == operators' = [operators EXCEPT ![o] = to]
Returns(o)       == Continues(o, "idle")

\* A picture by hand keeps its operator busy, and from nobody anything else.

Free == {"idle", "image"}

Meets(o) == \E other \in Operators \ {o} : operators[other] \notin Free

setMode(o) ==
    /\ operators[o] = "idle"
    /\ Continues(o, IF mode THEN "manual" ELSE "automatic")
    /\ Hits("threads", Meets(o))
    /\ UNCHANGED <<tables, clients, loops, flags, joined, mode, camera>>

SetMode(o) ==
    /\ operators[o] \in {"manual", "automatic"}
    /\ mode' = (operators[o] = "automatic")
    /\ Continues(o, IF operators[o] = "automatic" THEN "start" ELSE "stop")
    /\ UNCHANGED <<tables, clients, loops, flags, joined, camera, races>>

start(o) ==
    /\ operators[o] = "start"
    /\ IF startValidator THEN Returns(o) ELSE Continues(o, "create")
    /\ UNCHANGED <<tables, clients, loops, flags, joined, mode, camera, races>>

CreateLoop(o, l) ==
    /\ operators[o] = "create"
    /\ at[l] = "unused" /\ \A older \in 1..l - 1 : at[older] # "unused"
    /\ loopValidator' = TRUE /\ loop' = l
    /\ Goes(l, "new")
    /\ Returns(o)
    /\ Hits("threads", \E other \in Loops : Alive(other))
    /\ UNCHANGED <<tables, clients, startValidator, joined, mode, camera>>

stop(o) ==
    /\ operators[o] = "stop"
    /\ loopValidator' = FALSE
    /\ Continues(o, "stopping")
    /\ UNCHANGED <<tables, clients, loops, loop, startValidator, joined, mode, camera, races>>

JoinOrNot_NoWait(o) ==
    /\ operators[o] = "stopping"
    /\ Returns(o)
    /\ UNCHANGED <<tables, clients, loops, flags, joined, mode, camera, races>>

JoinOrNot(o) ==
    /\ operators[o] = "stopping"
    /\ IF startValidator THEN Continues(o, "join") /\ joined' = [joined EXCEPT ![o] = loop]
                         ELSE Returns(o) /\ UNCHANGED joined
    /\ UNCHANGED <<tables, clients, loops, flags, mode, camera, races>>

Join(o) ==
    /\ operators[o] = "join"
    /\ at[joined[o]] = "over"
    /\ Returns(o) /\ joined' = [joined EXCEPT ![o] = None]
    /\ UNCHANGED <<tables, clients, loops, flags, mode, camera, races>>

\* cameraOn() and cameraOff() of the console.  That the mode is tested before
\* the remote call makes a difference when operators meet only.

SwitchCamera(o, on) ==
    /\ operators[o] = "idle" /\ ~mode
    /\ camera' = on
    /\ Hits("threads", Meets(o))
    /\ UNCHANGED <<tables, clients, loops, flags, console>>

\* getCameraImage() has no test of the mode, nor takeImage() one of the camera:
\* the exposure may fall into those of a loop.

getCameraImage(o) ==
    /\ operators[o] = "idle"
    /\ Continues(o, "image")
    /\ UNCHANGED <<tables, clients, loops, flags, joined, mode, camera, races>>

ImageTaken(o) ==
    /\ operators[o] = "image"
    /\ Returns(o)
    /\ UNCHANGED <<tables, clients, loops, flags, joined, mode, camera, races>>

ByHand(o) == (\E on \in BOOLEAN : SwitchCamera(o, on)) \/ getCameraImage(o) \/ ImageTaken(o)

OperatorStep(o) ==
    \/ SetMode(o) \/ start(o) \/ (\E l \in Loops : CreateLoop(o, l))
    \/ stop(o) \/ JoinOrNot(o) \/ Join(o)

UOSNext ==
    \/ \E c \in Clients :
          InsertProposal(c) \/ SelectMax(c) \/ Stored(c) \/ \E tid \in Tids : InsertTarget(c, tid)
    \/ \E p \in DOMAIN proposal : removeProposal(p)
    \/ clean
    \/ \E l \in Loops : LoopStep(l) \/ RemoteFails(l)
    \/ \E o \in Operators : setMode(o) \/ OperatorStep(o) \/ ByHand(o)

UOSSpec == UOSInit /\ [][UOSNext]_uosVars

FairUOSSpec ==
    /\ UOSSpec
    /\ \A l \in Loops : WF_uosVars(LoopStep(l))
    /\ \A o \in Operators : WF_uosVars(OperatorStep(o))

-----------------------------------------------------------------------------
\* While a loop is in a round the guards of the console that test the mode
\* (cameraOn, cameraOff, moveTelescope and the settings) are closed, or the
\* operator is in the call that waits for the round; and every picture of the
\* loop is taken with the camera on -- as long as no two loops or operators
\* meet.  A picture by hand has no guard and may come at any moment of it.

InRound(l) == at[l] \in {"mark", "on", "observe", "off", "check again", "ready"}

HandsOff ==
    races # "threads" =>
        \A l \in Loops :
            /\ InRound(l) => mode \/ \E o \in Operators : operators[o] \notin Free
            /\ at[l] = "observe" => camera

\* A proposal that is ready has an image for each of its targets, whatever
\* ids the clients gave them and whatever was removed, refused or failed --
\* as long as none of the windows of the tables and the threads was hit.

ReadyHasImages ==
    races = "none" =>
        \A p \in DOMAIN proposal :
            proposal[p] = READY => \A r \in RowsOf(p) : target[r].image

\* stop() comes back, even if the loop fails, unless another start() lets
\* the loop go on.

StopReturns ==
    \A o \in Operators :
        operators[o] = "join" ~> (operators[o] # "join" \/ loopValidator)
=============================================================================
