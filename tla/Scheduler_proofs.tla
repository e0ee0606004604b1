--------------------------- MODULE Scheduler_proofs ---------------------------
(***************************************************************************)
(* Theorems about the SORT scheduler, and about the console on top of it,  *)
(* for any number of rounds, callers and proposals, with remote faults and *)
(* database failures at any step unless a theorem says otherwise.          *)
(***************************************************************************)
EXTENDS Console, DataBase_proofs

\* The control state alone is enough for the exclusion argument.
ControlOK ==
    /\ rpc \in [Rounds -> RoundStates]
    /\ cpc \in [Callers -> CallerStates]

\* The rounds and the start() calls that own isRunning.
Owning(c) == CallerAt(c, "starting")

\* What makes OneRoundAtATime inductive: isRunning is the lock, taken by the
\* getAndSet of start(), handed to the thread, and given back by the finally
\* block, which is the last thing a round does.
Exclusion ==
    ~Stops =>
       /\ \A r, s \in Rounds : Alive(r) /\ Alive(s) => r = s
       /\ \A c, d \in Callers : Owning(c) /\ Owning(d) => c = d
       /\ \A r \in Rounds, c \in Callers : ~(Alive(r) /\ Owning(c))
       /\ \A r \in Rounds : Alive(r) => isRunning
       /\ \A c \in Callers : Owning(c) => isRunning
       /\ \A c \in Callers : cpc[c] \in {"idle", "starting"}

\* Every step of a round or a caller, reduced to what it does to the control
\* state and the flag.
MovesRound(r) ==
    /\ Alive(r)
    /\ \E there \in RoundStates \ {"unborn", "dead"} : Goto(r, there)
    /\ UNCHANGED <<isRunning, cpc>>

\* A step of a round keeps it alive, or ends it and gives isRunning back.
LEMMA RoundStepMoves ==
    ASSUME ControlOK, NEW r \in Rounds, RoundStep(r)
    PROVE  \/ MovesRound(r)
           \/ At(r, "finally") /\ Goto(r, "dead") /\ isRunning' = FALSE /\ UNCHANGED cpc
<1>1. CASE Finish(r)
  BY <1>1 DEF Finish, callers
<1>2. CASE CreateLatch(r) \/ FetchProposals(r) \/ NextProposal(r) \/ CutShort(r) \/ ForgetRequest(r) \/ AllDone(r)
  BY <1>2 DEF CreateLatch, FetchProposals, NextProposal, CutShort, ForgetRequest, AllDone,
              MovesRound, RoundStates, Alive, At, Goto, callers, flags
<1>3. CASE MarkRunning(r) \/ CameraOn(r) \/ Move(r) \/ Arrive(r) \/ Expose(r)
  BY <1>3 DEF MarkRunning, CameraOn, Move, Arrive, Expose,
              MovesRound, RoundStates, Alive, At, Goto, callers, flags
<1>4. CASE ObserveFails(r) \/ KeepImage(r) \/ NoMoreTargets(r) \/ CameraOff(r) \/ MarkReady(r)
  BY <1>4 DEF ObserveFails, KeepImage, NoMoreTargets, CameraOff, MarkReady,
              MovesRound, RoundStates, Alive, At, Goto, callers, flags
<1>5. CASE ClearProposal(r) \/ CountDown(r) \/ ClearLatch(r) \/ ReleaseComponents(r) \/ Abort(r)
  BY <1>5 DEF ClearProposal, CountDown, ClearLatch, ReleaseComponents, Abort,
              MovesRound, RoundStates, Alive, At, Goto, callers, flags
<1>6. CASE ObserveWithoutMount(r) \/ ObserveWithoutInstrument(r)
  BY <1>6 DEF ObserveWithoutMount, ObserveWithoutInstrument,
              MovesRound, RoundStates, Alive, At, Goto, callers, flags
<1>7. QED
  BY <1>1, <1>2, <1>3, <1>4, <1>5, <1>6 DEF RoundStep

\* ControlOK is inductive.
LEMMA ControlStep == ControlOK /\ [SchedulerNext]_vars => ControlOK'
<1> SUFFICES ASSUME ControlOK, [SchedulerNext]_vars
             PROVE  ControlOK'
  OBVIOUS
<1>1. ASSUME NEW c \in Callers, CallerStep(c)
      PROVE  ControlOK'
  BY <1>1 DEF CallerStep, CallProceeds, Start, StartRound, StartFails, Stop,
              StopTestsLatch, StopAwaits, StopWakes, StopReturns, CallerAt,
              CallerGoto, At, Goto, ControlOK, RoundStates, CallerStates
<1>2. ASSUME NEW r \in Rounds, RoundStep(r)
      PROVE  ControlOK'
  BY <1>2, RoundStepMoves DEF MovesRound, Goto, ControlOK, RoundStates
<1>3. CASE UNCHANGED <<rpc, cpc>>
  BY <1>3 DEF ControlOK
<1>4. QED
  BY <1>1, <1>2, <1>3
  DEF SchedulerNext, Observers, ManagerDeactivates, ManagerProceeds, DatabaseFails,
      vars, callers

\* Exclusion is inductive with ControlOK.
LEMMA ExclusionStep ==
    ASSUME ControlOK, Exclusion, [SchedulerNext]_vars
    PROVE  Exclusion'
<1>1. CASE Stops
  BY <1>1 DEF Exclusion
<1>2. CASE ~Stops
  <2> USE <1>2 DEF Exclusion, Owning, Alive, CallerAt
  <2>1. ASSUME NEW c \in Callers, CallerStep(c)
        PROVE  Exclusion'
    <3>1. CASE Start(c)
      BY <3>1 DEF Start, CallerGoto, ControlOK
    <3>2. CASE StartRound(c)
      BY <3>2 DEF StartRound, CallerGoto, At, Goto, ControlOK, flags
    <3>3. CASE StartFails(c)
      BY <3>3 DEF StartFails, CallerGoto, ControlOK, flags
    <3>4. QED
      BY <2>1, <3>1, <3>2, <3>3
      DEF CallerStep, CallProceeds, Stop, StopTestsLatch, StopAwaits, StopWakes, StopReturns
  <2>2. ASSUME NEW r \in Rounds, RoundStep(r)
        PROVE  Exclusion'
    <3>1. CASE MovesRound(r)
      BY <3>1 DEF MovesRound, Goto, ControlOK
    <3>2. CASE At(r, "finally") /\ Goto(r, "dead") /\ isRunning' = FALSE /\ UNCHANGED cpc
      BY <3>2 DEF At, Goto, ControlOK
    <3>3. QED
      BY <2>2, <3>1, <3>2, RoundStepMoves
  <2>3. CASE UNCHANGED <<rpc, cpc, isRunning>>
    BY <2>3
  <2>4. QED
    BY <2>1, <2>2, <2>3
    DEF SchedulerNext, Observers, ManagerDeactivates, ManagerProceeds, DatabaseFails,
        vars, callers, flags
<1>3. QED
  BY <1>1, <1>2

\* Without stop(), two start() calls never get two rounds on the telescope,
\* whatever fails.
THEOREM RoundsExclude == SchedulerSpec => []OneRoundAtATime
<1>1. SchedulerInit => ControlOK /\ Exclusion
  BY DEF SchedulerInit, ControlOK, RoundStates, CallerStates, Exclusion, Owning,
         Alive, CallerAt
<1>2. ControlOK /\ Exclusion /\ [SchedulerNext]_vars => ControlOK' /\ Exclusion'
  BY ControlStep, ExclusionStep
<1>3. Exclusion => OneRoundAtATime
  BY DEF Exclusion, OneRoundAtATime
<1>4. QED
  BY <1>1, <1>2, <1>3, PTL DEF SchedulerSpec

-----------------------------------------------------------------------------
\* Types.  SchedulerTypeOK says nothing of the domains of the locals, nor that
\* the loop over the targets begins with the first.
FlagsOK ==
    /\ {isRunning, stopSchedulerRequest, dbHeld} \subseteq BOOLEAN
    /\ proposalUnderExecution \in Nat \cup {-1}
    /\ telescopeFinishedSync \in Rounds \cup {Null}
    /\ released \subseteq Rounds
    /\ awaited \in [Callers -> Rounds \cup {Null}]
    /\ aim \in Positions

LocalsOK ==
    /\ todo \in [Rounds -> SUBSET Snapshot]
    /\ current \in [Rounds -> Snapshot \cup {NoProposal}]
    /\ index \in [Rounds -> Nat]
    /\ image \in [Rounds -> Images \cup {NoImage}]

RoundOK(r) ==
    /\ IF Executing(r) \/ At(r, "begin")
       THEN current[r] \in Snapshot ELSE current[r] = NoProposal
    /\ rpc[r] \in {"target", "moving", "expose", "store"} => index[r] >= 1
    /\ rpc[r] \in {"moving", "expose", "store"} =>
          index[r] \in 1..Len(current[r].targets)
    /\ IF At(r, "store") THEN image[r] \in Images ELSE image[r] = NoImage

SchedulerTypes ==
    /\ DBTypeOK /\ ControlOK /\ FlagsOK /\ LocalsOK
    /\ \A r \in Rounds : RoundOK(r)

\* The types used here imply those that the runs check.
LEMMA TypesAreTypeOK == SchedulerTypes => SchedulerTypeOK
  BY DEF SchedulerTypes, SchedulerTypeOK, ControlOK, FlagsOK, LocalsOK, RoundOK

\* All that the scheduler and its neighbours do to the database are steps of
\* the database.
LEMMA DatabaseSteps ==
    ASSUME SchedulerTypes, [SchedulerNext]_vars
    PROVE  [DBStep]_dbVars
<1>1. ASSUME NEW r \in Rounds, RoundStep(r)
      PROVE  [DBStep]_dbVars
  <2> USE <1>1 DEF SchedulerTypes, LocalsOK, RoundOK, Executing, At
  <2>1. CASE MarkRunning(r)
    <3>1. current[r].pid \in Nat /\ Running \in 0..3
      BY <2>1 DEF MarkRunning, Snapshot, Running
    <3>2. QED
      BY <2>1, <3>1 DEF MarkRunning, DBStep, CallOn
  <2>2. CASE MarkReady(r)
    <3>1. current[r].pid \in Nat /\ Ready \in 0..3
      BY <2>2 DEF MarkReady, Snapshot, Ready
    <3>2. QED
      BY <2>2, <3>1 DEF MarkReady, DBStep, CallOn
  <2>3. CASE KeepImage(r)
    <3>1. /\ current[r] \in Snapshot /\ image[r] \in Images
          /\ index[r] \in 1..Len(current[r].targets)
      BY <2>3 DEF KeepImage
    <3>2. current[r].pid \in Nat /\ current[r].targets \in Seq(Target)
      BY <3>1 DEF Snapshot
    <3>3. Sight(r) \in Target
      BY <3>1, <3>2 DEF Sight
    <3>4. Sight(r).tid \in Tids
      BY <3>3 DEF Target
    <3>5. QED
      BY <2>3, <3>1, <3>2, <3>4 DEF KeepImage, DBStep, CallOn
  <2>4. CASE UNCHANGED dbVars
    BY <2>4
  <2>5. QED
    BY <2>1, <2>2, <2>3, <2>4
    DEF RoundStep, CreateLatch, FetchProposals, NextProposal, CutShort, ForgetRequest, AllDone,
        CameraOn, Move, Arrive, ObserveWithoutMount, ObserveWithoutInstrument, Expose,
        ObserveFails, NoMoreTargets, CameraOff, ClearProposal, CountDown, ClearLatch,
        ReleaseComponents, Finish, Abort
<1>2. ASSUME NEW c \in Callers, CallerStep(c)
      PROVE  UNCHANGED dbVars
  BY <1>2 DEF CallerStep, CallProceeds, Start, StartRound, StartFails, Stop,
              StopTestsLatch, StopAwaits, StopWakes, StopReturns
<1>3. QED
  BY <1>1, <1>2
  DEF SchedulerNext, Observers, ManagerDeactivates, ManagerProceeds, DatabaseFails,
      vars, DBStep, DBNext, LifeCycle, CleanUp

\* A snapshot is what getProposals() read in the map.
LEMMA FetchedAreSnapshots ==
    DBTypeOK => {[pid |-> p, targets |-> proposals[p].targets] : p \in GetProposals}
                    \subseteq Snapshot
  BY DEF DBTypeOK, IsProposalMap, Entry, GetProposals, Snapshot

\* A round without a proposal is told from one with a snapshot.
LEMMA NoProposalIsNoSnapshot == NoProposal \notin Snapshot
  BY DEF NoProposal, Snapshot

\* A step of a round keeps the types of the flags and of all rounds.
LEMMA RoundKeepsTypes ==
    ASSUME SchedulerTypes, NEW r \in Rounds, RoundStep(r)
    PROVE  FlagsOK' /\ LocalsOK' /\ \A s \in Rounds : RoundOK(s)'
<1> USE DEF SchedulerTypes, ControlOK, FlagsOK, LocalsOK, At, Goto, callers
<1>1. CASE CreateLatch(r) \/ ClearProposal(r) \/ CountDown(r) \/ ClearLatch(r)
           \/ ReleaseComponents(r) \/ Finish(r)
  <2>1. /\ LocalsOK' /\ UNCHANGED locals
        /\ rpc[r] \in {"new", "epilogue", "countDown", "counted", "release", "finally"}
        /\ \E there \in {"fetch", "countDown", "counted", "release", "finally", "dead"} :
              rpc' = [rpc EXCEPT ![r] = there]
    BY <1>1 DEF CreateLatch, ClearProposal, CountDown, ClearLatch, ReleaseComponents,
                Finish, flags, locals
  <2>2. FlagsOK'
    BY <1>1 DEF CreateLatch, ClearProposal, CountDown, ClearLatch, ReleaseComponents,
                Finish, flags
  <2>3. \A s \in Rounds : RoundOK(s)'
    BY <2>1 DEF RoundOK, Executing, locals
  <2>4. QED
    BY <2>1, <2>2, <2>3
<1>2. CASE FetchProposals(r)
  BY <1>2, FetchedAreSnapshots DEF FetchProposals, RoundOK, Executing, flags
<1>3. CASE NextProposal(r)
  <2>1. PICK p \in todo[r] :
           /\ current' = [current EXCEPT ![r] = p]
           /\ todo' = [todo EXCEPT ![r] = @ \ {p}]
           /\ proposalUnderExecution' = p.pid
    BY <1>3 DEF NextProposal
  <2>2. p \in Snapshot /\ p.pid \in Nat
    BY DEF Snapshot
  <2>3. QED
    BY <1>3, <2>1, <2>2 DEF NextProposal, RoundOK, Executing
<1>4. CASE CutShort(r) \/ ForgetRequest(r) \/ AllDone(r)
  <2>1. /\ UNCHANGED <<proposalUnderExecution, isRunning, telescopeFinishedSync, released,
                       dbHeld, current, index, image, callers, aim>>
        /\ stopSchedulerRequest' \in BOOLEAN
        /\ rpc[r] \in {"loop", "cut"}
        /\ \E there \in {"cut", "epilogue"} : rpc' = [rpc EXCEPT ![r] = there]
    BY <1>4 DEF CutShort, ForgetRequest, AllDone, flags, locals
  <2>2. todo' = todo \/ todo' = [todo EXCEPT ![r] = {}]
    BY <1>4 DEF CutShort, ForgetRequest, AllDone, locals
  <2>3. FlagsOK' /\ LocalsOK'
    BY <2>1, <2>2
  <2>4. QED
    BY <2>1, <2>3 DEF RoundOK, Executing
<1>5. CASE MarkRunning(r) \/ CameraOn(r)
  <2>1. CASE MarkRunning(r)
    <3>1. /\ UNCHANGED <<flags, dbHeld, locals, callers, aim>>
          /\ rpc[r] = "begin" /\ rpc' = [rpc EXCEPT ![r] = "cameraOn"]
      BY <2>1 DEF MarkRunning
    <3>2. QED
      BY <3>1 DEF RoundOK, Executing, flags, locals
  <2>2. CASE CameraOn(r)
    <3>1. /\ UNCHANGED <<flags, dbHeld, todo, current, image, callers, aim>>
          /\ index' = [index EXCEPT ![r] = 1]
          /\ rpc[r] = "cameraOn" /\ rpc' = [rpc EXCEPT ![r] = "target"]
      BY <2>2 DEF CameraOn
    <3>2. QED
      BY <3>1 DEF RoundOK, Executing, flags
  <2>3. QED
    BY <1>5, <2>1, <2>2
<1>6. CASE Move(r) \/ Arrive(r) \/ ObserveWithoutMount(r)
  <2>1. index[r] \in 1..Len(current[r].targets)
    BY <1>6 DEF Move, Arrive, ObserveWithoutMount, HasTarget, RoundOK, Executing, Snapshot
  <2>2. ASSUME Move(r)
        PROVE  Sight(r).pos \in Positions
    <3>1. current[r].targets \in Seq(Target)
      BY <2>2 DEF Move, RoundOK, Executing, Snapshot
    <3>2. Sight(r) \in Target
      BY <2>1, <3>1 DEF Sight
    <3>3. QED
      BY <3>2 DEF Target
  <2>3. FlagsOK' /\ LocalsOK' /\ UNCHANGED locals
    BY <1>6, <2>2 DEF Move, Arrive, ObserveWithoutMount, flags, locals
  <2>4. /\ rpc[r] \in {"target", "moving"}
        /\ \E there \in {"moving", "expose"} : rpc' = [rpc EXCEPT ![r] = there]
    BY <1>6 DEF Move, Arrive, ObserveWithoutMount
  <2>5. QED
    BY <2>1, <2>3, <2>4 DEF RoundOK, Executing, locals
<1>7. CASE ObserveWithoutInstrument(r) \/ Expose(r)
  <2>1. index[r] \in 1..Len(current[r].targets)
    BY <1>7 DEF ObserveWithoutInstrument, Expose, HasTarget, RoundOK, Executing, Snapshot
  <2>2. PICK picture \in Images : image' = [image EXCEPT ![r] = picture]
    BY <1>7, SchedulerAssumption DEF ObserveWithoutInstrument, Expose
  <2>3. /\ rpc[r] \in {"target", "expose"} /\ rpc' = [rpc EXCEPT ![r] = "store"]
        /\ UNCHANGED <<flags, dbHeld, todo, current, index, callers, aim>>
    BY <1>7 DEF ObserveWithoutInstrument, Expose
  <2>4. QED
    BY <2>1, <2>2, <2>3 DEF RoundOK, Executing, flags
<1>8. CASE ObserveFails(r) \/ KeepImage(r)
  <2>1. /\ rpc[r] \in {"target", "moving", "expose", "store"} /\ index[r] >= 1
        /\ rpc' = [rpc EXCEPT ![r] = "target"]
        /\ index' = [index EXCEPT ![r] = index[r] + 1]
        /\ UNCHANGED <<flags, dbHeld, todo, current, callers, aim>>
    BY <1>8 DEF ObserveFails, KeepImage, NextTarget, RoundOK
  <2>2. image' = [image EXCEPT ![r] = NoImage]
    BY <1>8 DEF ObserveFails, KeepImage, RoundOK
  <2>3. FlagsOK' /\ LocalsOK'
    BY <2>1, <2>2 DEF flags
  <2>4. QED
    BY <2>1, <2>2, <2>3 DEF RoundOK, Executing
<1>9. CASE NoMoreTargets(r) \/ CameraOff(r)
  BY <1>9 DEF NoMoreTargets, CameraOff, RoundOK, Executing, flags, locals
<1>10. CASE MarkReady(r) \/ Abort(r)
  <2>1. /\ rpc[r] # "store"
        /\ \E there \in {"loop", "finally"} : rpc' = [rpc EXCEPT ![r] = there]
        /\ \E rest \in SUBSET todo[r] : todo' = [todo EXCEPT ![r] = rest]
        /\ current' = [current EXCEPT ![r] = NoProposal]
        /\ index' = [index EXCEPT ![r] = 0]
        /\ UNCHANGED <<flags, dbHeld, image, callers, aim>>
    BY <1>10 DEF MarkReady, Abort
  <2>2. FlagsOK' /\ LocalsOK'
    BY <2>1 DEF flags
  <2>3. QED
    BY <2>1, <2>2 DEF RoundOK, Executing
<1>11. QED
  BY <1>1, <1>2, <1>3, <1>4, <1>5, <1>6, <1>7, <1>8, <1>9, <1>10 DEF RoundStep

\* So does a caller.
LEMMA CallerKeepsTypes ==
    ASSUME SchedulerTypes, NEW c \in Callers, CallerStep(c)
    PROVE  FlagsOK' /\ LocalsOK' /\ \A s \in Rounds : RoundOK(s)'
<1> USE DEF SchedulerTypes, ControlOK, FlagsOK, LocalsOK, At, Goto, CallerAt, CallerGoto
<1>1. CASE StartRound(c)
  BY <1>1 DEF StartRound, RoundOK, Executing, flags, locals
<1>2. CASE ~StartRound(c)
  <2>1. UNCHANGED <<rpc, locals>>
    BY <1>2 DEF CallerStep, CallProceeds, Start, StartFails, Stop, StopTestsLatch,
                StopAwaits, StopWakes, StopReturns
  <2>2. FlagsOK'
    BY <1>2 DEF CallerStep, CallProceeds, Start, StartFails, Stop, StopTestsLatch,
                StopAwaits, StopWakes, StopReturns, flags
  <2>3. QED
    BY <2>1, <2>2 DEF RoundOK, Executing, locals
<1>3. QED
  BY <1>1, <1>2

\* The types are inductive.
LEMMA TypesStep == SchedulerTypes /\ [SchedulerNext]_vars => SchedulerTypes'
<1> SUFFICES ASSUME SchedulerTypes, [SchedulerNext]_vars
             PROVE  SchedulerTypes'
  OBVIOUS
<1>1. DBTypeOK' /\ ControlOK'
  BY DatabaseSteps, DBTypeStep, ControlStep DEF SchedulerTypes
<1>2. FlagsOK' /\ LocalsOK' /\ \A s \in Rounds : RoundOK(s)'
  <2>1. CASE UNCHANGED <<flags, dbHeld, rpc, locals, callers, aim>>
    BY <2>1 DEF SchedulerTypes, FlagsOK, LocalsOK, RoundOK, Executing, At,
                flags, locals, callers
  <2>2. QED
    BY <2>1, RoundKeepsTypes, CallerKeepsTypes
    DEF SchedulerNext, Observers, ManagerDeactivates, ManagerProceeds, DatabaseFails, vars
<1>3. QED
  BY <1>1, <1>2 DEF SchedulerTypes

\* They hold at the start.
LEMMA TypesInit == SchedulerInit => SchedulerTypes
<1> SUFFICES ASSUME SchedulerInit
             PROVE  SchedulerTypes
  OBVIOUS
<1>1. DBTypeOK
  BY EmptyMapOK DEF SchedulerInit, DBInit, DBTypeOK, IsProposalMap
<1>2. QED
  BY <1>1 DEF SchedulerInit, SchedulerTypes, ControlOK, RoundStates, CallerStates,
              FlagsOK, LocalsOK, RoundOK, Executing, At

\* So they always hold.
LEMMA TypesAlways == SchedulerSpec => []SchedulerTypes
  BY TypesInit, TypesStep, PTL DEF SchedulerSpec

\* A round has a snapshot exactly while it works on a proposal and a picture
\* exactly while it is about to store one, whatever fails and however many
\* rounds overlap.
THEOREM SchedulerTypeCorrect == SchedulerSpec => []SchedulerTypeOK
  BY TypesAlways, TypesAreTypeOK, PTL

-----------------------------------------------------------------------------
\* What the database means to a round: the counter covers its map, an object
\* that is gone is empty.
DatabaseOK == CounterCoversMap /\ DownIsEmpty

\* The facts about the database survive every step of the whole.
LEMMA DatabaseOKStep ==
    ASSUME SchedulerTypes, DatabaseOK, [SchedulerNext]_vars
    PROVE  DatabaseOK'
  BY DatabaseSteps, CounterStep, DownIsEmptyStep DEF DatabaseOK, SchedulerTypes

\* They hold at the start.
LEMMA DatabaseOKInit == SchedulerInit => DatabaseOK
  BY EmptyMapOK DEF SchedulerInit, DBInit, DatabaseOK, CounterCoversMap, DownIsEmpty

\* A step of the database that loses nothing: the targets of a proposal never
\* change, also while it is only in the file, and a new one has a new pid.
NewOrSame ==
    /\ Counter' >= Counter
    /\ \A p \in DOMAIN StoreView' :
          \/ p \in DOMAIN StoreView /\ StoreView'[p].targets = StoreView[p].targets
          \/ p \notin DOMAIN StoreView /\ p > Counter /\ StoreView'[p].status = Queued

\* The targets of a pid never change: a step leaves them, or the pid is new.
LEMMA StoreIsNewOrSame ==
    ASSUME DBTypeOK, CounterCoversMap, ~MayFail, [DBStep]_dbVars
    PROVE  NewOrSame
<1> USE DEF NewOrSame, Counter, StoreView
<1>0. Counter \in Nat /\ lastProposalId \in Nat
  BY DEF DBTypeOK
<1>1. ASSUME NEW targets \in TargetLists, StoreProposal(targets)
      PROVE  NewOrSame
  <2> DEFINE pid == lastProposalId + 1
             new == [status |-> Queued, targets |-> targets,
                     observations |-> [i \in 1..Len(targets) |-> NoImage]]
  <2>1. /\ dbState = "up" /\ dbState' = "up" /\ lastProposalId' = pid
        /\ DOMAIN proposals' = DOMAIN proposals \cup {pid}
        /\ \A p \in DOMAIN proposals : p # pid => proposals'[p] = proposals[p]
        /\ proposals'[pid] = new
    BY <1>1 DEF StoreProposal
  <2>2. pid \notin DOMAIN proposals
    BY DEF CounterCoversMap, DBTypeOK, IsProposalMap
  <2>3. new.status = Queued /\ pid > lastProposalId /\ pid \in Nat
    BY <1>0
  <2> HIDE DEF pid, new
  <2>4. /\ StoreView = proposals /\ StoreView' = proposals'
        /\ Counter = lastProposalId /\ Counter' = pid
    BY <2>1
  <2>5. QED
    BY <1>0, <2>1, <2>2, <2>3, <2>4
<1>2. ASSUME NEW pid, NEW status, SetProposalStatus(pid, status)
      PROVE  NewOrSame
  BY <1>0, <1>2 DEF SetProposalStatus, DBTypeOK, IsProposalMap, Entry, Exists
<1>3. ASSUME NEW pid, NEW tid, NEW picture \in Images, StoreImage(pid, tid, picture)
      PROVE  NewOrSame
  <2>1. KeepsImages
    BY <1>3, ImageStepKeepsImages
  <2>2. DOMAIN proposals' = DOMAIN proposals
    BY <1>3 DEF StoreImage
  <2>3. UNCHANGED <<lastProposalId, dbState, dbFile>> /\ dbState = "up"
    BY <1>3 DEF StoreImage
  <2>4. QED
    BY <1>0, <2>1, <2>2, <2>3 DEF KeepsImages
<1>4. ASSUME NEW pid, RemoveProposal(pid)
      PROVE  NewOrSame
  BY <1>0, <1>4 DEF RemoveProposal
<1>5. CASE Clean
  BY <1>0, <1>5, EmptyMapOK DEF Clean
<1>6. CASE CleanUp
  BY <1>0, <1>6 DEF CleanUp, CleanUpOpen, CleanUpWritePid, CleanUpWriteMap, FileOf
<1>7. CASE Initialize
  BY <1>0, <1>7 DEF Initialize
<1>8. CASE UNCHANGED dbVars
  BY <1>0, <1>8 DEF dbVars
<1>9. QED
  BY <1>1, <1>2, <1>3, <1>4, <1>5, <1>6, <1>7, <1>8
  DEF DBStep, CallOn, DBNext, Client, Executor, LifeCycle, Lose

\* Only setProposalStatus() changes the status of a proposal.
LEMMA OthersKeepStatus ==
    ASSUME DBTypeOK, CounterCoversMap, ~MayFail,
           \/ Client \/ LifeCycle \/ UNCHANGED dbVars
           \/ \E pid \in Nat, tid \in Tids, picture \in Images : StoreImage(pid, tid, picture),
           NEW p \in DOMAIN StoreView, p \in DOMAIN StoreView'
    PROVE  StoreView'[p].status = StoreView[p].status
<1> USE DEF StoreView
<1>1. ASSUME NEW targets \in TargetLists, StoreProposal(targets)
      PROVE  StoreView'[p].status = StoreView[p].status
  <2>1. lastProposalId + 1 \notin DOMAIN proposals
    BY DEF CounterCoversMap, DBTypeOK, IsProposalMap
  <2>2. QED
    BY <1>1, <2>1 DEF StoreProposal
<1>2. ASSUME NEW pid \in Nat, NEW tid \in Tids, NEW picture \in Images,
             StoreImage(pid, tid, picture)
      PROVE  StoreView'[p].status = StoreView[p].status
  <2>1. StoreView = proposals /\ StoreView' = proposals'
    BY <1>2 DEF StoreImage
  <2>2. ASSUME NEW i,
               proposals' = [proposals EXCEPT ![pid].observations[i] = picture]
        PROVE  proposals'[p].status = proposals[p].status
    <3>1. proposals[p] \in Entry
      BY <2>1 DEF DBTypeOK, IsProposalMap
    <3>2. QED
      BY <2>1, <2>2, <3>1 DEF Entry
  <2>3. QED
    BY <1>2, <2>1, <2>2 DEF StoreImage
<1>3. CASE \E pid \in Pids : RemoveProposal(pid)
  BY <1>3 DEF RemoveProposal
<1>4. CASE Clean
  BY <1>4, EmptyMapOK DEF Clean
<1>5. CASE CleanUp
  BY <1>5 DEF CleanUp, CleanUpOpen, CleanUpWritePid, CleanUpWriteMap, FileOf
<1>6. CASE Initialize
  BY <1>6 DEF Initialize
<1>7. CASE UNCHANGED dbVars
  BY <1>7 DEF dbVars
<1>8. QED
  BY <1>1, <1>2, <1>3, <1>4, <1>5, <1>6, <1>7 DEF Client, LifeCycle, Lose

-----------------------------------------------------------------------------
\* What a round carries is a copy.  The copy stays true of the proposal as long
\* as that is stored anywhere, and its pid is never given to another.
Carried(r) == todo[r] \cup ({current[r]} \ {NoProposal})

SnapshotsAgree ==
    \A r \in Rounds : \A q \in Carried(r) :
        /\ q.pid <= Counter
        /\ q.pid \in DOMAIN StoreView => StoreView[q.pid].targets = q.targets

\* What a round carries is what it fetched, or less.
LEMMA CarriedGetsLess ==
    ASSUME SchedulerTypes, [SchedulerNext]_vars, NEW s \in Rounds,
           ~FetchProposals(s)
    PROVE  Carried(s)' \subseteq Carried(s)
<1> USE DEF SchedulerTypes, LocalsOK, Carried
<1>1. ASSUME NEW r \in Rounds, RoundStep(r)
      PROVE  Carried(s)' \subseteq Carried(s)
  <2>1. CASE FetchProposals(r)
    BY <2>1 DEF FetchProposals
  <2>2. CASE NextProposal(r) \/ CutShort(r) \/ MarkReady(r) \/ Abort(r)
    BY <2>2 DEF NextProposal, CutShort, MarkReady, Abort
  <2>3. CASE UNCHANGED <<todo, current>>
    BY <2>3
  <2>4. QED
    BY <1>1, <2>1, <2>2, <2>3
    DEF RoundStep, CreateLatch, ForgetRequest, AllDone, MarkRunning, CameraOn, Move, Arrive,
        ObserveWithoutMount, ObserveWithoutInstrument, Expose, ObserveFails, KeepImage,
        NoMoreTargets, CameraOff, ClearProposal, CountDown, ClearLatch,
        ReleaseComponents, Finish, locals
<1>2. ASSUME NEW c \in Callers, CallerStep(c)
      PROVE  UNCHANGED <<todo, current>>
  BY <1>2 DEF CallerStep, CallProceeds, Start, StartRound, StartFails, Stop,
              StopTestsLatch, StopAwaits, StopWakes, StopReturns, locals
<1>3. CASE UNCHANGED <<todo, current>>
  BY <1>3
<1>4. QED
  BY <1>1, <1>2, <1>3
  DEF SchedulerNext, Observers, ManagerDeactivates, ManagerProceeds, DatabaseFails,
      vars, locals

\* Every snapshot that is carried keeps the targets of its proposal.
LEMMA SnapshotsStep ==
    ASSUME SchedulerTypes, DatabaseOK, ~MayFail, SnapshotsAgree, [SchedulerNext]_vars
    PROVE  SnapshotsAgree'
<1>1. NewOrSame
  BY DatabaseSteps, StoreIsNewOrSame DEF SchedulerTypes, DatabaseOK
<1>2. Counter \in Nat /\ Counter' \in Nat
  BY TypesStep DEF SchedulerTypes, DBTypeOK, Counter
<1>3. ASSUME NEW r \in Rounds, NEW q \in Carried(r)'
      PROVE  /\ q.pid <= Counter'
             /\ q.pid \in DOMAIN StoreView' => StoreView'[q.pid].targets = q.targets
  <2>1. q.pid \in Nat
    BY <1>3, TypesStep DEF SchedulerTypes, LocalsOK, Carried, Snapshot
  <2>2. CASE FetchProposals(r)
    <3>1. /\ q \in {[pid |-> p, targets |-> proposals[p].targets] : p \in GetProposals}
          /\ UNCHANGED dbVars /\ dbState = "up"
      BY <1>3, <2>2 DEF FetchProposals, Carried, SchedulerTypes, LocalsOK, RoundOK,
                        At, Executing
    <3>2. q.pid \in DOMAIN proposals /\ q.targets = proposals[q.pid].targets
      BY <3>1 DEF GetProposals
    <3>3. QED
      BY <3>1, <3>2 DEF DatabaseOK, CounterCoversMap, Counter, StoreView, dbVars
  <2>3. CASE ~FetchProposals(r)
    <3>1. q \in Carried(r)
      BY <1>3, <2>3, CarriedGetsLess
    <3>2. QED
      BY <1>1, <1>2, <2>1, <3>1 DEF SnapshotsAgree, NewOrSame
  <2>4. QED
    BY <2>2, <2>3
<1>4. QED
  BY <1>3 DEF SnapshotsAgree

-----------------------------------------------------------------------------
\* What makes NoPrematureReady inductive: how far each round is with the
\* targets of its snapshot, and the same of proposals that are in the file.
Tried(r) ==
    /\ rpc[r] \in {"target", "moving", "expose"} =>
          \A i \in 1..(index[r] - 1) : <<current[r].pid, i>> \in attempted
    /\ At(r, "store") => \A i \in 1..index[r] : <<current[r].pid, i>> \in attempted
    /\ rpc[r] \in {"cameraOff", "ready"} =>
          \A i \in DOMAIN current[r].targets : <<current[r].pid, i>> \in attempted

ReadyEarned ==
    \A p \in DOMAIN StoreView : StoreView[p].status = Ready =>
        \A i \in DOMAIN StoreView[p].targets : <<p, i>> \in attempted

EarnedInv == SnapshotsAgree /\ ReadyEarned /\ \A r \in Rounds : Tried(r)

\* Targets that were tried stay tried.
LEMMA AttemptedGrows ==
    ASSUME [SchedulerNext]_vars
    PROVE  attempted \subseteq attempted'
<1>1. ASSUME NEW r \in Rounds, RoundStep(r)
      PROVE  attempted \subseteq attempted'
  BY <1>1
  DEF RoundStep, CreateLatch, FetchProposals, NextProposal, CutShort, ForgetRequest, AllDone,
      MarkRunning, CameraOn, Move, Arrive, ObserveWithoutMount,
      ObserveWithoutInstrument, Expose, ObserveFails, KeepImage, NoMoreTargets,
      CameraOff, MarkReady, ClearProposal, CountDown, ClearLatch, ReleaseComponents,
      Finish, Abort, history
<1>2. ASSUME NEW c \in Callers, CallerStep(c)
      PROVE  UNCHANGED attempted
  BY <1>2 DEF CallerStep, CallProceeds, Start, StartRound, StartFails, Stop,
              StopTestsLatch, StopAwaits, StopWakes, StopReturns, history
<1>3. QED
  BY <1>1, <1>2
  DEF SchedulerNext, Observers, ManagerDeactivates, ManagerProceeds, DatabaseFails,
      vars, history

\* The steps of its own round count each target that is left behind.
LEMMA TriedStep ==
    ASSUME SchedulerTypes, [SchedulerNext]_vars, NEW s \in Rounds, Tried(s)
    PROVE  Tried(s)'
<1> USE AttemptedGrows DEF SchedulerTypes, ControlOK, LocalsOK, Tried, At, Goto
<1>1. CASE RoundStep(s)
  <2>1. CASE CameraOn(s)
    BY <2>1 DEF CameraOn
  <2>2. CASE Move(s) \/ Arrive(s) \/ ObserveWithoutMount(s)
    BY <2>2 DEF Move, Arrive, ObserveWithoutMount, locals
  <2>3. CASE ObserveWithoutInstrument(s) \/ Expose(s)
    <3>1. /\ attempted' = attempted \cup {<<current[s].pid, index[s]>>}
          /\ UNCHANGED <<current, index>> /\ rpc'[s] = "store"
          /\ \A i \in 1..(index[s] - 1) : <<current[s].pid, i>> \in attempted
          /\ index[s] \in Nat
      BY <2>3 DEF ObserveWithoutInstrument, Expose
    <3>2. \A i \in 1..index[s] : i = index[s] \/ i \in 1..(index[s] - 1)
      BY <3>1
    <3>3. QED
      BY <3>1, <3>2
  <2>4. CASE ObserveFails(s)
    <3>1. /\ attempted' = attempted \cup {<<current[s].pid, index[s]>>}
          /\ UNCHANGED current /\ index'[s] = index[s] + 1 /\ rpc'[s] = "target"
          /\ \A i \in 1..(index[s] - 1) : <<current[s].pid, i>> \in attempted
          /\ index[s] \in Nat
      BY <2>4 DEF ObserveFails, NextTarget
    <3>2. \A i \in 1..(index'[s] - 1) : i = index[s] \/ i \in 1..(index[s] - 1)
      BY <3>1
    <3>3. QED
      BY <3>1, <3>2
  <2>5. CASE KeepImage(s)
    BY <2>5 DEF KeepImage, NextTarget, history
  <2>6. CASE NoMoreTargets(s)
    <3>1. /\ UNCHANGED <<current, attempted>> /\ rpc'[s] = "cameraOff"
          /\ rpc[s] = "target" /\ ~(index[s] <= Len(current[s].targets))
      BY <2>6 DEF NoMoreTargets, HasTarget, locals, history
    <3>2. current[s].targets \in Seq(Target) /\ index[s] \in Nat
      BY <3>1 DEF RoundOK, Executing, Snapshot
    <3>3. DOMAIN current[s].targets \subseteq 1..(index[s] - 1)
      BY <3>1, <3>2
    <3>4. QED
      BY <3>1, <3>3
  <2>7. CASE CameraOff(s)
    BY <2>7 DEF CameraOff, locals
  <2>8. CASE rpc'[s] \notin {"target", "moving", "expose", "store", "cameraOff", "ready"}
    BY <2>8
  <2>9. QED
    BY <1>1, <2>1, <2>2, <2>3, <2>4, <2>5, <2>6, <2>7, <2>8
    DEF RoundStep, CreateLatch, FetchProposals, NextProposal, CutShort, ForgetRequest, AllDone,
        MarkRunning, MarkReady, ClearProposal, CountDown, ClearLatch,
        ReleaseComponents, Finish, Abort
<1>2. ASSUME NEW r \in Rounds, r # s, RoundStep(r)
      PROVE  rpc'[s] = rpc[s] /\ index'[s] = index[s] /\ current'[s] = current[s]
  BY <1>2
  DEF RoundStep, CreateLatch, FetchProposals, NextProposal, CutShort, ForgetRequest, AllDone,
      MarkRunning, CameraOn, Move, Arrive, ObserveWithoutMount,
      ObserveWithoutInstrument, Expose, ObserveFails, KeepImage, NoMoreTargets,
      CameraOff, MarkReady, ClearProposal, CountDown, ClearLatch, ReleaseComponents,
      Finish, Abort, NextTarget, locals
<1>3. ASSUME NEW c \in Callers, CallerStep(c)
      PROVE  /\ rpc'[s] = rpc[s] \/ rpc'[s] = "new"
             /\ index'[s] = index[s] /\ current'[s] = current[s]
  BY <1>3 DEF CallerStep, CallProceeds, Start, StartRound, StartFails, Stop,
              StopTestsLatch, StopAwaits, StopWakes, StopReturns, locals
<1>4. CASE UNCHANGED <<rpc, index, current>>
  BY <1>4
<1>5. QED
  BY <1>1, <1>2, <1>3, <1>4
  DEF SchedulerNext, Observers, ManagerDeactivates, ManagerProceeds, DatabaseFails,
      vars, locals

\* A call of setProposalStatus() sets the status of its proposal and no other's.
LEMMA StatusIsSet ==
    ASSUME SchedulerTypes, NEW pid \in Nat, NEW status \in Statuses,
           SetProposalStatus(pid, status), NEW p \in DOMAIN StoreView
    PROVE  /\ p = pid => StoreView'[p].status = status
           /\ p # pid => StoreView'[p] = StoreView[p]
<1>1. StoreView = proposals /\ StoreView' = proposals'
  BY DEF SetProposalStatus, StoreView
<1>2. DOMAIN proposals \subseteq Nat /\ \A q \in DOMAIN proposals : proposals[q] \in Entry
  BY DEF SchedulerTypes, DBTypeOK, IsProposalMap
<1>3. proposals[p] \in Entry /\ (p = pid => Exists(pid))
  BY <1>1, <1>2 DEF Exists
<1>4. QED
  BY <1>1, <1>3 DEF SetProposalStatus, Exists, Entry

\* A status is written by MarkRunning and MarkReady only.
LEMMA StatusWriters ==
    ASSUME SchedulerTypes, DatabaseOK, ~MayFail, [SchedulerNext]_vars
    PROVE  \/ \E r \in Rounds : MarkRunning(r) \/ MarkReady(r)
           \/ \A p \in DOMAIN StoreView \cap DOMAIN StoreView' :
                 StoreView'[p].status = StoreView[p].status
<1>1. \/ \E r \in Rounds : MarkRunning(r) \/ MarkReady(r)
      \/ Client \/ LifeCycle \/ UNCHANGED dbVars
      \/ \E pid \in Nat, tid \in Tids, picture \in Images : StoreImage(pid, tid, picture)
  <2>1. ASSUME NEW r \in Rounds, KeepImage(r)
        PROVE  \/ UNCHANGED dbVars
               \/ \E pid \in Nat, tid \in Tids, picture \in Images :
                     StoreImage(pid, tid, picture)
    <3>1. /\ current[r] \in Snapshot /\ image[r] \in Images
          /\ index[r] \in 1..Len(current[r].targets)
      BY <2>1 DEF KeepImage, SchedulerTypes, RoundOK, Executing, At
    <3>2. current[r].pid \in Nat /\ current[r].targets \in Seq(Target)
      BY <3>1 DEF Snapshot
    <3>3. Sight(r) \in Target
      BY <3>1, <3>2 DEF Sight
    <3>4. Sight(r).tid \in Tids
      BY <3>3 DEF Target
    <3>5. QED
      BY <2>1, <3>1, <3>2, <3>4 DEF KeepImage
  <2>2. ASSUME NEW r \in Rounds, RoundStep(r), ~KeepImage(r)
        PROVE  UNCHANGED dbVars \/ MarkRunning(r) \/ MarkReady(r)
    BY <2>2
    DEF RoundStep, CreateLatch, FetchProposals, NextProposal, CutShort, ForgetRequest, AllDone,
        CameraOn, Move, Arrive, ObserveWithoutMount, ObserveWithoutInstrument, Expose,
        ObserveFails, NoMoreTargets, CameraOff, ClearProposal, CountDown, ClearLatch,
        ReleaseComponents, Finish, Abort
  <2>3. ASSUME NEW c \in Callers, CallerStep(c)
        PROVE  UNCHANGED dbVars
    BY <2>3 DEF CallerStep, CallProceeds, Start, StartRound, StartFails, Stop,
                StopTestsLatch, StopAwaits, StopWakes, StopReturns
  <2>4. QED
    BY <2>1, <2>2, <2>3
    DEF SchedulerNext, Observers, ManagerDeactivates, ManagerProceeds, DatabaseFails,
        vars, LifeCycle, CleanUp
<1>2. QED
  BY <1>1, OthersKeepStatus DEF SchedulerTypes, DatabaseOK

\* A proposal that becomes ready has had all its targets tried.
LEMMA ReadyStep ==
    ASSUME SchedulerTypes, DatabaseOK, ~MayFail, EarnedInv, [SchedulerNext]_vars
    PROVE  ReadyEarned'
<1>1. NewOrSame /\ attempted \subseteq attempted'
  BY DatabaseSteps, StoreIsNewOrSame, AttemptedGrows DEF SchedulerTypes, DatabaseOK
<1>2. ASSUME NEW p \in DOMAIN StoreView', StoreView'[p].status = Ready
      PROVE  \A i \in DOMAIN StoreView'[p].targets : <<p, i>> \in attempted'
  <2>1. p \in DOMAIN StoreView /\ StoreView'[p].targets = StoreView[p].targets
    BY <1>1, <1>2 DEF NewOrSame, Queued, Ready
  <2>2. CASE StoreView[p].status = Ready
    BY <1>1, <2>1, <2>2 DEF EarnedInv, ReadyEarned
  <2>3. CASE StoreView[p].status # Ready
    <3>1. PICK r \in Rounds : MarkRunning(r) \/ MarkReady(r)
      BY <1>2, <2>1, <2>3, StatusWriters
    <3>2. current[r].pid \in Nat
      BY <3>1 DEF MarkRunning, MarkReady, SchedulerTypes, RoundOK, Executing, At, Snapshot
    <3>3. MarkReady(r) /\ current[r].pid = p
      BY <1>2, <2>1, <2>3, <3>2, <3>1, StatusIsSet
      DEF MarkRunning, MarkReady, Statuses, Running, Ready
    <3>4. current[r] \in Carried(r) /\ At(r, "ready")
      BY <3>3, NoProposalIsNoSnapshot
      DEF MarkReady, Carried, SchedulerTypes, RoundOK, Executing, At
    <3>5. StoreView[p].targets = current[r].targets
      BY <2>1, <3>3, <3>4 DEF EarnedInv, SnapshotsAgree
    <3>6. QED
      BY <1>1, <2>1, <3>3, <3>4, <3>5 DEF EarnedInv, Tried, At
  <2>4. QED
    BY <2>2, <2>3
<1>3. QED
  BY <1>2 DEF ReadyEarned

\* Unless a crash gives the pid to somebody else, a proposal is marked ready only
\* after its round has tried all its targets: with any number of rounds at once,
\* stop() calls, remote faults, removals and deactivations of the database.
THEOREM ReadyIsEarned ==
    ASSUME ~MayFail
    PROVE  SchedulerSpec => []NoPrematureReady
<1>1. SchedulerInit => EarnedInv
  BY DEF SchedulerInit, DBInit, NoProposals, EarnedInv, SnapshotsAgree, Carried,
         ReadyEarned, StoreView, Tried, At
<1>2. SchedulerTypes /\ DatabaseOK /\ EarnedInv /\ [SchedulerNext]_vars
        => DatabaseOK' /\ EarnedInv'
  BY DatabaseOKStep, SnapshotsStep, ReadyStep, TriedStep DEF EarnedInv
<1>3. DatabaseOK /\ EarnedInv => NoPrematureReady
  BY DEF DatabaseOK, DownIsEmpty, NoProposals, EarnedInv, ReadyEarned, StoreView,
         NoPrematureReady
<1>4. QED
  BY <1>1, <1>2, <1>3, DatabaseOKInit, TypesAlways, PTL DEF SchedulerSpec

-----------------------------------------------------------------------------
\* From its start to releaseComponent() a round can count on the database: as
\* long as it is never deactivated, or no round overlaps another and lets the
\* reference go.
Serving == RoundStates \ {"unborn", "finally", "dead"}

Served ==
    /\ \A r \in Rounds : rpc[r] \in Serving => dbState = "up"
    /\ ~Stops => \A r \in Rounds : rpc[r] \in Serving => dbHeld

\* Served is inductive with the types and Exclusion.
LEMMA ServedStep ==
    ASSUME SchedulerTypes, Exclusion, Served, [SchedulerNext]_vars,
           ~MayFail, ~DBReleased \/ ~Stops
    PROVE  Served'
<1> USE DEF SchedulerTypes, ControlOK, At, Goto
<1>1. ASSUME NEW r \in Rounds, RoundStep(r)
      PROVE  Served'
  <2>1. dbState' = dbState
    BY <1>1
    DEF RoundStep, CreateLatch, FetchProposals, NextProposal, CutShort, ForgetRequest, AllDone,
        MarkRunning, CameraOn, Move, Arrive, ObserveWithoutMount,
        ObserveWithoutInstrument, Expose, ObserveFails, KeepImage, NoMoreTargets,
        CameraOff, MarkReady, ClearProposal, CountDown, ClearLatch, ReleaseComponents,
        Finish, Abort, SetProposalStatus, StoreImage, dbVars
  <2>2. \A s \in Rounds : rpc'[s] \in Serving => rpc[s] \in Serving
    BY <1>1, RoundStepMoves DEF MovesRound, Serving, Alive, RoundStates, RoundStep,
        CreateLatch, FetchProposals, NextProposal, CutShort, ForgetRequest, AllDone,
        MarkRunning, CameraOn, Move, Arrive, ObserveWithoutMount,
        ObserveWithoutInstrument, Expose, ObserveFails, KeepImage, NoMoreTargets,
        CameraOff, MarkReady, ClearProposal, CountDown, ClearLatch, ReleaseComponents,
        Finish, Abort
  <2>3. CASE ReleaseComponents(r)
    <3>1. rpc' = [rpc EXCEPT ![r] = "finally"] /\ Alive(r)
      BY <2>3 DEF ReleaseComponents, Alive
    <3>2. ~Stops => \A s \in Rounds : rpc'[s] \notin Serving
      BY <2>2, <3>1 DEF Exclusion, Alive, Serving
    <3>3. QED
      BY <2>1, <2>2, <3>2 DEF Served
  <2>4. CASE ~ReleaseComponents(r)
    <3>1. dbHeld' = dbHeld
      BY <1>1, <2>4
      DEF RoundStep, CreateLatch, FetchProposals, NextProposal, CutShort, ForgetRequest, AllDone,
          MarkRunning, CameraOn, Move, Arrive, ObserveWithoutMount,
          ObserveWithoutInstrument, Expose, ObserveFails, KeepImage, NoMoreTargets,
          CameraOff, MarkReady, ClearProposal, CountDown, ClearLatch, Finish, Abort
    <3>2. QED
      BY <2>1, <2>2, <3>1 DEF Served
  <2>5. QED
    BY <2>3, <2>4
<1>2. ASSUME NEW c \in Callers, CallerStep(c)
      PROVE  Served'
  <2>1. CASE StartRound(c)
    BY <2>1 DEF StartRound, Served, Serving, dbVars
  <2>2. CASE ~StartRound(c)
    <3>1. UNCHANGED <<rpc, dbState, dbHeld>>
      BY <1>2, <2>2 DEF CallerStep, CallProceeds, Start, StartFails, Stop,
                        StopTestsLatch, StopAwaits, StopWakes, StopReturns, dbVars
    <3>2. QED
      BY <3>1 DEF Served
  <2>3. QED
    BY <2>1, <2>2
<1>3. CASE ManagerDeactivates
  BY <1>3 DEF ManagerDeactivates, CleanUpOpen, Served
<1>4. CASE Observers \/ ManagerProceeds \/ DatabaseFails
  <2>1. UNCHANGED <<rpc, dbHeld>>
    BY <1>4 DEF Observers, ManagerProceeds, DatabaseFails
  <2>2. dbState = "up" => dbState' = "up"
    BY <1>4 DEF Observers, ManagerProceeds, DatabaseFails, Client, StoreProposal,
                RemoveProposal, Clean, CleanUpWritePid, CleanUpWriteMap, Initialize, Lose
  <2>3. QED
    BY <2>1, <2>2 DEF Served
<1>5. CASE UNCHANGED vars
  BY <1>5 DEF vars, dbVars, Served
<1>6. QED
  BY <1>1, <1>2, <1>3, <1>4, <1>5 DEF SchedulerNext

\* So none is aborted.
LEMMA NoAbort ==
    ASSUME Served, ~RemoteFaults, NEW r \in Rounds
    PROVE  ~Abort(r)
  BY DEF Abort, Served, Serving, RoundStates

-----------------------------------------------------------------------------
\* NoOrphanRunning of the proposals in the file, too.
RunningIsServed ==
    \A p \in DOMAIN StoreView : StoreView[p].status = Running =>
        \E r \in Rounds : Executing(r) /\ current[r].pid = p

\* Nothing but MarkReady and an exception ends the work on a proposal.
LEMMA ExecutionGoesOn ==
    ASSUME SchedulerTypes, [SchedulerNext]_vars, NEW s \in Rounds,
           Executing(s), ~MarkReady(s), ~Abort(s)
    PROVE  Executing(s)' /\ current'[s] = current[s]
<1> USE DEF SchedulerTypes, ControlOK, LocalsOK, Executing, At, Goto
<1>1. CASE RoundStep(s)
  BY <1>1
  DEF RoundStep, CreateLatch, FetchProposals, NextProposal, CutShort, ForgetRequest, AllDone,
      MarkRunning, CameraOn, Move, Arrive, ObserveWithoutMount,
      ObserveWithoutInstrument, Expose, ObserveFails, KeepImage, NoMoreTargets,
      CameraOff, ClearProposal, CountDown, ClearLatch, ReleaseComponents, Finish, locals
<1>2. ASSUME NEW r \in Rounds, r # s, RoundStep(r)
      PROVE  rpc'[s] = rpc[s] /\ current'[s] = current[s]
  BY <1>2
  DEF RoundStep, CreateLatch, FetchProposals, NextProposal, CutShort, ForgetRequest, AllDone,
      MarkRunning, CameraOn, Move, Arrive, ObserveWithoutMount,
      ObserveWithoutInstrument, Expose, ObserveFails, KeepImage, NoMoreTargets,
      CameraOff, MarkReady, ClearProposal, CountDown, ClearLatch, ReleaseComponents,
      Finish, Abort, locals
<1>3. ASSUME NEW c \in Callers, CallerStep(c)
      PROVE  rpc'[s] = rpc[s] /\ current'[s] = current[s]
  BY <1>3 DEF CallerStep, CallProceeds, Start, StartRound, StartFails, Stop,
              StopTestsLatch, StopAwaits, StopWakes, StopReturns, locals
<1>4. CASE UNCHANGED <<rpc, current>>
  BY <1>4
<1>5. QED
  BY <1>1, <1>2, <1>3, <1>4
  DEF SchedulerNext, Observers, ManagerDeactivates, ManagerProceeds, DatabaseFails,
      vars, locals

\* A proposal that is running is served by some round.
LEMMA RunningStep ==
    ASSUME SchedulerTypes, DatabaseOK, Served, RunningIsServed, [SchedulerNext]_vars,
           ~MayFail, ~RemoteFaults
    PROVE  RunningIsServed'
<1>1. NewOrSame
  BY DatabaseSteps, StoreIsNewOrSame DEF SchedulerTypes, DatabaseOK
<1>2. ASSUME NEW p \in DOMAIN StoreView', StoreView'[p].status = Running
      PROVE  \E r \in Rounds : Executing(r)' /\ current'[r].pid = p
  <2>1. p \in DOMAIN StoreView
    BY <1>1, <1>2 DEF NewOrSame, Queued, Running
  <2>2. CASE StoreView[p].status = Running
    <3>1. PICK r \in Rounds : Executing(r) /\ current[r].pid = p
      BY <2>1, <2>2 DEF RunningIsServed
    <3>2. ~MarkReady(r)
      BY <1>2, <2>1, <3>1
      DEF MarkReady, SetProposalStatus, StoreView, Exists, Statuses, Running, Ready,
          SchedulerTypes, DBTypeOK, IsProposalMap, Entry
    <3>3. QED
      BY <3>1, <3>2, NoAbort, ExecutionGoesOn
  <2>3. CASE StoreView[p].status # Running
    <3>1. PICK r \in Rounds : MarkRunning(r) \/ MarkReady(r)
      BY <1>2, <2>1, <2>3, StatusWriters
    <3>2. current[r].pid \in Nat
      BY <3>1 DEF MarkRunning, MarkReady, SchedulerTypes, RoundOK, Executing, At, Snapshot
    <3>3. MarkRunning(r) /\ current[r].pid = p
      BY <1>2, <2>1, <2>3, <3>2, <3>1, StatusIsSet
      DEF MarkRunning, MarkReady, Statuses, Running, Ready
    <3>4. Executing(r)' /\ current' = current
      BY <3>3 DEF MarkRunning, Goto, Executing, SchedulerTypes, ControlOK, locals
    <3>5. QED
      BY <3>3, <3>4
  <2>4. QED
    BY <2>2, <2>3
<1>3. QED
  BY <1>2 DEF RunningIsServed

\* A proposal marked running has a round that works on it, with stop() at any
\* moment and any number of rounds at once.  What can strand a proposal is an
\* exception outside the inner try blocks: of a failed call, or because the
\* database went down, or because one of two overlapping rounds released it.
THEOREM NobodyIsStranded ==
    ASSUME ~MayFail, ~RemoteFaults, ~DBReleased \/ ~Stops
    PROVE  SchedulerSpec => []NoOrphanRunning
<1>1. SchedulerInit => Served /\ RunningIsServed
  BY DEF SchedulerInit, DBInit, NoProposals, Served, Serving, RunningIsServed, StoreView
<1>2. SchedulerInit => ControlOK /\ Exclusion
  BY DEF SchedulerInit, ControlOK, RoundStates, CallerStates, Exclusion, Owning,
         Alive, CallerAt
<1>3. SchedulerTypes /\ Exclusion /\ DatabaseOK /\ Served /\ RunningIsServed
        /\ [SchedulerNext]_vars
        => Exclusion' /\ DatabaseOK' /\ Served' /\ RunningIsServed'
  BY ExclusionStep, DatabaseOKStep, ServedStep, RunningStep DEF SchedulerTypes
<1>4. DatabaseOK /\ RunningIsServed => NoOrphanRunning
  BY DEF DatabaseOK, DownIsEmpty, NoProposals, RunningIsServed, StoreView,
         NoOrphanRunning
<1>5. QED
  BY <1>1, <1>2, <1>3, <1>4, DatabaseOKInit, TypesAlways, PTL DEF SchedulerSpec

-----------------------------------------------------------------------------
\* What makes ReportedProposal inductive: the pid is that of the proposal at
\* hand from the moment it is taken.
Reported ==
    \A r \in Rounds : Executing(r) \/ At(r, "begin") => proposalUnderExecution = current[r].pid

\* The pid reported is that of the one round there is.
LEMMA ReportedStep ==
    ASSUME SchedulerTypes, Exclusion, Reported, ~Stops, [SchedulerNext]_vars
    PROVE  Reported'
<1> USE DEF SchedulerTypes, ControlOK, LocalsOK, Reported, Executing, At, Goto
<1>1. ASSUME NEW r \in Rounds, RoundStep(r)
      PROVE  Reported'
  <2>1. \A s \in Rounds : s # r => ~Alive(s)
    BY <1>1, RoundStepMoves DEF Exclusion, MovesRound, Alive, At
  <2>2. \A s \in Rounds : s # r => rpc'[s] = rpc[s] /\ current'[s] = current[s]
    BY <1>1
    DEF RoundStep, CreateLatch, FetchProposals, NextProposal, CutShort, ForgetRequest, AllDone,
        MarkRunning, CameraOn, Move, Arrive, ObserveWithoutMount,
        ObserveWithoutInstrument, Expose, ObserveFails, KeepImage, NoMoreTargets,
        CameraOff, MarkReady, ClearProposal, CountDown, ClearLatch, ReleaseComponents,
        Finish, Abort, locals
  <2>3. CASE NextProposal(r)
    BY <2>1, <2>2, <2>3 DEF NextProposal, Alive
  <2>4. CASE ClearProposal(r)
    BY <2>1, <2>2, <2>4 DEF ClearProposal, Alive
  <2>5. CASE Abort(r)
    BY <2>1, <2>2, <2>5 DEF Abort, Alive
  <2>6. CASE ~(NextProposal(r) \/ ClearProposal(r) \/ Abort(r))
    <3> DEFINE AtWork == {"begin", "cameraOn", "target", "moving", "expose", "store",
                          "cameraOff", "ready"}
    <3>1. /\ proposalUnderExecution' = proposalUnderExecution
          /\ rpc'[r] \in AtWork => rpc[r] \in AtWork /\ current'[r] = current[r]
      BY <1>1, <2>6
      DEF RoundStep, CreateLatch, FetchProposals, CutShort, ForgetRequest, AllDone,
          MarkRunning, CameraOn, Move, Arrive, ObserveWithoutMount,
          ObserveWithoutInstrument, Expose, ObserveFails, KeepImage, NoMoreTargets,
          CameraOff, MarkReady, CountDown, ClearLatch, ReleaseComponents,
          Finish, flags, locals
    <3>2. QED
      BY <2>2, <3>1
  <2>7. QED
    BY <2>3, <2>4, <2>5, <2>6
<1>2. ASSUME NEW c \in Callers, CallerStep(c)
      PROVE  Reported'
  <2>1. proposalUnderExecution' = proposalUnderExecution /\ UNCHANGED current
    BY <1>2 DEF CallerStep, CallProceeds, Start, StartRound, StartFails, Stop,
                StopTestsLatch, StopAwaits, StopWakes, StopReturns, flags, locals
  <2>2. \A r \in Rounds : rpc'[r] = rpc[r] \/ (rpc[r] = "unborn" /\ rpc'[r] = "new")
    BY <1>2 DEF CallerStep, CallProceeds, Start, StartRound, StartFails, Stop,
                StopTestsLatch, StopAwaits, StopWakes, StopReturns
  <2>3. QED
    BY <2>1, <2>2
<1>3. CASE UNCHANGED <<proposalUnderExecution, rpc, current>>
  BY <1>3
<1>4. QED
  BY <1>1, <1>2, <1>3
  DEF SchedulerNext, Observers, ManagerDeactivates, ManagerProceeds, DatabaseFails,
      vars, flags, locals

ReportedInv == ~Stops => Reported

\* Without stop(), the pid that proposalUnderExecution() answers is that of the
\* proposal the round at work observes, whatever fails.
THEOREM PidIsReported == SchedulerSpec => []ReportedProposal
<1>1. SchedulerInit => Exclusion /\ ReportedInv
  BY DEF SchedulerInit, Exclusion, Owning, Alive, CallerAt, ReportedInv, Reported, Executing, At
<1>2. SchedulerTypes /\ Exclusion /\ ReportedInv
        /\ [SchedulerNext]_vars
        => Exclusion' /\ ReportedInv'
  BY ExclusionStep, ReportedStep DEF SchedulerTypes, ReportedInv
<1>3. ReportedInv => ReportedProposal
  BY DEF ReportedInv, Reported, ReportedProposal
<1>4. QED
  BY <1>1, <1>2, <1>3, TypesAlways, PTL DEF SchedulerSpec

-----------------------------------------------------------------------------
(* Scheduler, telescope and database together are the observation service,   *)
(* as long as nobody calls stop(), no call fails and nothing crashes: for    *)
(* any number of rounds, callers of start(), proposals, removals and         *)
(* deactivations of the database.  The first part, on what pictures show,    *)
(* is also used for the console.                                             *)

\* Every picture of a map shows its target or nothing, and every target list came
\* from a client.
MapShows(map) ==
    \A p \in DOMAIN map :
        /\ map[p].targets \in TargetLists
        /\ \A i \in DOMAIN map[p].targets :
              map[p].observations[i] \in {NoImage, Blank, map[p].targets[i].pos}

\* Only storeImage() puts a picture in a slot.
LEMMA OthersKeepPictures ==
    ASSUME DBTypeOK, MapShows(proposals), MapShows(dbFile.map),
           \/ Client \/ LifeCycle \/ UNCHANGED dbVars
           \/ \E pid \in Nat, status \in 0..3 : SetProposalStatus(pid, status)
    PROVE  MapShows(proposals') /\ MapShows(dbFile'.map)
<1> USE DEF MapShows
<1>0. MapShows(NoProposals)
  BY EmptyMapOK
<1>1. ASSUME NEW targets \in TargetLists, StoreProposal(targets)
      PROVE  MapShows(proposals') /\ MapShows(dbFile'.map)
  <2> DEFINE pid == lastProposalId + 1
             slots == [i \in 1..Len(targets) |-> NoImage]
             new == [status |-> Queued, targets |-> targets, observations |-> slots]
  <2>1. /\ DOMAIN proposals' = DOMAIN proposals \cup {pid}
        /\ \A p \in DOMAIN proposals : p # pid => proposals'[p] = proposals[p]
        /\ proposals'[pid] = new
        /\ dbFile' = dbFile
    BY <1>1 DEF StoreProposal
  <2>2. targets \in Seq(Target)
    BY DBAssumption
  <2>3. /\ new.targets = targets
        /\ \A i \in DOMAIN targets : new.observations[i] = NoImage
    BY <2>2
  <2> HIDE DEF pid, new
  <2>4. QED
    BY <2>1, <2>3
<1>2. ASSUME NEW pid \in Nat, NEW status \in 0..3, SetProposalStatus(pid, status)
      PROVE  MapShows(proposals') /\ MapShows(dbFile'.map)
  <2>1. /\ DOMAIN proposals' = DOMAIN proposals /\ dbFile' = dbFile
        /\ \A p \in DOMAIN proposals :
              /\ proposals'[p].targets = proposals[p].targets
              /\ proposals'[p].observations = proposals[p].observations
    BY <1>2 DEF SetProposalStatus, DBTypeOK, IsProposalMap, Entry, Exists
  <2>2. QED
    BY <2>1
<1>3. ASSUME NEW pid \in Pids, RemoveProposal(pid)
      PROVE  MapShows(proposals') /\ MapShows(dbFile'.map)
  BY <1>3 DEF RemoveProposal
<1>4. CASE Clean \/ Lose
  BY <1>0, <1>4 DEF Clean, Lose
<1>5. CASE CleanUp
  <2>1. dbFile'.map \in {proposals, NoProposals} /\ proposals' \in {proposals, NoProposals}
    BY <1>5 DEF CleanUp, CleanUpOpen, CleanUpWritePid, CleanUpWriteMap, FileOf
  <2>2. QED
    BY <1>0, <2>1
<1>6. CASE Initialize
  BY <1>6 DEF Initialize
<1>7. CASE UNCHANGED dbVars
  BY <1>7 DEF dbVars
<1>8. QED
  BY <1>1, <1>2, <1>3, <1>4, <1>5, <1>6, <1>7 DEF Client, LifeCycle

\* storeImage() keeps the map right if each slot it may fill is the picture's.
LEMMA RightSlot ==
    ASSUME DBTypeOK, MapShows(proposals), NEW pid, NEW tid, NEW picture,
           StoreImage(pid, tid, picture),
           \A i \in OpenSlot(pid, tid) :
               picture \in {Blank, proposals[pid].targets[i].pos}
    PROVE  MapShows(proposals')
<1>1. CASE OpenSlot(pid, tid) = {}
  BY <1>1 DEF StoreImage
<1>2. CASE OpenSlot(pid, tid) # {}
  <2>1. PICK i \in OpenSlot(pid, tid) :
           proposals' = [proposals EXCEPT ![pid].observations[i] = picture]
    BY <1>2 DEF StoreImage
  <2>2. pid \in DOMAIN proposals
    BY <2>1 DEF OpenSlot, Exists
  <2>3. proposals[pid] \in Entry
    BY <2>2 DEF DBTypeOK, IsProposalMap
  <2>4. /\ DOMAIN proposals' = DOMAIN proposals
        /\ proposals'[pid].targets = proposals[pid].targets
        /\ proposals'[pid].observations
             = [proposals[pid].observations EXCEPT ![i] = picture]
        /\ \A p \in DOMAIN proposals : p # pid => proposals'[p] = proposals[p]
    BY <2>1, <2>2, <2>3 DEF Entry
  <2>5. ASSUME NEW j \in DOMAIN proposals[pid].targets
        PROVE  proposals'[pid].observations[j]
                   \in {NoImage, Blank, proposals[pid].targets[j].pos}
    <3>1. /\ proposals[pid].targets \in Seq(Target)
          /\ proposals[pid].observations \in Seq(Images \cup {NoImage})
          /\ Len(proposals[pid].observations) = Len(proposals[pid].targets)
      BY <2>2, <2>3 DEF DBTypeOK, IsProposalMap, Entry
    <3>2. j \in DOMAIN proposals[pid].observations
      BY <3>1
    <3>3. CASE j = i
      BY <2>1, <2>4, <3>2, <3>3
    <3>4. CASE j # i
      BY <2>2, <2>4, <3>2, <3>4 DEF MapShows
    <3>5. QED
      BY <3>3, <3>4
  <2>6. /\ proposals'[pid].targets \in TargetLists
        /\ \A j \in DOMAIN proposals'[pid].targets :
              proposals'[pid].observations[j]
                  \in {NoImage, Blank, proposals'[pid].targets[j].pos}
    BY <2>2, <2>4, <2>5 DEF MapShows
  <2>7. \A p \in DOMAIN proposals : p # pid => proposals'[p] = proposals[p]
    BY <2>4
  <2>8. DOMAIN proposals' = DOMAIN proposals
    BY <2>4
  <2>9. QED
    BY <2>6, <2>7, <2>8 DEF MapShows
<1>3. QED
  BY <1>1, <1>2

-----------------------------------------------------------------------------
\* The mount stands where the round at hand wants it while it exposes.
Exposes(r) == At(r, "expose") => aim = Sight(r).pos

\* The tids by which storeImage() finds a slot tell the targets of a list apart.
DistinctTids ==
    \A list \in TargetLists : \A i, j \in DOMAIN list : list[i].tid = list[j].tid => i = j

\* The slot that storeImage() fills is that of the target at hand.
LEMMA SlotIsSight ==
    ASSUME DistinctTids, SchedulerTypes, SnapshotsAgree, MapShows(proposals),
           NEW r \in Rounds, At(r, "store"), dbState = "up",
           NEW i \in OpenSlot(current[r].pid, Sight(r).tid)
    PROVE  /\ current[r].pid \in DOMAIN proposals
           /\ i \in DOMAIN proposals[current[r].pid].targets
           /\ proposals[current[r].pid].targets[i].pos = Sight(r).pos
<1> DEFINE pid == current[r].pid
<1>1. /\ current[r] \in Snapshot /\ current[r] \in Carried(r)
      /\ index[r] \in 1..Len(current[r].targets)
  BY NoProposalIsNoSnapshot DEF SchedulerTypes, RoundOK, Executing, At, Carried
<1>2. /\ pid \in DOMAIN proposals /\ i \in DOMAIN proposals[pid].targets
      /\ proposals[pid].targets[i].tid = Sight(r).tid
  BY DEF OpenSlot, Exists
<1>3. proposals[pid].targets = current[r].targets
  BY <1>1, <1>2 DEF SnapshotsAgree, StoreView
<1>4. index[r] \in DOMAIN current[r].targets
  BY <1>1 DEF Snapshot
<1>5. proposals[pid].targets \in TargetLists
  BY <1>2 DEF MapShows
<1>6. i = index[r]
  BY <1>2, <1>3, <1>4, <1>5 DEF DistinctTids, Sight
<1>7. QED
  BY <1>2, <1>3, <1>6 DEF Sight

\* So it gets its own picture.
LEMMA KeepsThePicture ==
    ASSUME DistinctTids, SchedulerTypes, SnapshotsAgree, MapShows(proposals),
           NEW r \in Rounds, KeepImage(r), image[r] \in {Blank, Sight(r).pos}
    PROVE  MapShows(proposals')
<1> DEFINE pid == current[r].pid
<1>1. CASE StoreImage(pid, Sight(r).tid, image[r])
  <2>1. \A i \in OpenSlot(pid, Sight(r).tid) :
           image[r] \in {Blank, proposals[pid].targets[i].pos}
    BY <1>1, SlotIsSight DEF KeepImage, StoreImage
  <2>2. QED
    BY <1>1, <2>1, RightSlot DEF SchedulerTypes
<1>2. CASE UNCHANGED dbVars
  BY <1>2 DEF dbVars
<1>3. QED
  BY <1>1, <1>2 DEF KeepImage

\* The maps along any step of rounds, callers and neighbours.
LEMMA MapsStep ==
    ASSUME DistinctTids, SchedulerTypes, SnapshotsAgree,
           MapShows(proposals), MapShows(dbFile.map),
           \A r \in Rounds : At(r, "store") => image[r] \in {Blank, Sight(r).pos},
           [SchedulerNext]_vars
    PROVE  MapShows(proposals') /\ MapShows(dbFile'.map)
<1>1. ASSUME NEW r \in Rounds, KeepImage(r)
      PROVE  MapShows(proposals') /\ MapShows(dbFile'.map)
  <2>1. MapShows(proposals')
    BY <1>1, KeepsThePicture DEF KeepImage
  <2>2. dbFile' = dbFile
    BY <1>1 DEF KeepImage, StoreImage, dbVars
  <2>3. QED
    BY <2>1, <2>2
<1>2. \/ \E r \in Rounds : KeepImage(r)
      \/ Client \/ LifeCycle \/ UNCHANGED dbVars
      \/ \E pid \in Nat, status \in 0..3 : SetProposalStatus(pid, status)
  <2>1. ASSUME NEW r \in Rounds, MarkRunning(r) \/ MarkReady(r)
        PROVE  \E pid \in Nat, status \in 0..3 : SetProposalStatus(pid, status)
    <3>1. current[r].pid \in Nat
      BY <2>1 DEF MarkRunning, MarkReady, SchedulerTypes, RoundOK, Executing, At, Snapshot
    <3>2. QED
      BY <2>1, <3>1 DEF MarkRunning, MarkReady, Running, Ready
  <2>2. ASSUME NEW r \in Rounds, RoundStep(r), ~KeepImage(r), ~MarkRunning(r), ~MarkReady(r)
        PROVE  UNCHANGED dbVars
    BY <2>2
    DEF RoundStep, CreateLatch, FetchProposals, NextProposal, CutShort, ForgetRequest, AllDone,
        CameraOn, Move, Arrive, ObserveWithoutMount, ObserveWithoutInstrument, Expose,
        ObserveFails, NoMoreTargets, CameraOff, ClearProposal, CountDown, ClearLatch,
        ReleaseComponents, Finish, Abort
  <2>3. ASSUME NEW c \in Callers, CallerStep(c)
        PROVE  UNCHANGED dbVars
    BY <2>3 DEF CallerStep, CallProceeds, Start, StartRound, StartFails, Stop,
                StopTestsLatch, StopAwaits, StopWakes, StopReturns
  <2>4. QED
    BY <2>1, <2>2, <2>3
    DEF SchedulerNext, Observers, ManagerDeactivates, ManagerProceeds, DatabaseFails,
        vars, LifeCycle, CleanUp
<1>3. QED
  BY <1>1, <1>2, OthersKeepPictures DEF SchedulerTypes

\* The mount and the picture along a step of the round that has the telescope.
LEMMA RoundSeesItsTarget ==
    ASSUME MountFound, SchedulerTypes, NEW r \in Rounds, RoundStep(r), Exposes(r),
           At(r, "store") => image[r] \in {Blank, Sight(r).pos}
    PROVE  /\ Exposes(r)'
           /\ At(r, "store")' => image'[r] \in {Blank, Sight(r)'.pos}
<1> USE DEF SchedulerTypes, ControlOK, LocalsOK, Exposes, Sight, At, Goto
<1>1. CASE Arrive(r)
  BY <1>1 DEF Arrive, locals
<1>2. CASE Expose(r) \/ ObserveWithoutInstrument(r)
  <2>1. PICK picture \in {aim, Blank} :
           /\ image' = [image EXCEPT ![r] = picture]
           /\ At(r, "expose") \/ picture = Blank
    BY <1>2 DEF Expose, ObserveWithoutInstrument
  <2>2. UNCHANGED <<current, index>> /\ rpc'[r] = "store"
    BY <1>2 DEF Expose, ObserveWithoutInstrument
  <2>3. QED
    BY <2>1, <2>2
<1>3. CASE rpc'[r] \notin {"expose", "store"}
  BY <1>3
<1>4. QED
  BY <1>1, <1>2, <1>3
  DEF RoundStep, CreateLatch, FetchProposals, NextProposal, CutShort, ForgetRequest, AllDone,
      MarkRunning, CameraOn, Move, ObserveWithoutMount, ObserveFails, KeepImage,
      NoMoreTargets, CameraOff, MarkReady, ClearProposal, CountDown, ClearLatch,
      ReleaseComponents, Finish, Abort

-----------------------------------------------------------------------------
\* What the refinement needs of a round, on top of what is known of it: where its
\* proposals are in their life.  A round that is past its loop has none left.
Working(r) == rpc[r] \in {"loop", "begin", "cameraOn", "target", "moving", "expose",
                          "store", "cameraOff", "ready"}

HasStatus(q, status) ==
    q.pid \in DOMAIN StoreView => StoreView[q.pid].status = status

InStep(r) ==
    /\ todo[r] # {} => Working(r)
    /\ \A q \in todo[r] : HasStatus(q, Queued)
    /\ At(r, "begin") => HasStatus(current[r], Queued)
    /\ Executing(r) => HasStatus(current[r], Running)
    /\ \A q, s \in todo[r] : q.pid = s.pid => q = s
    /\ Executing(r) \/ At(r, "begin") => \A q \in todo[r] : q.pid # current[r].pid

Seen(r) ==
    /\ Exposes(r)
    /\ At(r, "store") => image[r] \in {Blank, Sight(r).pos}

ServiceInv ==
    /\ Exclusion /\ DatabaseOK /\ Served /\ RunningIsServed /\ SnapshotsAgree
    /\ MapShows(proposals) /\ MapShows(dbFile.map)
    /\ \A r \in Rounds : InStep(r) /\ Seen(r)

\* A step of a round says nothing of others, and finds them not alive.
LEMMA OthersAreOver ==
    ASSUME SchedulerTypes, Exclusion, ~Stops, NEW r \in Rounds, NEW s \in Rounds,
           r # s, RoundStep(r)
    PROVE  ~Alive(s) /\ rpc'[s] = rpc[s] /\ todo'[s] = todo[s]
<1>1. Alive(r) /\ rpc'[s] = rpc[s]
  BY RoundStepMoves DEF SchedulerTypes, ControlOK, MovesRound, Goto, Alive, At
<1>2. ~Alive(s)
  BY <1>1 DEF Exclusion
<1>3. todo'[s] = todo[s]
  BY DEF RoundStep, CreateLatch, FetchProposals, NextProposal, CutShort, ForgetRequest, AllDone,
         MarkRunning, CameraOn, Move, Arrive, ObserveWithoutMount,
         ObserveWithoutInstrument, Expose, ObserveFails, KeepImage, NoMoreTargets,
         CameraOff, MarkReady, ClearProposal, CountDown, ClearLatch, ReleaseComponents,
         Finish, Abort, locals, SchedulerTypes, LocalsOK
<1>4. QED
  BY <1>1, <1>2, <1>3

\* A proposal keeps its status until a round sets it.
LEMMA StatusIsKept ==
    ASSUME SchedulerTypes, DatabaseOK, ~MayFail, [SchedulerNext]_vars,
           NEW q \in Snapshot, q.pid <= Counter, NEW status, HasStatus(q, status),
           \A r \in Rounds : MarkRunning(r) \/ MarkReady(r) => current[r].pid # q.pid
    PROVE  HasStatus(q, status)'
<1> SUFFICES ASSUME q.pid \in DOMAIN StoreView'
             PROVE  StoreView'[q.pid].status = status
  BY DEF HasStatus
<1>1. Counter \in Nat /\ q.pid \in Nat
  BY DEF SchedulerTypes, DBTypeOK, Counter, Snapshot
<1>2. NewOrSame
  BY DatabaseSteps, StoreIsNewOrSame DEF SchedulerTypes, DatabaseOK
<1>3. q.pid \in DOMAIN StoreView
  BY <1>1, <1>2 DEF NewOrSame
<1>4. CASE \E r \in Rounds : MarkRunning(r) \/ MarkReady(r)
  <2>1. PICK r \in Rounds : MarkRunning(r) \/ MarkReady(r)
    BY <1>4
  <2>2. current[r].pid \in Nat
    BY <2>1 DEF MarkRunning, MarkReady, SchedulerTypes, RoundOK, Executing, At, Snapshot
  <2>3. StoreView'[q.pid] = StoreView[q.pid]
    BY <1>3, <2>1, <2>2, StatusIsSet DEF MarkRunning, MarkReady, Statuses, Running, Ready
  <2>4. QED
    BY <1>3, <2>3 DEF HasStatus
<1>5. CASE ~ \E r \in Rounds : MarkRunning(r) \/ MarkReady(r)
  BY <1>3, <1>5, StatusWriters DEF HasStatus
<1>6. QED
  BY <1>4, <1>5

\* What a round carries, along the steps that set no status of it.
LEMMA CarriedKeepsStatus ==
    ASSUME SchedulerTypes, DatabaseOK, SnapshotsAgree, ~MayFail, [SchedulerNext]_vars,
           NEW r \in Rounds, NEW q \in Carried(r), NEW status, HasStatus(q, status),
           \A s \in Rounds : MarkRunning(s) \/ MarkReady(s) => current[s].pid # q.pid
    PROVE  HasStatus(q, status)'
<1>1. q \in Snapshot
  BY DEF Carried, SchedulerTypes, LocalsOK
<1>2. q.pid <= Counter
  BY DEF SnapshotsAgree
<1>3. QED
  BY <1>1, <1>2, StatusIsKept

\* A round at work carries its proposal, and no other round is at work.
LEMMA AtWork ==
    ASSUME SchedulerTypes, Exclusion, ~Stops, NEW r \in Rounds,
           Executing(r) \/ At(r, "begin")
    PROVE  /\ current[r] \in Carried(r)
           /\ \A s \in Rounds : s # r => ~MarkRunning(s) /\ ~MarkReady(s)
<1>1. current[r] \in Snapshot
  BY DEF SchedulerTypes, RoundOK
<1>2. Alive(r) /\ \A s \in Rounds : MarkRunning(s) \/ MarkReady(s) => Alive(s)
  BY DEF Alive, Executing, At, MarkRunning, MarkReady
<1>3. QED
  BY <1>1, <1>2, NoProposalIsNoSnapshot DEF Carried, Exclusion

\* The life of the proposals that a round carries, along its own steps.
LEMMA OwnStepInStep ==
    ASSUME SchedulerTypes, ServiceInv, ~MayFail, ~Stops, [SchedulerNext]_vars,
           NEW r \in Rounds, RoundStep(r), ~Abort(r)
    PROVE  InStep(r)'
<1> USE DEF SchedulerTypes, ControlOK, LocalsOK, Working, At, Executing, Goto
<1>0. SnapshotsAgree /\ DatabaseOK /\ Exclusion /\ InStep(r) /\ rpc' = [rpc EXCEPT ![r] = rpc'[r]]
  BY RoundStepMoves DEF ServiceInv, MovesRound
<1>1. CASE FetchProposals(r)
  <2>1. todo'[r] = {[pid |-> p, targets |-> proposals[p].targets] : p \in GetProposals}
    BY <1>1 DEF FetchProposals
  <2>2. UNCHANGED <<dbVars>> /\ dbState = "up" /\ rpc'[r] = "loop"
    BY <1>1 DEF FetchProposals
  <2>3. \A q \in todo'[r] : q.pid \in GetProposals
                           /\ q = [pid |-> q.pid, targets |-> proposals[q.pid].targets]
    BY <2>1
  <2>4. \A q \in todo'[r] : HasStatus(q, Queued)'
    BY <2>2, <2>3 DEF GetProposals, HasStatus, StoreView, dbVars
  <2>5. \A q, s \in todo'[r] : q.pid = s.pid => q = s
    BY <2>3
  <2>6. QED
    BY <2>2, <2>4, <2>5 DEF InStep
<1>2. CASE NextProposal(r)
  <2>1. PICK q \in todo[r] : /\ current'[r] = q
                             /\ todo'[r] = todo[r] \ {q}
                             /\ rpc'[r] = "begin" /\ UNCHANGED dbVars
    BY <1>2 DEF NextProposal
  <2>2. \A s \in todo'[r] : HasStatus(s, Queued)'
    BY <1>0, <2>1 DEF InStep, HasStatus, StoreView, dbVars
  <2>3. HasStatus(current[r], Queued)'
    BY <1>0, <2>1 DEF InStep, HasStatus, StoreView, dbVars
  <2>4. \A s \in todo'[r] : s.pid # current'[r].pid
    BY <1>0, <2>1 DEF InStep
  <2>5. QED
    BY <1>0, <2>1, <2>2, <2>3, <2>4 DEF InStep
<1>3. CASE MarkRunning(r) \/ MarkReady(r)
  <2>1. PICK status \in {Running, Ready} :
           /\ SetProposalStatus(current[r].pid, status) /\ UNCHANGED todo
           /\ IF status = Running THEN UNCHANGED current /\ rpc'[r] = "cameraOn"
              ELSE rpc'[r] = "loop"
    BY <1>3 DEF MarkRunning, MarkReady, locals, Running, Ready
  <2>2. rpc[r] \in {"begin", "ready"}
    BY <1>3 DEF MarkRunning, MarkReady
  <2>3. current[r].pid \in Nat
    BY <2>2 DEF RoundOK, Snapshot
  <2>4. \A q \in todo[r] : HasStatus(q, Queued)'
    <3> SUFFICES ASSUME NEW q \in todo[r] PROVE HasStatus(q, Queued)'
      OBVIOUS
    <3>1. q \in Carried(r) /\ HasStatus(q, Queued) /\ q.pid # current[r].pid
      BY <1>0, <2>2 DEF InStep, Carried
    <3>2. \A s \in Rounds : MarkRunning(s) \/ MarkReady(s) => s = r
      BY <1>0, <2>2, AtWork
    <3>3. QED
      BY <1>0, <3>1, <3>2, CarriedKeepsStatus
  <2>5. DOMAIN StoreView' = DOMAIN StoreView
    BY <2>1 DEF SetProposalStatus, StoreView, DBTypeOK, IsProposalMap
  <2>6. status = Running => HasStatus(current[r], Running)'
    BY <2>1, <2>3, <2>5, StatusIsSet DEF HasStatus, Statuses, Running
  <2>7. \A q, s \in todo[r] : q.pid = s.pid => q = s
    BY <1>0 DEF InStep
  <2>8. \A q \in todo[r] : q.pid # current[r].pid
    BY <1>0, <2>2 DEF InStep
  <2>9. QED
    BY <2>1, <2>4, <2>6, <2>7, <2>8 DEF InStep
<1>4. CASE Executing(r) /\ Executing(r)' /\ UNCHANGED <<todo, current>> /\ ~MarkReady(r)
  <2>1. current[r] \in Carried(r) /\ todo[r] \subseteq Carried(r)
    BY <1>0, <1>4, AtWork DEF Carried
  <2>2. \A s \in Rounds : ~MarkRunning(s) /\ ~MarkReady(s)
    BY <1>0, <1>4, AtWork DEF MarkRunning
  <2>3. HasStatus(current[r], Running)'
    BY <1>0, <1>4, <2>1, <2>2, CarriedKeepsStatus DEF InStep, HasStatus
  <2>4. \A q \in todo[r] : HasStatus(q, Queued)'
    BY <1>0, <2>1, <2>2, CarriedKeepsStatus DEF InStep
  <2>5. QED
    BY <1>0, <1>4, <2>3, <2>4 DEF InStep
<1>5. CASE todo'[r] = {} /\ ~Executing(r)' /\ rpc'[r] # "begin"
  BY <1>5 DEF InStep
<1>6. CASE CameraOn(r) \/ Move(r) \/ Arrive(r) \/ ObserveWithoutMount(r)
           \/ ObserveWithoutInstrument(r) \/ Expose(r) \/ ObserveFails(r) \/ KeepImage(r)
           \/ NoMoreTargets(r) \/ CameraOff(r)
  BY <1>4, <1>6
  DEF CameraOn, Move, Arrive, ObserveWithoutMount, ObserveWithoutInstrument, Expose,
      ObserveFails, KeepImage, NoMoreTargets, CameraOff, MarkReady, locals
<1>7. CASE CreateLatch(r) \/ CutShort(r) \/ ForgetRequest(r) \/ AllDone(r) \/ ClearProposal(r) \/ CountDown(r)
           \/ ClearLatch(r) \/ ReleaseComponents(r) \/ Finish(r)
  BY <1>0, <1>5, <1>7
  DEF CreateLatch, CutShort, ForgetRequest, AllDone, ClearProposal, CountDown, ClearLatch,
      ReleaseComponents, Finish, locals, InStep
<1>8. QED
  BY <1>1, <1>2, <1>3, <1>6, <1>7 DEF RoundStep

\* The same along the steps that are no round's.
LEMMA QuietInStep ==
    ASSUME SchedulerTypes, ServiceInv, ~MayFail, ~Stops, [SchedulerNext]_vars,
           NEW r \in Rounds, UNCHANGED locals,
           \A s \in Rounds : rpc'[s] # rpc[s] => rpc[s] = "unborn" /\ rpc'[s] = "new"
    PROVE  InStep(r)'
<1>0. SnapshotsAgree /\ DatabaseOK /\ Exclusion /\ InStep(r)
  BY DEF ServiceInv
<1>1. todo'[r] = todo[r] /\ current'[r] = current[r]
  BY DEF locals
<1>2. \A s \in Rounds : ~MarkRunning(s) /\ ~MarkReady(s)
  BY DEF MarkRunning, MarkReady, At, Goto, SchedulerTypes, ControlOK
<1>3. \A q \in todo[r] : HasStatus(q, Queued)'
  BY <1>0, <1>2, CarriedKeepsStatus DEF InStep, Carried
<1>4. CASE rpc[r] = "unborn" /\ rpc'[r] = "new"
  BY <1>0, <1>1, <1>4 DEF InStep, Working, Executing, At
<1>5. CASE rpc'[r] = rpc[r]
  <2>1. ASSUME Executing(r) \/ At(r, "begin"), NEW status, HasStatus(current[r], status)
        PROVE  HasStatus(current[r], status)'
    BY <1>0, <1>1, <1>2, <2>1, AtWork, CarriedKeepsStatus DEF HasStatus
  <2>2. QED
    BY <1>0, <1>1, <1>3, <1>5, <2>1 DEF InStep, Working, Executing, At
<1>6. QED
  BY <1>4, <1>5

\* A step of a caller moves no round, but for the new one of start().
LEMMA CallersAreQuiet ==
    ASSUME ControlOK, NEW c \in Callers, CallerStep(c)
    PROVE  /\ UNCHANGED locals
           /\ \A s \in Rounds : rpc'[s] # rpc[s] => rpc[s] = "unborn" /\ rpc'[s] = "new"
<1>1. CASE StartRound(c)
  <2>1. PICK n \in Rounds : rpc[n] = "unborn" /\ rpc' = [rpc EXCEPT ![n] = "new"]
    BY <1>1 DEF StartRound, At, Goto
  <2>2. QED
    BY <1>1, <2>1 DEF StartRound, ControlOK, locals
<1>2. CASE ~StartRound(c)
  <2>1. UNCHANGED <<rpc, locals>>
    BY <1>2 DEF CallerStep, CallProceeds, Start, StartFails, Stop,
                StopTestsLatch, StopAwaits, StopWakes, StopReturns
  <2>2. QED
    BY <2>1 DEF locals
<1>3. QED
  BY <1>1, <1>2

\* The life of the proposals that a round carries, along any step.
LEMMA InStepStep ==
    ASSUME SchedulerTypes, ServiceInv, ~MayFail, ~Stops, ~RemoteFaults, [SchedulerNext]_vars,
           NEW r \in Rounds
    PROVE  InStep(r)'
<1>0. Exclusion /\ InStep(r) /\ ControlOK
  BY DEF ServiceInv, SchedulerTypes
<1>1. CASE RoundStep(r)
  BY <1>1, NoAbort, OwnStepInStep DEF ServiceInv
<1>2. ASSUME NEW s \in Rounds, r # s, RoundStep(s)
      PROVE  InStep(r)'
  <2>1. ~Alive(r) /\ rpc'[r] = rpc[r] /\ todo'[r] = todo[r]
    BY <1>0, <1>2, OthersAreOver
  <2>2. todo[r] = {}
    BY <1>0, <2>1 DEF InStep, Working, Alive
  <2>3. QED
    BY <2>1, <2>2 DEF InStep, Alive, Working, Executing, At
<1>3. CASE \E c \in Callers : CallerStep(c)
  <2>1. /\ UNCHANGED locals
        /\ \A s \in Rounds : rpc'[s] # rpc[s] => rpc[s] = "unborn" /\ rpc'[s] = "new"
    BY <1>0, <1>3, CallersAreQuiet
  <2>2. QED
    BY <2>1, QuietInStep
<1>4. CASE UNCHANGED <<locals, rpc>>
  <2>1. UNCHANGED locals /\ \A s \in Rounds : rpc'[s] = rpc[s]
    BY <1>4 DEF locals
  <2>2. QED
    BY <2>1, QuietInStep
<1>5. \/ \E c \in Callers : CallerStep(c)
      \/ \E s \in Rounds : RoundStep(s)
      \/ UNCHANGED <<locals, rpc>>
  BY DEF SchedulerNext, Observers, ManagerDeactivates, ManagerProceeds, DatabaseFails, vars
<1>6. QED
  BY <1>1, <1>2, <1>3, <1>4, <1>5

\* What the mount and the pictures show, along any step.
LEMMA SeenStep ==
    ASSUME SchedulerTypes, ServiceInv, MountFound, ~Stops, [SchedulerNext]_vars,
           NEW r \in Rounds
    PROVE  Seen(r)'
<1>0. Exclusion /\ Seen(r)
  BY DEF ServiceInv
<1>1. CASE RoundStep(r)
  BY <1>0, <1>1, RoundSeesItsTarget DEF Seen
<1>2. ASSUME NEW s \in Rounds, r # s, RoundStep(s)
      PROVE  Seen(r)'
  BY <1>0, <1>2, OthersAreOver DEF Seen, Exposes, At, Alive
<1>3. CASE UNCHANGED <<locals, aim>> /\ (rpc'[r] = rpc[r] \/ rpc'[r] = "new")
  BY <1>0, <1>3 DEF Seen, Exposes, Sight, At, locals
<1>4. ASSUME NEW c \in Callers, CallerStep(c)
      PROVE  Seen(r)'
  BY <1>3, <1>4 DEF CallerStep, CallProceeds, Start, StartRound, StartFails, Stop,
                    StopTestsLatch, StopAwaits, StopWakes, StopReturns, At, Goto,
                    SchedulerTypes, ControlOK
<1>5. QED
  BY <1>1, <1>2, <1>3, <1>4
  DEF SchedulerNext, Observers, ManagerDeactivates, ManagerProceeds, DatabaseFails, vars

\* All of it is inductive with the types.
LEMMA ServiceInvStep ==
    ASSUME DistinctTids, MountFound, ~MayFail, ~Stops, ~RemoteFaults,
           SchedulerTypes, ServiceInv, [SchedulerNext]_vars
    PROVE  ServiceInv'
<1>1. /\ Exclusion /\ DatabaseOK /\ Served /\ RunningIsServed /\ SnapshotsAgree
      /\ ControlOK
  BY DEF ServiceInv, SchedulerTypes
<1>2. Exclusion' /\ DatabaseOK' /\ SnapshotsAgree'
  BY <1>1, ExclusionStep, DatabaseOKStep, SnapshotsStep
<1>3. Served' /\ RunningIsServed'
  BY <1>1, ServedStep, RunningStep
<1>4. MapShows(proposals') /\ MapShows(dbFile'.map)
  BY MapsStep DEF ServiceInv, Seen
<1>5. \A r \in Rounds : InStep(r)' /\ Seen(r)'
  BY InStepStep, SeenStep
<1>6. QED
  BY <1>2, <1>3, <1>4, <1>5 DEF ServiceInv, MapShows

-----------------------------------------------------------------------------
\* What a step is to the book of the service.
LEMMA ViewSteps ==
    ASSUME ~MayFail, [SchedulerNext]_vars
    PROVE  \/ Client
           \/ \E r \in Rounds : MarkRunning(r) \/ MarkReady(r) \/ KeepImage(r)
           \/ StoreView' = StoreView
<1>1. ASSUME NEW r \in Rounds, RoundStep(r), ~KeepImage(r), ~MarkRunning(r), ~MarkReady(r)
      PROVE  UNCHANGED dbVars
  BY <1>1
  DEF RoundStep, CreateLatch, FetchProposals, NextProposal, CutShort, ForgetRequest, AllDone,
      CameraOn, Move, Arrive, ObserveWithoutMount, ObserveWithoutInstrument, Expose,
      ObserveFails, NoMoreTargets, CameraOff, ClearProposal, CountDown, ClearLatch,
      ReleaseComponents, Finish, Abort
<1>2. ASSUME NEW c \in Callers, CallerStep(c)
      PROVE  UNCHANGED dbVars
  BY <1>2 DEF CallerStep, CallProceeds, Start, StartRound, StartFails, Stop,
              StopTestsLatch, StopAwaits, StopWakes, StopReturns
<1>3. CASE UNCHANGED dbVars
  BY <1>3 DEF StoreView, dbVars
<1>4. CASE CleanUp \/ Initialize
  BY <1>4 DEF CleanUp, CleanUpOpen, CleanUpWritePid, CleanUpWriteMap, FileOf,
              Initialize, StoreView
<1>5. QED
  BY <1>1, <1>2, <1>3, <1>4
  DEF SchedulerNext, Observers, ManagerDeactivates, ManagerProceeds, DatabaseFails,
      Lose, CleanUp, vars

\* The astronomers submit and withdraw.
LEMMA ClientIsService ==
    ASSUME SchedulerTypes, DatabaseOK, Client
    PROVE  [Service!Next]_StoreView
<1>1. /\ StoreView = proposals /\ StoreView' = proposals'
      /\ IsProposalMap(proposals) /\ lastProposalId \in Nat
  BY DEF Client, StoreProposal, RemoveProposal, Clean, StoreView, SchedulerTypes, DBTypeOK
<1> USE DEF StoreView
<1>2. ASSUME NEW targets \in TargetLists, StoreProposal(targets)
      PROVE  Service!Next
  <2> DEFINE pid == lastProposalId + 1
  <2>1. proposals' = [p \in DOMAIN proposals \cup {pid} |->
                IF p = pid
                THEN [status |-> 0, targets |-> targets,
                      observations |-> [i \in 1..Len(targets) |-> NoImage]]
                ELSE proposals[p]]
    BY <1>2 DEF StoreProposal, Queued
  <2>2. pid \in DOMAIN proposals' \ DOMAIN proposals
    BY <1>1, <2>1 DEF DatabaseOK, CounterCoversMap, IsProposalMap
  <2>3. Service!Submit(pid, targets)
    BY <1>1, <2>1, <2>2 DEF Service!Submit
  <2>4. QED
    BY <1>1, <2>2, <2>3 DEF Service!Next
<1>3. ASSUME NEW pid \in Pids, RemoveProposal(pid)
      PROVE  [Service!Next]_StoreView
  <2>1. proposals' = [p \in DOMAIN proposals \ {pid} |-> proposals[p]]
    BY <1>3 DEF RemoveProposal
  <2>2. CASE pid \in DOMAIN proposals
    <3>1. Service!Withdraw({pid})
      BY <1>1, <2>1 DEF Service!Withdraw
    <3>2. QED
      BY <1>1, <2>2, <3>1 DEF Service!Next
  <2>3. CASE pid \notin DOMAIN proposals
    <3>1. proposals = [p \in DOMAIN proposals |-> proposals[p]]
      BY <1>1 DEF IsProposalMap
    <3>2. DOMAIN proposals \ {pid} = DOMAIN proposals
      BY <2>3
    <3>3. QED
      BY <1>1, <2>1, <3>1, <3>2
  <2>4. QED
    BY <2>2, <2>3
<1>4. CASE Clean
  <2>1. proposals' = [p \in DOMAIN proposals \ DOMAIN proposals |-> proposals[p]]
    BY <1>4 DEF Clean, NoProposals
  <2>2. Service!Withdraw(DOMAIN proposals)
    BY <1>1, <2>1 DEF Service!Withdraw
  <2>3. QED
    BY <1>1, <2>2 DEF Service!Next
<1>5. QED
  BY <1>2, <1>3, <1>4 DEF Client

\* The round begins a proposal when none is in execution, and completes the one
\* that is.
LEMMA MarksAreService ==
    ASSUME SchedulerTypes, ServiceInv, ~Stops,
           NEW r \in Rounds, MarkRunning(r) \/ MarkReady(r)
    PROVE  [Service!Next]_StoreView
<1> DEFINE pid == current[r].pid
<1>1. /\ StoreView = proposals /\ StoreView' = proposals'
      /\ DOMAIN proposals \subseteq Nat \ {0}
  BY DEF MarkRunning, MarkReady, SetProposalStatus, StoreView, SchedulerTypes, DBTypeOK,
         IsProposalMap
<1>2. CASE pid \notin DOMAIN proposals
  BY <1>1, <1>2 DEF MarkRunning, MarkReady, SetProposalStatus, Exists
<1>3. CASE MarkRunning(r) /\ pid \in DOMAIN proposals
  <2>1. proposals[pid].status = 0
    BY <1>1, <1>3 DEF MarkRunning, ServiceInv, InStep, HasStatus, Queued
  <2>2. \A p \in DOMAIN proposals : proposals[p].status # 1
    BY <1>1, <1>3 DEF MarkRunning, ServiceInv, RunningIsServed, Exclusion, Running,
                      Executing, At, Alive
  <2>3. proposals' = [proposals EXCEPT ![pid].status = 1]
    BY <1>3 DEF MarkRunning, SetProposalStatus, Exists, Statuses, Running
  <2>4. Service!Begin(pid)
    BY <1>1, <2>1, <2>2, <2>3 DEF Service!Begin, Service!InExecution, StoreView
  <2>5. QED
    BY <1>1, <1>3, <2>4 DEF Service!Next, StoreView
<1>4. CASE MarkReady(r) /\ pid \in DOMAIN proposals
  <2>1. proposals[pid].status = 1
    BY <1>1, <1>4 DEF MarkReady, ServiceInv, InStep, HasStatus, Running, Executing, At
  <2>2. proposals' = [proposals EXCEPT ![pid].status = 2]
    BY <1>4 DEF MarkReady, SetProposalStatus, Exists, Statuses, Ready
  <2>3. Service!Complete(pid)
    BY <1>1, <1>4, <2>1, <2>2 DEF Service!Complete, Service!InExecution, StoreView
  <2>4. QED
    BY <1>1, <1>4, <2>3 DEF Service!Next, StoreView
<1>5. QED
  BY <1>2, <1>3, <1>4

\* A picture is stored during the execution, in an empty slot, and is the one of
\* that slot's target.
LEMMA PictureIsService ==
    ASSUME DistinctTids, SchedulerTypes, ServiceInv, NEW r \in Rounds, KeepImage(r)
    PROVE  [Service!Next]_StoreView
<1> DEFINE pid == current[r].pid
           tid == Sight(r).tid
<1>1. CASE UNCHANGED dbVars
  BY <1>1 DEF dbVars, StoreView
<1>2. CASE StoreImage(pid, tid, image[r])
  <2>1. StoreView = proposals /\ StoreView' = proposals' /\ dbState = "up"
    BY <1>2 DEF StoreImage, StoreView
  <2>2. CASE OpenSlot(pid, tid) = {}
    BY <1>2, <2>1, <2>2 DEF StoreImage
  <2>3. CASE OpenSlot(pid, tid) # {}
    <3>1. PICK i \in OpenSlot(pid, tid) :
             proposals' = [proposals EXCEPT ![pid].observations[i] = image[r]]
      BY <1>2, <2>3 DEF StoreImage
    <3>2. /\ pid \in DOMAIN proposals
          /\ i \in DOMAIN proposals[pid].targets
          /\ proposals[pid].targets[i].pos = Sight(r).pos
      BY <2>1, <3>1, SlotIsSight DEF ServiceInv, KeepImage
    <3>3. proposals[pid].observations[i] = NoImage
      BY <3>1 DEF OpenSlot
    <3>4. proposals[pid].status = 1
      BY <2>1, <3>2 DEF KeepImage, ServiceInv, InStep, HasStatus, Running, Executing, At
    <3>5. image[r] \in {proposals[pid].targets[i].pos, Blank}
      BY <3>2 DEF KeepImage, ServiceInv, Seen
    <3>6. Service!TakePicture(pid, i, image[r])
      BY <2>1, <3>1, <3>2, <3>3, <3>4, <3>5
      DEF Service!TakePicture, Service!InExecution, StoreView
    <3>7. QED
      BY <2>1, <3>2, <3>5, <3>6 DEF Service!Next, StoreView
  <2>4. QED
    BY <2>2, <2>3
<1>3. QED
  BY <1>1, <1>2 DEF KeepImage

\* The scheduler implements the service: whatever the interleaving of start()
\* calls, rounds, submissions, removals and deactivations of the database, a
\* proposal goes from queued to running to ready once, alone, and its pictures
\* are taken meanwhile and show its targets.  Without stop(), failing calls or
\* crashes, with a mount, and with tids that tell the targets of a proposal
\* apart: each of these assumptions has its counterexample.
THEOREM ServiceImplemented ==
    ASSUME DistinctTids, MountFound, ~MayFail, ~Stops, ~RemoteFaults
    PROVE  SchedulerSpec => ImplementsService
<1>1. SchedulerInit => Service!Init
  BY DEF SchedulerInit, DBInit, NoProposals, Service!Init
<1>2. SchedulerInit => ServiceInv
  <2> SUFFICES ASSUME SchedulerInit
               PROVE  ServiceInv
    OBVIOUS
  <2>1. Exclusion /\ Served
    BY DEF SchedulerInit, Exclusion, Owning, Alive, CallerAt, Served, Serving, RoundStates
  <2>2. StoreView = NoProposals /\ proposals = NoProposals /\ dbFile.map = NoProposals
    BY DEF SchedulerInit, DBInit, StoreView
  <2>3. RunningIsServed /\ MapShows(proposals) /\ MapShows(dbFile.map)
    BY <2>2, EmptyMapOK DEF RunningIsServed, MapShows
  <2>4. SnapshotsAgree
    BY DEF SchedulerInit, SnapshotsAgree, Carried
  <2>5. \A r \in Rounds : InStep(r) /\ Seen(r)
    BY DEF SchedulerInit, InStep, Seen, Exposes, Executing, At
  <2>6. QED
    BY <2>1, <2>3, <2>4, <2>5, DatabaseOKInit DEF ServiceInv
<1>3. SchedulerTypes /\ ServiceInv /\ [SchedulerNext]_vars => ServiceInv'
  BY ServiceInvStep
<1>4. SchedulerTypes /\ ServiceInv /\ [SchedulerNext]_vars => [Service!Next]_StoreView
  BY ViewSteps, ClientIsService, MarksAreService, PictureIsService DEF ServiceInv
<1>5. [Service!Next]_StoreView => [Service!Next]_(IF dbState = "down" THEN dbFile.map ELSE proposals)
  BY DEF StoreView
<1>6. QED
  BY <1>1, <1>2, <1>3, <1>4, <1>5, TypesAlways, PTL
  DEF SchedulerSpec, ImplementsService, Service!Spec

-----------------------------------------------------------------------------
\* The console.

\* Where a thread of the console is, and where the scheduler call is that it
\* is blocked in.
ThreadOK(c) ==
    IF ThreadAt(c, "starting") THEN CallerAt(c, "starting")
    ELSE IF ThreadAt(c, "stopping")
    THEN cpc[c] \in {"requested", "tested", "waiting", "clearing"}
    ELSE /\ kpc[c] \in {"idle", "started", "stopped", "moving"} \cup Positions
         /\ CallerAt(c, "idle")

ThreadsOK ==
    /\ mode \in BOOLEAN
    /\ kpc \in [Callers -> ThreadStates \cup Positions]
    /\ \A c \in Callers : ThreadOK(c)

\* The mount is moved by hand.
ByHand == \E c \in Callers : TelescopeMoves(c)

\* A console step is one of the scheduler, or moves the mount by hand.
LEMMA ConsoleSteps ==
    ASSUME [ConsoleNext]_consoleVars
    PROVE  [SchedulerNext]_vars \/ ByHand
<1>1. ASSUME NEW c \in Callers, SetMode(c)
      PROVE  [SchedulerNext]_vars
  BY <1>1 DEF SetMode, AskAutomatic, AutomaticGranted, AutomaticRefused, EnterAutomatic,
              AskManual, StopGoesOn, StopThrows, StopDone, EnterManual, SchedulerNext,
              CallerStep, CallProceeds
<1>2. ASSUME NEW c \in Callers, MoveTelescope(c) \/ TelescopeArrives(c) \/ MoveFails(c)
      PROVE  UNCHANGED vars
  BY <1>2 DEF MoveTelescope, TelescopeArrives, MoveFails
<1>3. CASE Background
  BY <1>3 DEF Background, SchedulerNext
<1>4. QED
  BY <1>1, <1>2, <1>3 DEF ConsoleNext, consoleVars, ByHand

\* Moving the telescope by hand keeps the types of the scheduler.
LEMMA ByHandKeepsTypes == SchedulerTypes /\ ByHand => SchedulerTypes'
<1> SUFFICES ASSUME SchedulerTypes, NEW c \in Callers, TelescopeMoves(c)
             PROVE  SchedulerTypes'
  BY DEF ByHand
<1>1. UNCHANGED <<dbVars, flags, dbHeld, rpc, locals, callers, history>> /\ aim' \in Positions
  BY DEF TelescopeMoves, SchedulerTypes, FlagsOK
<1>2. DBTypeOK'
  BY <1>1 DEF SchedulerTypes, DBTypeOK, IsProposalMap, dbVars
<1>3. QED
  BY <1>1, <1>2 DEF SchedulerTypes, ControlOK, FlagsOK, LocalsOK, RoundOK, Executing, At,
                    flags, locals, callers

\* So does every step of the console.
LEMMA ConsoleKeepsSchedulerTypes ==
    SchedulerTypes /\ [ConsoleNext]_consoleVars => SchedulerTypes'
  BY ConsoleSteps, TypesStep, ByHandKeepsTypes

\* Nothing but its console thread moves a caller of the scheduler.
LEMMA ThreadsStep ==
    ASSUME SchedulerTypes, ThreadsOK, [ConsoleNext]_consoleVars
    PROVE  ThreadsOK'
<1> USE ConsoleAssumption
    DEF SchedulerTypes, ControlOK, ThreadsOK, ThreadOK, ThreadStates, ThreadAt, ThreadGoto,
        CallerAt, CallerGoto
<1>1. ASSUME NEW c \in Callers, AskAutomatic(c) \/ AutomaticGranted(c) \/ AutomaticRefused(c)
      PROVE  ThreadsOK'
  BY <1>1 DEF AskAutomatic, AutomaticGranted, AutomaticRefused, Start, StartRound, StartFails
<1>2. ASSUME NEW c \in Callers, AskManual(c) \/ StopDone(c)
      PROVE  ThreadsOK'
  BY <1>2 DEF AskManual, StopDone, Stop, StopReturns
<1>3. ASSUME NEW c \in Callers, StopGoesOn(c) \/ StopThrows(c)
      PROVE  ThreadsOK'
  BY <1>3 DEF StopGoesOn, StopThrows, StopTestsLatch, StopWakes, StopAwaits
<1>4. ASSUME NEW c \in Callers, EnterAutomatic(c) \/ EnterManual(c) \/ MoveTelescope(c)
                                \/ TelescopeArrives(c) \/ MoveFails(c)
      PROVE  ThreadsOK'
  BY <1>4 DEF EnterAutomatic, EnterManual, MoveTelescope, TelescopeArrives, MoveFails,
              vars, callers
<1>5. ASSUME NEW c \in Callers, TelescopeMoves(c)
      PROVE  ThreadsOK'
  BY <1>5 DEF TelescopeMoves, callers
<1>6. ASSUME NEW r \in Rounds, RoundStep(r)
      PROVE  UNCHANGED cpc
  BY <1>6, RoundStepMoves DEF MovesRound
<1>7. CASE UNCHANGED <<cpc, mode, kpc>>
  BY <1>7
<1>8. QED
  BY <1>1, <1>2, <1>3, <1>4, <1>5, <1>6, <1>7
  DEF ConsoleNext, SetMode, Background, Observers, ManagerDeactivates, ManagerProceeds,
      DatabaseFails, consoleVars, vars, callers

\* The types hold at the start.
LEMMA ConsoleTypesInit == ConsoleInit => SchedulerTypes /\ ThreadsOK
<1>1. ConsoleInit => mode = FALSE /\ \A c \in Callers : kpc[c] = "idle" /\ cpc[c] = "idle"
  BY DEF ConsoleInit, SchedulerInit
<1>2. ConsoleInit => kpc \in [Callers -> ThreadStates]
  BY DEF ConsoleInit, ThreadStates
<1>3. QED
  BY <1>1, <1>2, TypesInit DEF ConsoleInit, ThreadsOK, ThreadOK, ThreadAt, CallerAt

\* So they always hold.
LEMMA ConsoleTypesAlways == ConsoleSpec => [](SchedulerTypes /\ ThreadsOK)
  BY ConsoleTypesInit, ConsoleKeepsSchedulerTypes, ThreadsStep, PTL DEF ConsoleSpec

\* Each console thread is where the scheduler call is that it waits for, for any
\* number of threads.
THEOREM ConsoleTypeCorrect == ConsoleSpec => []ConsoleTypeOK
<1>1. SchedulerTypes /\ ThreadsOK => ConsoleTypeOK
  BY TypesAreTypeOK DEF ThreadsOK, ThreadOK, ConsoleTypeOK
<1>2. QED
  BY <1>1, ConsoleTypesAlways, PTL

-----------------------------------------------------------------------------
\* The steps of asked and of the rounds, as the console sees them.
LEMMA AskedGrows ==
    ASSUME [ConsoleNext]_consoleVars
    PROVE  asked \subseteq asked'
<1>1. ASSUME NEW r \in Rounds, RoundStep(r)
      PROVE  UNCHANGED asked
  BY <1>1
  DEF RoundStep, CreateLatch, FetchProposals, NextProposal, CutShort, ForgetRequest, AllDone,
      MarkRunning, CameraOn, Move, Arrive, ObserveWithoutMount,
      ObserveWithoutInstrument, Expose, ObserveFails, KeepImage, NoMoreTargets,
      CameraOff, MarkReady, ClearProposal, CountDown, ClearLatch, ReleaseComponents,
      Finish, Abort, history
<1>2. ASSUME NEW c \in Callers, CallerStep(c)
      PROVE  asked \subseteq asked'
  BY <1>2 DEF CallerStep, CallProceeds, Start, StartRound, StartFails, Stop,
              StopTestsLatch, StopAwaits, StopWakes, StopReturns, history
<1>3. ByHand => UNCHANGED asked
  BY DEF ByHand, TelescopeMoves, history
<1>4. QED
  BY <1>1, <1>2, <1>3, ConsoleSteps
  DEF SchedulerNext, Observers, ManagerDeactivates, ManagerProceeds, DatabaseFails,
      vars, history

\* What makes HandsOffDuringRounds inductive.  As long as no round has been asked
\* to stop, isRunning is the lock that it is without stop(), and a thread that
\* moves the telescope, or is on its way from or to another mode, has seen that
\* no round runs.
Waits(c) == kpc[c] \in {"starting", "stopping", "stopped", "moving"} \cup Positions

HandsOff ==
    asked = {} =>
        /\ \A r, s \in Rounds : Alive(r) /\ Alive(s) => r = s
        /\ \A r \in Rounds : Alive(r) => isRunning
        /\ \A c \in Callers : ThreadAt(c, "starting") => isRunning
        /\ (\E r \in Rounds : Alive(r)) =>
              /\ mode \/ \E c \in Callers : ThreadAt(c, "started")
              /\ \A c \in Callers : ~Waits(c)

OneThread == \A c, d \in Callers : c = d

\* HandsOff is inductive with the types.
LEMMA HandsOffStep ==
    ASSUME OneThread, SchedulerTypes, ThreadsOK, HandsOff, [ConsoleNext]_consoleVars
    PROVE  HandsOff'
<1> SUFFICES ASSUME asked' = {}
             PROVE  HandsOff'
  BY DEF HandsOff
<1>0. asked = {}
  BY AskedGrows
<1> USE <1>0, ConsoleAssumption
    DEF OneThread, SchedulerTypes, ControlOK, ThreadsOK, ThreadStates, ThreadAt, ThreadGoto,
        HandsOff, Waits
<1>1. ASSUME NEW c \in Callers, AskAutomatic(c)
      PROVE  HandsOff'
  BY <1>1 DEF AskAutomatic, Start, Alive
<1>2. ASSUME NEW c \in Callers, AutomaticGranted(c)
      PROVE  HandsOff'
  <2>1. \A r \in Rounds : ~Alive(r)
    BY <1>2 DEF AutomaticGranted
  <2>2. PICK r \in Rounds : At(r, "unborn") /\ Goto(r, "new")
    BY <1>2 DEF AutomaticGranted, StartRound
  <2>3. \A s \in Rounds : Alive(s)' => s = r
    BY <2>1, <2>2 DEF Alive, Goto
  <2>4. isRunning'
    BY <1>2 DEF AutomaticGranted, StartRound, flags
  <2>5. /\ kpc' = [kpc EXCEPT ![c] = "started"]
        /\ \A d \in Callers : d = c /\ ~Waits(d)'
    BY <1>2 DEF AutomaticGranted
  <2>6. QED
    BY <2>3, <2>4, <2>5
<1>3. ASSUME NEW c \in Callers, AutomaticRefused(c) \/ StopThrows(c) \/ StopGoesOn(c) \/ StopDone(c)
      PROVE  HandsOff'
  <2>1. UNCHANGED rpc /\ Waits(c) /\ kpc'[c] # "starting" /\ \A d \in Callers : d = c
    BY <1>3 DEF AutomaticRefused, StopThrows, StopGoesOn, StopDone, StartFails, StopAwaits,
                StopTestsLatch, StopWakes, StopReturns
  <2>2. QED
    BY <2>1 DEF Alive
<1>4. ASSUME NEW c \in Callers, EnterAutomatic(c)
      PROVE  HandsOff'
  BY <1>4 DEF EnterAutomatic, vars, flags, Alive
<1>5. ASSUME NEW c \in Callers, AskManual(c)
      PROVE  HandsOff'
  BY <1>5 DEF AskManual, Stop, Alive
<1>6. ASSUME NEW c \in Callers, EnterManual(c) \/ TelescopeMoves(c) \/ TelescopeArrives(c) \/ MoveFails(c)
      PROVE  HandsOff'
  <2>1. UNCHANGED rpc /\ Waits(c) /\ kpc'[c] # "starting" /\ \A d \in Callers : d = c
    BY <1>6 DEF EnterManual, TelescopeMoves, TelescopeArrives, MoveFails, vars
  <2>2. QED
    BY <2>1 DEF Alive
<1>7. ASSUME NEW c \in Callers, MoveTelescope(c)
      PROVE  HandsOff'
  <2>1. /\ UNCHANGED rpc /\ ~mode /\ kpc[c] = "idle" /\ kpc'[c] = "moving"
        /\ \A d \in Callers : d = c
    BY <1>7 DEF MoveTelescope, vars
  <2>2. QED
    BY <2>1 DEF Alive
<1>8. ASSUME NEW r \in Rounds, RoundStep(r), UNCHANGED <<mode, kpc>>
      PROVE  HandsOff'
  <2>1. CASE MovesRound(r)
    BY <1>8, <2>1 DEF MovesRound, Goto, Alive
  <2>2. CASE At(r, "finally") /\ Goto(r, "dead") /\ isRunning' = FALSE
    BY <1>8, <2>2 DEF At, Goto, Alive
  <2>3. QED
    BY <1>8, <2>1, <2>2, RoundStepMoves
<1>9. CASE UNCHANGED <<rpc, isRunning, mode, kpc>>
  BY <1>9 DEF Alive
<1>10. QED
  BY <1>1, <1>2, <1>3, <1>4, <1>5, <1>6, <1>7, <1>8, <1>9
  DEF ConsoleNext, SetMode, Background, Observers, ManagerDeactivates, ManagerProceeds,
      DatabaseFails, consoleVars, vars, flags

\* So it always holds.
LEMMA HandsOffAlways ==
    ASSUME OneThread
    PROVE  ConsoleSpec => []HandsOff
<1>1. ConsoleInit => HandsOff
  BY DEF ConsoleInit, SchedulerInit, HandsOff, Alive, ThreadAt
<1>2. SchedulerTypes /\ ThreadsOK /\ HandsOff /\ [ConsoleNext]_consoleVars => HandsOff'
  BY HandsOffStep
<1>3. QED
  BY <1>1, <1>2, ConsoleTypesAlways, PTL DEF ConsoleSpec

\* With one operator, whose calls follow each other, a round that nobody asked to
\* stop runs in automatic mode, and no movement by hand is under way as long as it
\* does.
THEOREM OperatorKeepsHandsOff ==
    ASSUME OneThread
    PROVE  ConsoleSpec => []HandsOffDuringRounds
<1>1. HandsOff => HandsOffDuringRounds
  BY DEF HandsOff, HandsOffDuringRounds, Waits
<1>2. QED
  BY <1>1, HandsOffAlways, PTL

-----------------------------------------------------------------------------
\* What makes ImageShowsItsTarget inductive: the mount stands where the round at
\* hand wants it while it exposes, the picture to be stored is of its target,
\* and the file is as right as the object.
Pictures ==
    asked = {} =>
        /\ MapShows(proposals) /\ MapShows(dbFile.map)
        /\ \A r \in Rounds :
              /\ Exposes(r)
              /\ At(r, "store") => image[r] \in {Blank, Sight(r).pos}

\* What stored pictures show is inductive with HandsOff and the types.
LEMMA PicturesStep ==
    ASSUME MountFound, DistinctTids, SchedulerTypes, ThreadsOK, SnapshotsAgree, HandsOff,
           Pictures, [ConsoleNext]_consoleVars
    PROVE  Pictures'
<1> SUFFICES ASSUME asked' = {}
             PROVE  Pictures'
  BY DEF Pictures
<1>0. asked = {}
  BY AskedGrows
<1>1. MapShows(proposals') /\ MapShows(dbFile'.map)
  <2>1. CASE ByHand
    BY <1>0, <2>1 DEF ByHand, TelescopeMoves, dbVars, Pictures
  <2>2. CASE [SchedulerNext]_vars
    BY <1>0, <2>2, MapsStep DEF Pictures
  <2>3. QED
    BY <2>1, <2>2, ConsoleSteps
<1>2. ASSUME NEW s \in Rounds
      PROVE  /\ Exposes(s)'
             /\ At(s, "store")' => image'[s] \in {Blank, Sight(s)'.pos}
  <2>1. CASE RoundStep(s)
    BY <1>0, <2>1, RoundSeesItsTarget DEF Pictures
  <2>2. ASSUME NEW r \in Rounds, r # s, RoundStep(r)
        PROVE  rpc'[s] \notin {"expose", "store"}
    <3>1. Alive(r)
      BY <2>2, RoundStepMoves DEF SchedulerTypes, MovesRound, Alive, At
    <3>2. ~Alive(s)
      BY <1>0, <2>2, <3>1 DEF HandsOff
    <3>3. rpc'[s] = rpc[s]
      BY <2>2, RoundStepMoves DEF SchedulerTypes, ControlOK, MovesRound, Goto
    <3>4. QED
      BY <3>2, <3>3 DEF Alive
  <2>3. ASSUME NEW c \in Callers, CallerStep(c)
        PROVE  /\ UNCHANGED <<aim, locals>>
               /\ rpc'[s] = rpc[s] \/ rpc'[s] = "new"
    BY <2>3 DEF CallerStep, CallProceeds, Start, StartRound, StartFails, Stop,
                StopTestsLatch, StopAwaits, StopWakes, StopReturns, SchedulerTypes,
                ControlOK, Goto
  <2>4. CASE ByHand
    <3>1. PICK c \in Callers : TelescopeMoves(c)
      BY <2>4 DEF ByHand
    <3>2. Waits(c) /\ UNCHANGED rpc
      BY <3>1 DEF TelescopeMoves, ThreadAt, Waits
    <3>3. ~Alive(s)
      BY <1>0, <3>2 DEF HandsOff
    <3>4. QED
      BY <3>2, <3>3 DEF Alive, Exposes, At
  <2>5. CASE UNCHANGED <<rpc, aim, locals>>
    BY <1>0, <2>5 DEF Pictures, Exposes, Sight, At, locals
  <2>6. QED
    BY <1>0, <2>1, <2>2, <2>3, <2>4, <2>5, ConsoleSteps
    DEF SchedulerNext, Observers, ManagerDeactivates, ManagerProceeds, DatabaseFails,
        vars, Pictures, Exposes, Sight, At, locals
<1>3. QED
  BY <1>1, <1>2 DEF Pictures

\* ImageShowsItsTarget for one operator and a telescope with its mount, if no
\* target list has a tid twice (the picture of the second would be kept for the
\* first) and no crash gives a pid to another proposal.
THEOREM ImagesShowTheirTargets ==
    ASSUME OneThread, DistinctTids, ~MayFail
    PROVE  ConsoleSpec => []ImageShowsItsTarget
<1>1. CASE ~MountFound
  <2>1. ImageShowsItsTarget
    BY <1>1 DEF ImageShowsItsTarget
  <2>2. QED
    BY <2>1, PTL
<1>2. CASE MountFound
  <2>1. ConsoleInit => DatabaseOK /\ SnapshotsAgree /\ Pictures
    BY DatabaseOKInit, EmptyMapOK
    DEF ConsoleInit, SchedulerInit, DBInit, SnapshotsAgree, Carried, Pictures, MapShows,
        Exposes, At
  <2>2. SchedulerTypes /\ ThreadsOK /\ HandsOff /\ DatabaseOK /\ SnapshotsAgree /\ Pictures
          /\ [ConsoleNext]_consoleVars
          => DatabaseOK' /\ SnapshotsAgree' /\ Pictures'
    <3> SUFFICES ASSUME SchedulerTypes, ThreadsOK, HandsOff, DatabaseOK, SnapshotsAgree,
                        Pictures, [ConsoleNext]_consoleVars
                 PROVE  DatabaseOK' /\ SnapshotsAgree' /\ Pictures'
      OBVIOUS
    <3>1. ASSUME [SchedulerNext]_vars
          PROVE  DatabaseOK' /\ SnapshotsAgree'
      BY <3>1, DatabaseOKStep, SnapshotsStep
    <3>2. ASSUME ByHand
          PROVE  DatabaseOK' /\ SnapshotsAgree'
      BY <3>2
      DEF ByHand, TelescopeMoves, DatabaseOK, CounterCoversMap, DownIsEmpty,
          SnapshotsAgree, Carried, Counter, StoreView, dbVars, locals
    <3>3. Pictures'
      BY <1>2, PicturesStep
    <3>4. QED
      BY <3>1, <3>2, <3>3, ConsoleSteps
  <2>3. Pictures => ImageShowsItsTarget
    BY DEF Pictures, MapShows, ImageShowsItsTarget
  <2>4. ConsoleSpec => []HandsOff
    BY HandsOffAlways
  <2>5. QED
    BY <2>1, <2>2, <2>3, <2>4, ConsoleTypesAlways, PTL DEF ConsoleSpec
<1>3. QED
  BY <1>1, <1>2
=============================================================================
