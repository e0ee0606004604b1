------------------------ MODULE UOSScheduler_proofs ------------------------
(***************************************************************************)
(* Rounds and operators of the UOS do not meet, and a proposal that is     *)
(* ready has its images, for any number of threads, operators, clients and *)
(* proposals, and calls that fail at any step.                             *)
(***************************************************************************)
EXTENDS UOSScheduler, FiniteSetTheorems, SequenceTheorems, WellFoundedInduction, TLAPS

Places == {"unused", "new", "test", "exit", "fetch", "targets", "check", "mark", "on",
           "observe", "off", "check again", "ready", "over"}

Calls == {"idle", "manual", "automatic", "start", "create", "stop", "stopping", "join",
          "image"}

\* The part of the state the argument is about has its type.
UOSTypeOK ==
    /\ at \in [Loops -> Places]
    /\ operators \in [Operators -> Calls] /\ joined \in [Operators -> 0..MaxLoops]
    /\ loop \in 0..MaxLoops
    /\ loopValidator \in BOOLEAN /\ startValidator \in BOOLEAN /\ mode \in BOOLEAN

\* Past the test of the while loop: nothing but a failure stops it before the
\* end of its round.
Working(l) == InRound(l) \/ at[l] \in {"fetch", "targets", "check"}

\* The operators have left the scheduler alone, or are about to.
Automatic == mode /\ \A o \in Operators : operators[o] \in Free \cup {"manual"}

Stopping == \E o \in Operators : operators[o] \in {"stop", "stopping", "join"}

\* Two of a kind have not met.
OneOfEach ==
    /\ \A o, other \in Operators :
          operators[o] \notin Free /\ operators[other] \notin Free => o = other
    /\ \A l \in Loops : Alive(l) => loop = l

\* Where an operator is tells the mode, and for which thread he waits.
OperatorsKnow ==
    \A o \in Operators :
        /\ operators[o] \in {"manual", "start", "create"} => mode
        /\ operators[o] \in {"automatic", "stop", "stopping", "join"} => ~mode
        /\ operators[o] = "join" => joined[o] = loop

\* A thread that runs has set startValidator; it goes on as long as the mode
\* lets it or stop() is about to wait for it; the flag for the next turn is
\* down before stop() waits.
Calm ==
    /\ OneOfEach
    /\ OperatorsKnow
    /\ \A l \in Loops :
          /\ Alive(l) /\ at[l] # "new" => startValidator
          /\ Working(l) => Automatic \/ Stopping
          /\ at[l] = "observe" => camera
    /\ loopValidator => Automatic \/ \E o \in Operators : operators[o] = "stop"

UOSInv == UOSTypeOK /\ (races # "threads" => Calm)

\* What each step of a thread looks like to the others.
Moves(l, to) ==
    /\ at' = [at EXCEPT ![l] = to]
    /\ Alive(l) /\ to \in Places \ {"unused", "new"}
    /\ UNCHANGED <<loop, loopValidator, console>>
    /\ to = "over" \/ startValidator'
    /\ to \in {"over", "test", "exit"} \/ Working(l) \/ loopValidator
    /\ to = "observe" => camera'

\* Such a step leaves the others calm.
LEMMA LoopMoves ==
    ASSUME UOSTypeOK, Calm, NEW l \in Loops, NEW to, Moves(l, to)
    PROVE  Calm'
<1> USE DEF Moves
<1>1. OneOfEach'
  BY DEF UOSTypeOK, Calm, OneOfEach, Alive, console
<1>2. OperatorsKnow'
  BY DEF UOSTypeOK, Calm, OperatorsKnow, console
<1>3. \A k \in Loops : Alive(k)' => k = l
  BY <1>1 DEF UOSTypeOK, Calm, OneOfEach, Alive
<1>4. (Automatic <=> Automatic') /\ (Stopping <=> Stopping')
  BY DEF Automatic, Stopping, console
<1>5. ASSUME NEW k \in Loops
      PROVE  /\ Alive(k)' /\ at'[k] # "new" => startValidator'
             /\ Working(k)' => Automatic' \/ Stopping'
             /\ at'[k] = "observe" => camera'
  <2>1. CASE k = l
    <3>1. at'[k] = to
      BY <2>1 DEF UOSTypeOK
    <3>2. Working(l) \/ loopValidator => Automatic' \/ Stopping'
      BY <1>4 DEF Calm, Stopping
    <3>3. QED
      BY <3>1, <3>2 DEF Alive, Working, InRound
  <2>2. CASE k # l
    BY <1>3, <2>2 DEF Alive, Working, InRound
  <2>3. QED
    BY <2>1, <2>2
<1>6. loopValidator' => Automatic' \/ \E o \in Operators : operators'[o] = "stop"
  BY <1>4 DEF Calm, console
<1>7. QED
  BY <1>1, <1>2, <1>5, <1>6 DEF Calm

\* The type is kept by every step.
LEMMA UOSTypeStep ==
    ASSUME UOSTypeOK, [UOSNext]_uosVars
    PROVE  UOSTypeOK'
<1> USE UOSAssumption DEF UOSTypeOK
<1>1. ASSUME NEW l \in Loops, LoopStep(l) \/ RemoteFails(l)
      PROVE  UOSTypeOK'
  BY <1>1 DEF LoopStep, RemoteFails, Run, TestLoop, Exit, getProposals, getTargets, CheckStatus,
              WriteStatus, CameraOn, storeImage, NextTarget, CameraOff, Goes, Ends, Places,
              flags, console
<1>2. ASSUME NEW o \in Operators, setMode(o) \/ OperatorStep(o) \/ ByHand(o)
      PROVE  UOSTypeOK'
  <2>1. CASE setMode(o) \/ ByHand(o)
    BY <2>1 DEF setMode, ByHand, SwitchCamera, getCameraImage, ImageTaken, Continues, Returns, Calls,
                loops, flags, console
  <2>2. CASE SetMode(o) \/ start(o) \/ stop(o)
    BY <2>2 DEF SetMode, start, stop, Continues, Returns, Calls, loops, flags
  <2>3. ASSUME NEW l \in Loops, CreateLoop(o, l)
        PROVE  UOSTypeOK'
    <3>1. at' \in [Loops -> Places] /\ operators' \in [Operators -> Calls]
      BY <2>3 DEF CreateLoop, Goes, Returns, Continues, Calls, Places
    <3>2. loop' \in 0..MaxLoops
      BY <2>3 DEF CreateLoop, Loops
    <3>3. QED
      BY <2>3, <3>1, <3>2 DEF CreateLoop
  <2>4. CASE JoinOrNot(o) \/ Join(o)
    BY <2>4 DEF JoinOrNot, Join, Continues, Returns, Calls, loops, flags, None
  <2>5. QED
    BY <1>2, <2>1, <2>2, <2>3, <2>4 DEF OperatorStep
<1>3. ASSUME UNCHANGED <<loops, flags, console>>
      PROVE  UOSTypeOK'
  BY <1>3 DEF loops, flags, console
<1>4. QED
  BY <1>1, <1>2, <1>3 DEF UOSNext, uosVars, InsertProposal, SelectMax, Stored, InsertTarget,
                          removeProposal, clean

\* Once two of a kind have met that is not forgotten.
LEMMA ThreadsStay ==
    ASSUME [UOSNext]_uosVars, races = "threads"
    PROVE  races' = "threads"
BY DEF UOSNext, uosVars, LoopStep, RemoteFails, Run, TestLoop, Exit, getProposals, getTargets,
       CheckStatus, WriteStatus, CameraOn, storeImage, CameraOff, OperatorStep, setMode, SetMode,
       start, CreateLoop, stop, JoinOrNot, Join, ByHand, SwitchCamera, getCameraImage,
       ImageTaken, Hits, InsertProposal, SelectMax, InsertTarget, Stored, removeProposal, clean

\* Every step of a thread is one of these.
LEMMA LoopStepCalm ==
    ASSUME UOSTypeOK, Calm, NEW l \in Loops, LoopStep(l) \/ RemoteFails(l)
    PROVE  Calm'
<1> SUFFICES \E to : Moves(l, to)
  BY LoopMoves
<1> USE DEF Moves, Goes, Ends, Alive, Working, InRound, Places, flags, console
<1>0. at[l] \notin {"unused", "over", "new"} => startValidator
  BY DEF Calm
<1>1. CASE RemoteFails(l)
  <2>1. Moves(l, "over")
    BY <1>1 DEF RemoteFails, Remote
  <2>2. QED
    BY <2>1
<1>2. CASE Run(l)
  <2>1. Moves(l, "test") \/ Moves(l, "over")
    BY <1>2 DEF Run
  <2>2. QED
    BY <2>1
<1>3. CASE TestLoop(l)
  <2>1. Moves(l, IF loopValidator THEN "fetch" ELSE "exit")
    BY <1>0, <1>3 DEF TestLoop
  <2>2. QED
    BY <2>1
<1>4. CASE Exit(l)
  <2>1. Moves(l, "over")
    BY <1>4 DEF Exit
  <2>2. QED
    BY <2>1
<1>5. CASE getProposals(l)
  <2>1. Moves(l, IF Queued = {} THEN "test" ELSE "targets")
    BY <1>0, <1>5 DEF getProposals
  <2>2. QED
    BY <2>1
<1>6. CASE getTargets(l)
  <2>1. /\ at[l] = "targets" /\ at' = [at EXCEPT ![l] = "check"]
        /\ UNCHANGED <<flags, console>>
    BY <1>6 DEF getTargets
  <2>2. Moves(l, "check")
    BY <1>0, <2>1
  <2>3. QED
    BY <2>2
<1>7. ASSUME NEW pc, NEW from, NEW write, NEW refused, CheckStatus(l, pc, from, write, refused),
             pc \in {"check", "check again"}, write \in {"mark", "ready"}, refused \in {"on", "test"}
      PROVE  \E to : Moves(l, to)
  <2>1. Moves(l, write) \/ Moves(l, refused) \/ Moves(l, "over")
    BY <1>0, <1>7 DEF CheckStatus
  <2>2. QED
    BY <2>1
<1>8. ASSUME NEW pc, NEW status, NEW next, WriteStatus(l, pc, status, next),
             pc \in {"mark", "ready"}, next \in {"on", "test"}
      PROVE  \E to : Moves(l, to)
  <2>1. Moves(l, next)
    BY <1>0, <1>8 DEF WriteStatus
  <2>2. QED
    BY <2>1
<1>9. CASE CameraOn(l)
  <2>1. Moves(l, IF targets[l] = <<>> THEN "off" ELSE "observe")
    BY <1>0, <1>9 DEF CameraOn
  <2>2. QED
    BY <2>1
<1>10. CASE storeImage(l)
  <2>1. at[l] = "observe" /\ camera' /\ UNCHANGED <<flags, console>>
    BY <1>10 DEF storeImage, Calm
  <2>2. \E to \in {"over", "off", "observe"} : at' = [at EXCEPT ![l] = to]
    BY <1>10, <2>1 DEF storeImage, NextTarget
  <2>3. PICK to \in {"over", "off", "observe"} : at' = [at EXCEPT ![l] = to]
    BY <2>2
  <2>4. Moves(l, to)
    BY <1>0, <2>1, <2>3
  <2>5. QED
    BY <2>4
<1>11. CASE CameraOff(l)
  <2>1. Moves(l, "check again")
    BY <1>0, <1>11 DEF CameraOff
  <2>2. QED
    BY <2>1
<1>12. QED
  BY <1>1, <1>2, <1>3, <1>4, <1>5, <1>6, <1>7, <1>8, <1>9, <1>10, <1>11 DEF LoopStep

\* What an operator does keeps the calm unless he meets another, or makes a
\* thread while there is one.
LEMMA OperatorStepCalm ==
    ASSUME UOSTypeOK, Calm, races' # "threads", NEW o \in Operators,
           setMode(o) \/ OperatorStep(o) \/ ByHand(o)
    PROVE  Calm'
<1> USE DEF UOSTypeOK, Calls, Free
<1>1. ASSUME NEW on \in BOOLEAN, SwitchCamera(o, on)
      PROVE  Calm'
  <2>1. \A other \in Operators : operators[other] \in Free
    BY <1>1 DEF SwitchCamera, Hits, Meets
  <2>2. ~mode /\ UNCHANGED <<at, flags, console>>
    BY <1>1 DEF SwitchCamera, loops
  <2>3. \A l \in Loops : ~Working(l)
    BY <2>1, <2>2 DEF Calm, Automatic, Stopping
  <2>4. \A l \in Loops : at[l] # "observe"
    BY <2>3 DEF Working, InRound
  <2>5. OneOfEach' /\ OperatorsKnow' /\ (Automatic <=> Automatic') /\ (Stopping <=> Stopping')
    BY <2>2 DEF Calm, OneOfEach, OperatorsKnow, Automatic, Stopping, Alive, flags, console
  <2>6. QED
    BY <2>2, <2>4, <2>5 DEF Calm, Alive, Working, InRound, flags, console
<1>2. CASE setMode(o)
  <2>1. \A other \in Operators : operators[other] \in Free
    BY <1>2 DEF setMode, Hits, Meets
  <2>2. /\ operators' = [operators EXCEPT ![o] = IF mode THEN "manual" ELSE "automatic"]
        /\ UNCHANGED <<at, flags, joined, mode, camera>>
    BY <1>2 DEF setMode, Continues, loops
  <2>3. OneOfEach' /\ OperatorsKnow'
    BY <2>1, <2>2 DEF Calm, OneOfEach, OperatorsKnow, Alive, flags
  <2>4. Automatic \/ Stopping \/ loopValidator => Automatic'
    BY <2>1, <2>2 DEF Calm, Automatic, Stopping
  <2>5. QED
    BY <2>2, <2>3, <2>4 DEF Calm, Alive, Working, InRound, flags
<1>3. CASE SetMode(o)
  <2>1. /\ operators[o] \in {"manual", "automatic"}
        /\ operators' = [operators EXCEPT ![o] = IF operators[o] = "automatic" THEN "start" ELSE "stop"]
        /\ mode' = (operators[o] = "automatic")
        /\ UNCHANGED <<at, flags, joined, camera>>
    BY <1>3 DEF SetMode, Continues, loops
  <2>2. \A other \in Operators \ {o} : operators[other] \in Free
    BY <2>1 DEF Calm, OneOfEach
  <2>3. OneOfEach'
    BY <2>1, <2>2 DEF Calm, OneOfEach, Alive, flags
  <2>4. OperatorsKnow'
    BY <2>1, <2>2 DEF Calm, OperatorsKnow
  <2>5. Automatic \/ Stopping \/ loopValidator => operators'[o] = "stop"
    BY <2>1, <2>2 DEF Calm, OperatorsKnow, Automatic, Stopping
  <2>6. QED
    BY <2>1, <2>3, <2>4, <2>5 DEF Calm, Stopping, Alive, Working, InRound, flags
<1>4. CASE start(o)
  <2>1. /\ operators[o] = "start"
        /\ operators' = [operators EXCEPT ![o] = IF startValidator THEN "idle" ELSE "create"]
        /\ UNCHANGED <<at, flags, joined, mode, camera>>
    BY <1>4 DEF start, Returns, Continues, loops
  <2>2. \A other \in Operators \ {o} : operators[other] \in Free
    BY <2>1 DEF Calm, OneOfEach
  <2>3. OneOfEach' /\ OperatorsKnow'
    BY <2>1, <2>2 DEF Calm, OneOfEach, OperatorsKnow, Alive, flags
  <2>4. ~Automatic /\ ~Stopping /\ ~loopValidator
    BY <2>1, <2>2 DEF Calm, Automatic, Stopping
  <2>5. QED
    BY <2>1, <2>3, <2>4 DEF Calm, Alive, Working, InRound, flags
<1>5. ASSUME NEW l \in Loops, CreateLoop(o, l)
      PROVE  Calm'
  <2>1. /\ operators[o] = "create" /\ operators' = [operators EXCEPT ![o] = "idle"]
        /\ at' = [at EXCEPT ![l] = "new"] /\ loop' = l /\ ~\E other \in Loops : Alive(other)
        /\ UNCHANGED <<startValidator, joined, mode, camera>>
    BY <1>5 DEF CreateLoop, Goes, Returns, Continues, Hits
  <2>2. \A other \in Operators \ {o} : operators[other] \in Free
    BY <2>1 DEF Calm, OneOfEach
  <2>3. \A k \in Loops : at'[k] \in {"unused", "over", "new"} /\ (Alive(k)' => k = l)
    BY <2>1 DEF Alive
  <2>4. OneOfEach'
    BY <2>1, <2>2, <2>3 DEF OneOfEach
  <2>5. OperatorsKnow' /\ Automatic'
    BY <2>1, <2>2 DEF Calm, OperatorsKnow, Automatic
  <2>6. QED
    BY <2>3, <2>4, <2>5 DEF Calm, Alive, Working, InRound
<1>6. CASE stop(o)
  <2>1. /\ operators[o] = "stop" /\ operators' = [operators EXCEPT ![o] = "stopping"]
        /\ loopValidator' = FALSE /\ UNCHANGED <<at, loop, startValidator, joined, mode, camera>>
    BY <1>6 DEF stop, Continues, loops
  <2>2. OneOfEach' /\ OperatorsKnow' /\ Stopping'
    BY <2>1 DEF Calm, OneOfEach, OperatorsKnow, Stopping, Alive
  <2>3. QED
    BY <2>1, <2>2 DEF Calm, Alive, Working, InRound
<1>7. CASE JoinOrNot(o)
  <2>1. /\ operators[o] = "stopping" /\ UNCHANGED <<at, flags, mode, camera>>
        /\ IF startValidator THEN /\ operators' = [operators EXCEPT ![o] = "join"]
                                 /\ joined' = [joined EXCEPT ![o] = loop]
                            ELSE operators' = [operators EXCEPT ![o] = "idle"] /\ UNCHANGED joined
    BY <1>7 DEF JoinOrNot, Returns, Continues, loops
  <2>2. \A other \in Operators \ {o} : operators[other] \in Free
    BY <2>1 DEF Calm, OneOfEach
  <2>3. OneOfEach'
    BY <2>1, <2>2 DEF Calm, OneOfEach, Alive, flags
  <2>4. OperatorsKnow'
    BY <2>1, <2>2 DEF Calm, OperatorsKnow, flags
  <2>5. ~loopValidator
    BY <2>1, <2>2 DEF Calm, Automatic
  <2>6. startValidator => Stopping'
    BY <2>1 DEF Stopping
  <2>7. QED
    BY <2>1, <2>3, <2>4, <2>5, <2>6 DEF Calm, Alive, Working, InRound, flags
<1>8. CASE Join(o)
  <2>1. /\ operators[o] = "join" /\ operators' = [operators EXCEPT ![o] = "idle"]
        /\ at[joined[o]] = "over" /\ joined' = [joined EXCEPT ![o] = None]
        /\ UNCHANGED <<at, flags, mode, camera>>
    BY <1>8 DEF Join, Returns, Continues, loops
  <2>2. \A other \in Operators \ {o} : operators[other] \in Free
    BY <2>1 DEF Calm, OneOfEach
  <2>3. OneOfEach' /\ OperatorsKnow'
    BY <2>1, <2>2 DEF Calm, OneOfEach, OperatorsKnow, Alive, flags
  <2>4. \A l \in Loops : ~Alive(l)
    BY <2>1 DEF Calm, OneOfEach, OperatorsKnow, Alive
  <2>5. ~loopValidator
    BY <2>1, <2>2 DEF Calm, Automatic
  <2>6. QED
    BY <2>1, <2>3, <2>4, <2>5 DEF Calm, Alive, Working, InRound, flags
<1>9. CASE getCameraImage(o) \/ ImageTaken(o)
  <2>1. /\ operators[o] \in Free
        /\ operators' = [operators EXCEPT ![o] = "image"] \/ operators' = [operators EXCEPT ![o] = "idle"]
        /\ UNCHANGED <<at, flags, joined, mode, camera>>
    BY <1>9 DEF getCameraImage, ImageTaken, Continues, Returns, loops
  <2>2. OneOfEach' /\ OperatorsKnow'
    BY <2>1 DEF Calm, OneOfEach, OperatorsKnow, Alive, flags
  <2>3. (Automatic => Automatic') /\ (Stopping => Stopping')
    BY <2>1 DEF Automatic, Stopping
  <2>4. loopValidator' => Automatic' \/ \E other \in Operators : operators'[other] = "stop"
    BY <2>1, <2>3 DEF Calm, flags
  <2>5. QED
    BY <2>1, <2>2, <2>3, <2>4 DEF Calm, Alive, Working, InRound, flags
<1>10. QED
  BY <1>1, <1>2, <1>3, <1>4, <1>5, <1>6, <1>7, <1>8, <1>9 DEF OperatorStep, ByHand

\* The invariant, from the first state on.
THEOREM UOSInvariance == UOSSpec => []UOSInv
<1>1. UOSInit => UOSInv
  <2>1. UOSInit => UOSTypeOK
    <3>1. UOSInit => at \in [Loops -> Places] /\ operators \in [Operators -> Calls]
      BY DEF UOSInit, Places, Calls
    <3>2. None \in 0..MaxLoops
      BY UOSAssumption DEF None
    <3>3. QED
      BY <3>1, <3>2 DEF UOSInit, UOSTypeOK
  <2>2. UOSInit => OneOfEach /\ OperatorsKnow /\ Automatic
    BY DEF UOSInit, OneOfEach, OperatorsKnow, Automatic, Alive, Free
  <2>3. UOSInit => Calm
    BY <2>2 DEF UOSInit, Calm, Alive, Working, InRound
  <2>4. QED
    BY <2>1, <2>3 DEF UOSInv
<1>2. ASSUME UOSInv, [UOSNext]_uosVars
      PROVE  UOSInv'
  <2>1. UOSTypeOK'
    BY <1>2, UOSTypeStep DEF UOSInv
  <2>2. ASSUME races' # "threads"
        PROVE  Calm'
    <3>1. UOSTypeOK /\ Calm
      BY <1>2, <2>2, ThreadsStay DEF UOSInv
    <3>2. ASSUME UNCHANGED <<loops, flags, console, camera>>
          PROVE  Calm'
      BY <3>1, <3>2 DEF Calm, OneOfEach, OperatorsKnow, Automatic, Stopping, Alive, Working,
                        InRound, loops, flags, console
    <3>3. QED
      BY <1>2, <2>2, <3>1, <3>2, LoopStepCalm, OperatorStepCalm
         DEF UOSNext, uosVars, InsertProposal, SelectMax, Stored, InsertTarget, removeProposal, clean
  <2>3. QED
    BY <2>1, <2>2 DEF UOSInv
<1>3. QED
  BY <1>1, <1>2, PTL DEF UOSSpec

\* While a loop is in its round the console's tests of the mode keep the
\* operators from the switches and the telescope, and the loop has the camera
\* on (Console.setMode(), Scheduler.start(), stop() and the loop), as long as
\* no two loops or operators meet.
THEOREM UOSHandsOff == UOSSpec => []HandsOff
<1>1. UOSInv => HandsOff
  BY DEF UOSInv, Calm, HandsOff, Automatic, Stopping, Working, Free
<1>2. QED
  BY <1>1, UOSInvariance, PTL

-----------------------------------------------------------------------------
(* Ready proposals have their images.                                      *)

\* A set of naturals that has an element has a least one.
LEMMA LeastNatural ==
    ASSUME NEW S, S \subseteq Nat, S # {}
    PROVE  Min(S) \in S /\ \A m \in S : Min(S) <= m
<1>1. PICK n \in S : \A m \in S : <<m, n>> \notin OpToRel(<, Nat)
  BY WFMin, NatLessThanWellFounded, Zenon
<1>2. \A m \in S : ~ (m < n)
  <2> SUFFICES ASSUME NEW m \in S PROVE m < n => <<m, n>> \in OpToRel(<, Nat)
    BY <1>1
  <2>1. m \in Nat /\ n \in Nat
    OBVIOUS
  <2>2. QED
    BY <2>1, Zenon DEF OpToRel
<1>3. \E x \in S : \A y \in S : x <= y
  BY <1>2
<1>4. QED
  BY <1>3 DEF Min

\* One that has a bound has a greatest: the least of its bounds.
LEMMA GreatestNatural ==
    ASSUME NEW N \in Nat, NEW S, S \subseteq 0..N, S # {}
    PROVE  Max(S) \in S /\ \A m \in S : m <= Max(S)
<1> DEFINE U == {u \in Nat : \A m \in S : m <= u}
           u == Min(U)
<1>1. N \in U
  OBVIOUS
<1>2. u \in U /\ \A v \in U : u <= v
  BY <1>1, LeastNatural
<1> HIDE DEF u
<1>3. u \in S
  <2> SUFFICES ASSUME u \notin S PROVE FALSE
    OBVIOUS
  <2>1. \A m \in S : m < u
    BY <1>2
  <2>2. u - 1 \in U
    <3>1. PICK m \in S : m < u
      BY <2>1
    <3>2. u \in Nat /\ m \in Nat
      BY <1>2, <3>1
    <3>3. u - 1 \in Nat
      BY <3>1, <3>2
    <3>4. ASSUME NEW k \in S PROVE k <= u - 1
      BY <2>1, <3>2, <3>4
    <3>5. QED
      BY <3>3, <3>4
  <2>3. QED
    BY <1>2, <2>2
<1>4. \E x \in S : \A y \in S : x >= y
  BY <1>2, <1>3
<1>5. QED
  BY <1>4 DEF Max

\* The next row of a table is a new one.
LEMMA NextRowIsNew ==
    ASSUME NEW N \in Nat, NEW table, DOMAIN table \subseteq 1..N
    PROVE  /\ Max(DOMAIN table \cup {0}) \in DOMAIN table \cup {0}
           /\ NextRow(table) \in Nat \ {0} /\ NextRow(table) \notin DOMAIN table
<1> DEFINE S == DOMAIN table \cup {0}
<1>1. S \subseteq 0..N /\ S # {}
  OBVIOUS
<1>2. Max(S) \in S /\ \A m \in S : m <= Max(S)
  BY <1>1, GreatestNatural
<1>3. Max(S) \in Nat
  BY <1>1, <1>2
<1>4. Max(S) + 1 \notin DOMAIN table
  <2> SUFFICES ASSUME Max(S) + 1 \in S PROVE FALSE
    OBVIOUS
  <2> HIDE DEF S
  <2>1. Max(S) + 1 <= Max(S)
    BY <1>2
  <2>2. QED
    BY <1>3, <2>1
<1>5. QED
  BY <1>2, <1>3, <1>4 DEF NextRow

\* What the tables and the lists of the threads look like.
TablesTyped ==
    /\ DOMAIN proposal \subseteq 1..MaxPid
    /\ DOMAIN target \subseteq 1..MaxRow
    /\ \A r \in DOMAIN target :
          target[r] \in [proposal : 0..MaxPid, target_id : Tids, image : BOOLEAN]
    /\ clients \in [Clients -> [pc : {"idle", "max", "targets"}, pid : 0..MaxPid]]
    /\ DOMAIN pid = Loops /\ targets \in [Loops -> Seq(Nat)]

\* A thread observes as long as it has targets, and no longer.
ListsFit ==
    \A l \in Loops : /\ at[l] = "observe" => targets[l] # <<>>
                     /\ at[l] \in {"off", "check again", "ready"} => targets[l] = <<>>

\* Somebody stores targets for the proposal, or will.
BusyWith(p) == \E c \in Clients : clients[c].pc # "idle" /\ clients[c].pid = p

\* The ROWID of each target that was observed is the target_id of a row that
\* has an image: that is where the loop puts them.
GotImages(l) ==
    \A seen \in RowsOf(pid[l]) \ Range(targets[l]) :
        \E r \in RowsOf(pid[l]) : target[r].target_id = seen /\ target[r].image

Illustrated(p) == \A r \in RowsOf(p) : target[r].image

Running(p) == p \in DOMAIN proposal /\ proposal[p] = RUNNING

\* What holds in a thread between its statements on the tables.
RoundAsPlanned(l) ==
    /\ at[l] \in {"check", "mark"} => ~BusyWith(pid[l]) /\ RowsOf(pid[l]) \subseteq Range(targets[l])
    /\ at[l] \in {"on", "observe", "off", "check again", "ready"} /\ Running(pid[l]) => GotImages(l)
    /\ at[l] = "ready" /\ pid[l] \in DOMAIN proposal => Running(pid[l])

QueuedMeanwhile ==
    \A p \in DOMAIN proposal : BusyWith(p) => proposal[p] = QUEUED

ReadyIllustrated == \A p \in DOMAIN proposal : proposal[p] = READY => Illustrated(p)

Undisturbed == QueuedMeanwhile /\ ReadyIllustrated /\ \A l \in Loops : RoundAsPlanned(l)

TablesInv == TablesTyped /\ ListsFit /\ (races = "none" => Undisturbed)

\* When all targets were observed all rows have an image: each ROWID has a row
\* of its own that is the first to name it, and there are only so many.
LEMMA AllIllustrated ==
    ASSUME TablesTyped, NEW l \in Loops, targets[l] = <<>>, GotImages(l)
    PROVE  Illustrated(pid[l])
<1> DEFINE R == RowsOf(pid[l])
<1>1. IsFiniteSet(R)
  <2>1. IsFiniteSet(1..MaxRow)
    <3>1. 1 \in Int /\ MaxRow \in Int
      BY UOSAssumption
    <3>2. QED
      BY <3>1, FS_Interval
  <2>2. R \in SUBSET (1..MaxRow)
    BY DEF TablesTyped, RowsOf
  <2>3. QED
    BY <2>1, <2>2, FS_Subset
<1>2. Range(targets[l]) = {}
  BY DEF Range
<1>3. \A seen \in R : \E r \in R : target[r].target_id = seen /\ target[r].image
  BY <1>2 DEF GotImages
<1> DEFINE f == [seen \in R |-> CHOOSE r \in R : target[r].target_id = seen /\ target[r].image]
<1>4. \A seen \in R : f[seen] \in R /\ target[f[seen]].target_id = seen /\ target[f[seen]].image
  BY <1>3
<1>5. f \in [R -> R]
  BY <1>4
<1> HIDE DEF f
<1>6. f \in Injection(R, R)
  BY <1>4, <1>5 DEF Injection, IsInjective
<1>7. f \in Surjection(R, R)
  BY <1>1, <1>6, FS_Injection
<1>8. \A r \in R : \E seen \in R : f[seen] = r
  BY <1>7 DEF Surjection
<1>9. QED
  BY <1>4, <1>8 DEF Illustrated

\* Every step leaves the tables well formed.
LEMMA TypedStep ==
    ASSUME TablesTyped, ListsFit, [UOSNext]_uosVars
    PROVE  TablesTyped'
<1> USE DEF TablesTyped
<1>0. MaxPid \in Nat /\ MaxRow \in Nat
  BY UOSAssumption
<1>1. ASSUME NEW c \in Clients, InsertProposal(c)
      PROVE  TablesTyped'
  <2> DEFINE new == NextRow(proposal)
  <2>1. new \in Nat \ {0}
    BY <1>0, NextRowIsNew
  <2>2. new \in 1..MaxPid
    BY <1>0, <1>1, <2>1 DEF InsertProposal
  <2>3. DOMAIN proposal' \subseteq 1..MaxPid
    BY <1>1, <2>2 DEF InsertProposal
  <2>4. clients' \in [Clients -> [pc : {"idle", "max", "targets"}, pid : 0..MaxPid]]
    <3>1. clients' = [clients EXCEPT ![c] = [pc |-> "max", pid |-> new]]
      BY <1>1 DEF InsertProposal
    <3>2. [pc |-> "max", pid |-> new] \in [pc : {"idle", "max", "targets"}, pid : 0..MaxPid]
      BY <2>2
    <3>3. QED
      BY <3>1, <3>2
  <2>5. QED
    BY <1>1, <2>3, <2>4 DEF InsertProposal, loops
<1>2. ASSUME NEW c \in Clients, SelectMax(c)
      PROVE  TablesTyped'
  <2> DEFINE last == Max(DOMAIN proposal \cup {0})
             r    == IF last = 0 THEN [pc |-> "idle", pid |-> 0] ELSE [pc |-> "targets", pid |-> last]
  <2>1. last \in DOMAIN proposal \cup {0}
    BY <1>0, NextRowIsNew
  <2>2. last \in 0..MaxPid
    BY <1>0, <2>1
  <2>3. r \in [pc : {"idle", "max", "targets"}, pid : 0..MaxPid]
    BY <1>0, <2>2
  <2>4. clients' = [clients EXCEPT ![c] = r]
    BY <1>2 DEF SelectMax
  <2>5. QED
    BY <1>2, <2>3, <2>4 DEF SelectMax, tables, loops
<1>3. ASSUME NEW c \in Clients, NEW tid \in Tids, InsertTarget(c, tid)
      PROVE  TablesTyped'
  <2> DEFINE row == NextRow(target)
             new == [proposal |-> clients[c].pid, target_id |-> tid, image |-> FALSE]
  <2>1. row \in Nat \ {0}
    BY <1>0, NextRowIsNew
  <2>2. row \in 1..MaxRow
    BY <1>0, <1>3, <2>1 DEF InsertTarget
  <2>3. new \in [proposal : 0..MaxPid, target_id : Tids, image : BOOLEAN]
    OBVIOUS
  <2>4. target' = [r \in DOMAIN target \cup {row} |-> IF r = row THEN new ELSE target[r]]
    BY <1>3 DEF InsertTarget
  <2> HIDE DEF row, new
  <2>5. DOMAIN target' \subseteq 1..MaxRow
        /\ \A r \in DOMAIN target' :
              target'[r] \in [proposal : 0..MaxPid, target_id : Tids, image : BOOLEAN]
    BY <2>2, <2>3, <2>4
  <2>6. QED
    BY <1>3, <2>5 DEF InsertTarget, loops
<1>4. ASSUME NEW c \in Clients, Stored(c)
      PROVE  TablesTyped'
  <2>1. [pc |-> "idle", pid |-> 0] \in [pc : {"idle", "max", "targets"}, pid : 0..MaxPid]
    BY <1>0
  <2>2. QED
    BY <1>4, <2>1 DEF Stored, tables, loops
<1>5. ASSUME NEW p \in DOMAIN proposal, removeProposal(p)
      PROVE  TablesTyped'
  BY <1>5 DEF removeProposal, loops
<1>6. ASSUME clean
      PROVE  TablesTyped'
  <2>1. proposal' = <<>> /\ target' = <<>> /\ DOMAIN <<>> = {}
    BY <1>6 DEF clean
  <2>2. QED
    BY <1>6, <2>1 DEF clean, loops
<1>7. ASSUME NEW l \in Loops, getTargets(l)
      PROVE  TablesTyped'
  <2>1. PICK rows \in [1..Cardinality(RowsOf(pid[l])) -> RowsOf(pid[l])] :
            targets' = [targets EXCEPT ![l] = rows]
    BY <1>7 DEF getTargets
  <2>2. IsFiniteSet(RowsOf(pid[l])) /\ RowsOf(pid[l]) \subseteq Nat
    <3>1. RowsOf(pid[l]) \in SUBSET (1..MaxRow)
      BY DEF RowsOf
    <3>2. IsFiniteSet(1..MaxRow)
      BY <1>0, FS_Interval
    <3>3. QED
      BY <1>0, <3>1, <3>2, FS_Subset
  <2>3. Cardinality(RowsOf(pid[l])) \in Nat
    BY <2>2, FS_CardinalityType
  <2>4. rows \in Seq(Nat)
    <3> DEFINE R == RowsOf(pid[l])
               n == Cardinality(R)
    <3>1. n \in Nat /\ R \subseteq Nat /\ rows \in [1..n -> R]
      BY <2>2, <2>3
    <3> HIDE DEF R, n
    <3>2. rows \in [1..n -> Nat]
      BY <3>1
    <3>3. QED
      BY <3>1, <3>2, SeqDef
  <2>5. QED
    BY <1>7, <2>1, <2>4 DEF getTargets, tables
<1>8. ASSUME NEW l \in Loops, storeImage(l)
      PROVE  TablesTyped'
  <2>1. DOMAIN target' \subseteq 1..MaxRow
        /\ \A r \in DOMAIN target' :
              target'[r] \in [proposal : 0..MaxPid, target_id : Tids, image : BOOLEAN]
    BY <1>8 DEF storeImage
  <2>2. DOMAIN pid' = Loops /\ targets' \in [Loops -> Seq(Nat)]
    <3>1. CASE Ends(l)
      <4>1. <<>> \in Seq(Nat)
        OBVIOUS
      <4>2. QED
        BY <3>1, <4>1 DEF Ends
    <3>2. CASE NextTarget(l) /\ at[l] = "observe"
      <4>1. targets' = [targets EXCEPT ![l] = Tail(targets[l])] /\ UNCHANGED pid
        BY <3>2 DEF NextTarget
      <4>2. targets[l] \in Seq(Nat) /\ targets[l] # <<>>
        BY <3>2 DEF ListsFit
      <4>3. Tail(targets[l]) \in Seq(Nat)
        BY <4>2
      <4>4. QED
        BY <4>1, <4>3
    <3>3. QED
      BY <1>8, <3>1, <3>2 DEF storeImage
  <2>3. QED
    BY <1>8, <2>1, <2>2 DEF storeImage
<1>9. ASSUME NEW l \in Loops, LoopStep(l) \/ RemoteFails(l), ~getTargets(l), ~storeImage(l)
      PROVE  TablesTyped'
  <2>1. DOMAIN pid' = Loops /\ targets' \in [Loops -> Seq(Nat)]
    <3>1. <<>> \in Seq(Nat)
      OBVIOUS
    <3>2. QED
      BY <1>9, <3>1 DEF LoopStep, RemoteFails, Run, TestLoop, Exit, getProposals, CheckStatus, WriteStatus,
            CameraOn, CameraOff, Goes, Ends
  <2>2. DOMAIN proposal' = DOMAIN proposal /\ UNCHANGED <<target, clients>>
    BY <1>9 DEF LoopStep, RemoteFails, Run, TestLoop, Exit, getProposals, CheckStatus, WriteStatus,
          CameraOn, CameraOff, tables
  <2>3. QED
    BY <2>1, <2>2
<1>10. ASSUME NEW o \in Operators, setMode(o) \/ OperatorStep(o) \/ ByHand(o)
       PROVE  TablesTyped'
  <2>1. UNCHANGED <<tables, clients, pid, targets>>
    BY <1>10 DEF setMode, OperatorStep, SetMode, start, CreateLoop, stop, JoinOrNot, Join, ByHand,
         SwitchCamera, getCameraImage, ImageTaken,
          Goes, loops
  <2>2. QED
    BY <2>1 DEF tables
<1>11. CASE UNCHANGED uosVars
  BY <1>11 DEF uosVars, tables, loops
<1>12. QED
  BY <1>1, <1>2, <1>3, <1>4, <1>5, <1>6, <1>7, <1>8, <1>9, <1>10, <1>11 DEF UOSNext

\* A thread stays with its list as long as there is something in it.
LEMMA ListsStep ==
    ASSUME UOSTypeOK, TablesTyped, ListsFit, [UOSNext]_uosVars
    PROVE  ListsFit'
<1> USE DEF ListsFit, UOSTypeOK, TablesTyped
<1>1. ASSUME NEW l \in Loops, LoopStep(l) \/ RemoteFails(l)
      PROVE  ListsFit'
  <2>1. CASE CameraOn(l)
    BY <2>1 DEF CameraOn, Goes
  <2>2. CASE storeImage(l)
    <3>1. CASE Ends(l)
      BY <3>1 DEF Ends
    <3>2. CASE NextTarget(l) /\ at[l] = "observe"
      <4>1. /\ targets' = [targets EXCEPT ![l] = Tail(targets[l])]
            /\ at' = [at EXCEPT ![l] = IF Tail(targets[l]) = <<>> THEN "off" ELSE "observe"]
        BY <3>2 DEF NextTarget
      <4>2. QED
        BY <4>1
    <3>3. QED
      BY <2>2, <3>1, <3>2 DEF storeImage
  <2>3. CASE CameraOff(l) \/ \E to : WriteStatus(l, "ready", to, "test") \/ WriteStatus(l, "mark", to, "on")
    BY <2>3 DEF CameraOff, WriteStatus, Goes
  <2>4. CASE \/ CheckStatus(l, "check", QUEUED, "mark", "on")
             \/ CheckStatus(l, "check again", RUNNING, "ready", "test")
    BY <2>4 DEF CheckStatus, Goes, Ends
  <2>5. CASE Run(l) \/ TestLoop(l) \/ Exit(l) \/ RemoteFails(l) \/ getProposals(l) \/ getTargets(l)
    BY <2>5 DEF Run, TestLoop, Exit, RemoteFails, getProposals, getTargets, Goes, Ends
  <2>6. QED
    BY <1>1, <2>1, <2>2, <2>3, <2>4, <2>5 DEF LoopStep
<1>2. ASSUME NEW o \in Operators, setMode(o) \/ OperatorStep(o) \/ ByHand(o)
      PROVE  ListsFit'
  <2>1. ASSUME NEW l \in Loops, CreateLoop(o, l)
        PROVE  ListsFit'
    BY <2>1 DEF CreateLoop, Goes
  <2>2. CASE UNCHANGED <<at, targets>>
    BY <2>2
  <2>3. QED
    BY <1>2, <2>1, <2>2 DEF setMode, OperatorStep, SetMode, start, stop, JoinOrNot, Join, ByHand,
                      SwitchCamera, getCameraImage, ImageTaken, loops
<1>3. ASSUME UNCHANGED <<at, targets>>
      PROVE  ListsFit'
  BY <1>3
<1>4. QED
  BY <1>1, <1>2, <1>3 DEF UOSNext, uosVars, loops, InsertProposal, SelectMax, Stored, InsertTarget,
                          removeProposal, clean

\* In a round there is nobody else in one.
LEMMA OnlyOneLoop ==
    ASSUME UOSInv, races = "none", NEW l \in Loops, Alive(l), NEW k \in Loops, k # l
    PROVE  at[k] \in {"unused", "over"}
BY DEF UOSInv, Calm, OneOfEach, Alive

\* So what a thread does is to be looked at in this thread only.
LEMMA RoundOfOne ==
    ASSUME UOSInv, races = "none", NEW l \in Loops, Alive(l),
           NEW to, at' = [at EXCEPT ![l] = to], RoundAsPlanned(l)'
    PROVE  \A k \in Loops : RoundAsPlanned(k)'
<1> SUFFICES ASSUME NEW k \in Loops, k # l PROVE RoundAsPlanned(k)'
  OBVIOUS
<1>1. at'[k] \in {"unused", "over"}
  BY OnlyOneLoop DEF UOSInv, UOSTypeOK
<1>2. QED
  BY <1>1 DEF RoundAsPlanned

\* Steps that do not touch the tables: only where the thread goes matters.
LEMMA TablesRest ==
    ASSUME UOSInv, races = "none", Undisturbed, UNCHANGED <<tables, clients>>,
           NEW l \in Loops, Alive(l), NEW to, at' = [at EXCEPT ![l] = to], RoundAsPlanned(l)'
    PROVE  Undisturbed'
<1>1. QueuedMeanwhile'
  BY DEF Undisturbed, QueuedMeanwhile, BusyWith, tables
<1>2. ReadyIllustrated'
  BY DEF Undisturbed, ReadyIllustrated, Illustrated, RowsOf, tables
<1>3. QED
  BY <1>1, <1>2, RoundOfOne DEF Undisturbed

\* A thread outside its round has nothing to keep.
LEMMA OutsideRound ==
    ASSUME UOSInv, races = "none", Undisturbed, UNCHANGED <<tables, clients>>,
           NEW l \in Loops, Alive(l),
           NEW to \in {"test", "exit", "over", "fetch", "targets"}, at' = [at EXCEPT ![l] = to]
    PROVE  Undisturbed'
<1>1. at'[l] = to
  BY DEF UOSInv, UOSTypeOK
<1>2. RoundAsPlanned(l)'
  BY <1>1 DEF RoundAsPlanned
<1>3. QED
  BY <1>2, TablesRest

\* Within the round the thread keeps pid and list.
LEMMA InsideRound ==
    ASSUME UOSInv, races = "none", Undisturbed, UNCHANGED <<tables, clients, pid, targets>>,
           NEW l \in Loops, Alive(l), NEW to, at' = [at EXCEPT ![l] = to],
           to \in {"check", "mark"} => ~BusyWith(pid[l]) /\ RowsOf(pid[l]) \subseteq Range(targets[l]),
           to \in {"on", "observe", "off", "check again", "ready"} /\ Running(pid[l]) => GotImages(l),
           to = "ready" /\ pid[l] \in DOMAIN proposal => Running(pid[l])
    PROVE  Undisturbed'
<1>1. at'[l] = to
  BY DEF UOSInv, UOSTypeOK
<1>2. /\ BusyWith(pid[l])' <=> BusyWith(pid[l])
      /\ RowsOf(pid[l])' = RowsOf(pid[l]) /\ Range(targets[l])' = Range(targets[l])
      /\ Running(pid[l])' <=> Running(pid[l])
  BY DEF BusyWith, RowsOf, Running, tables
<1>3. GotImages(l) => GotImages(l)'
  <2> SUFFICES ASSUME GotImages(l), NEW seen \in RowsOf(pid[l])' \ Range(targets[l])'
               PROVE  \E r \in RowsOf(pid[l])' : target'[r].target_id = seen /\ target'[r].image
    BY DEF GotImages
  <2>1. PICK r \in RowsOf(pid[l]) : target[r].target_id = seen /\ target[r].image
    BY <1>2 DEF GotImages
  <2>2. QED
    BY <1>2, <2>1 DEF tables
<1>4. RoundAsPlanned(l)'
  BY <1>1, <1>2, <1>3 DEF RoundAsPlanned, tables
<1>5. QED
  BY <1>4, TablesRest

\* getTargets(): with nobody storing targets, all there are.
LEMMA GetTargetsOK ==
    ASSUME UOSInv, TablesTyped, Undisturbed, races' = "none", NEW l \in Loops, getTargets(l)
    PROVE  Undisturbed'
<1>1. races = "none" /\ ~BusyWith(pid[l])
  BY DEF getTargets, BusyWith, Hits
<1>2. PICK rows \in [1..Cardinality(RowsOf(pid[l])) -> RowsOf(pid[l])] :
          Range(rows) = RowsOf(pid[l]) /\ targets' = [targets EXCEPT ![l] = rows]
  BY DEF getTargets
<1>3. targets'[l] = rows /\ UNCHANGED <<tables, clients, pid>> /\ at' = [at EXCEPT ![l] = "check"]
  BY <1>2 DEF TablesTyped, getTargets
<1>4. at'[l] = "check" /\ Alive(l)
  BY <1>3 DEF UOSInv, UOSTypeOK, getTargets, Alive
<1>5. ~BusyWith(pid[l])' /\ (RowsOf(pid[l]) \subseteq Range(targets[l]))'
  BY <1>1, <1>2, <1>3 DEF BusyWith, RowsOf, tables
<1>6. RoundAsPlanned(l)'
  BY <1>4, <1>5 DEF RoundAsPlanned
<1>7. QED
  BY <1>1, <1>3, <1>4, <1>6, TablesRest

\* The status is tested, and written some time after.
LEMMA CheckStatusOK ==
    ASSUME UOSInv, Undisturbed, races = "none", NEW l \in Loops,
           \/ CheckStatus(l, "check", QUEUED, "mark", "on")
           \/ CheckStatus(l, "check again", RUNNING, "ready", "test")
    PROVE  Undisturbed'
<1>1. UNCHANGED <<tables, clients>> /\ Alive(l) /\ RoundAsPlanned(l)
  BY DEF CheckStatus, Alive, Undisturbed
<1>2. CASE pid[l] \notin DOMAIN proposal
  BY <1>1, <1>2, OutsideRound DEF CheckStatus, Ends
<1>3. CASE pid[l] \in DOMAIN proposal /\ CheckStatus(l, "check", QUEUED, "mark", "on")
  <2>1. at[l] = "check" /\ UNCHANGED <<pid, targets>>
        /\ \E to \in {"mark", "on"} : at' = [at EXCEPT ![l] = to]
    BY <1>3 DEF CheckStatus, Goes
  <2>2. ~BusyWith(pid[l]) /\ RowsOf(pid[l]) \subseteq Range(targets[l]) /\ GotImages(l)
    BY <1>1, <2>1 DEF RoundAsPlanned, GotImages
  <2>3. QED
    BY <1>1, <2>1, <2>2, InsideRound
<1>4. CASE pid[l] \in DOMAIN proposal /\ CheckStatus(l, "check again", RUNNING, "ready", "test")
  <2>1. at[l] = "check again" /\ UNCHANGED <<pid, targets>>
        /\ at' = [at EXCEPT ![l] = IF proposal[pid[l]] = RUNNING THEN "ready" ELSE "test"]
    BY <1>4 DEF CheckStatus, Goes
  <2>2. CASE Running(pid[l])
    <3>1. GotImages(l) /\ at' = [at EXCEPT ![l] = "ready"]
      BY <1>1, <2>1, <2>2 DEF RoundAsPlanned, Running
    <3>2. QED
      BY <1>1, <2>1, <2>2, <3>1, InsideRound
  <2>3. CASE ~Running(pid[l])
    <3>1. at' = [at EXCEPT ![l] = "test"]
      BY <1>4, <2>1, <2>3 DEF Running
    <3>2. QED
      BY <1>1, <3>1, OutsideRound
  <2>4. QED
    BY <2>2, <2>3
<1>5. QED
  BY <1>2, <1>3, <1>4

\* A proposal is marked running while nobody stores targets for it.
LEMMA MarkOK ==
    ASSUME UOSInv, Undisturbed, races = "none", NEW l \in Loops,
           WriteStatus(l, "mark", RUNNING, "on")
    PROVE  Undisturbed'
<1>1. /\ at[l] = "mark" /\ at' = [at EXCEPT ![l] = "on"] /\ UNCHANGED <<target, clients, pid, targets>>
      /\ proposal' = [p \in DOMAIN proposal |-> IF p = pid[l] THEN RUNNING ELSE proposal[p]]
  BY DEF WriteStatus, Goes
<1>2. ~BusyWith(pid[l]) /\ RowsOf(pid[l]) \subseteq Range(targets[l])
  BY <1>1 DEF Undisturbed, RoundAsPlanned
<1>3. QueuedMeanwhile'
  BY <1>1, <1>2 DEF Undisturbed, QueuedMeanwhile, BusyWith
<1>4. ReadyIllustrated'
  BY <1>1 DEF Undisturbed, ReadyIllustrated, Illustrated, RowsOf, RUNNING, READY
<1>5. GotImages(l)'
  BY <1>1, <1>2 DEF GotImages, RowsOf
<1>6. at'[l] = "on" /\ Alive(l)
  BY <1>1 DEF UOSInv, UOSTypeOK, Alive
<1>7. RoundAsPlanned(l)'
  BY <1>5, <1>6 DEF RoundAsPlanned
<1>8. QED
  BY <1>1, <1>3, <1>4, <1>6, <1>7, RoundOfOne DEF Undisturbed

\* It is marked ready when all its targets were observed.
LEMMA ReadyOK ==
    ASSUME UOSInv, TablesTyped, ListsFit, Undisturbed, races = "none", NEW l \in Loops,
           WriteStatus(l, "ready", READY, "test")
    PROVE  Undisturbed'
<1>1. /\ at[l] = "ready" /\ at' = [at EXCEPT ![l] = "test"] /\ UNCHANGED <<target, clients, pid, targets>>
      /\ proposal' = [p \in DOMAIN proposal |-> IF p = pid[l] THEN READY ELSE proposal[p]]
  BY DEF WriteStatus, Goes
<1>2. ASSUME pid[l] \in DOMAIN proposal
      PROVE  Running(pid[l]) /\ GotImages(l) /\ targets[l] = <<>>
  BY <1>1, <1>2 DEF Undisturbed, RoundAsPlanned, ListsFit
<1>3. QueuedMeanwhile'
  <2>1. pid[l] \in DOMAIN proposal => ~BusyWith(pid[l])
    BY <1>2 DEF Undisturbed, QueuedMeanwhile, Running, QUEUED, RUNNING
  <2>2. QED
    BY <1>1, <2>1 DEF Undisturbed, QueuedMeanwhile, BusyWith
<1>4. ReadyIllustrated'
  <2>1. pid[l] \in DOMAIN proposal => Illustrated(pid[l])
    BY <1>2, AllIllustrated
  <2>2. \A p : Illustrated(p)' <=> Illustrated(p)
    BY <1>1 DEF Illustrated, RowsOf
  <2>3. QED
    BY <1>1, <2>1, <2>2 DEF Undisturbed, ReadyIllustrated
<1>5. at'[l] = "test" /\ Alive(l)
  BY <1>1 DEF UOSInv, UOSTypeOK, Alive
<1>6. RoundAsPlanned(l)'
  BY <1>5 DEF RoundAsPlanned
<1>7. QED
  BY <1>1, <1>3, <1>4, <1>5, <1>6, RoundOfOne DEF Undisturbed

\* The picture goes to a row that asks for it, or is there already.
LEMMA StoreImageOK ==
    ASSUME UOSInv, TablesTyped, ListsFit, Undisturbed, races = "none", NEW l \in Loops, storeImage(l)
    PROVE  Undisturbed'
<1> DEFINE G == RowsToGet(l)
           h == Head(targets[l])
<1>1. at[l] = "observe" /\ UNCHANGED <<proposal, clients>> /\ targets[l] # <<>> /\ Alive(l)
  BY DEF storeImage, ListsFit, Alive
<1>2. /\ DOMAIN target' = DOMAIN target
      /\ \A r \in DOMAIN target :
            /\ target'[r].proposal = target[r].proposal /\ target'[r].target_id = target[r].target_id
            /\ target[r].image => target'[r].image
            /\ r \in G /\ ~target[Min(G)].image => target'[r].image
  BY DEF storeImage, TablesTyped
<1>3. \A p : RowsOf(p)' = RowsOf(p) /\ RowsOf(p) \subseteq DOMAIN target
  BY <1>2 DEF RowsOf
<1>4. QueuedMeanwhile'
  BY <1>1 DEF Undisturbed, QueuedMeanwhile, BusyWith
<1>5. ReadyIllustrated'
  BY <1>1, <1>2, <1>3 DEF Undisturbed, ReadyIllustrated, Illustrated
<1>6. CASE Ends(l)
  <2>1. at' = [at EXCEPT ![l] = "over"]
    BY <1>6 DEF Ends
  <2>2. at'[l] = "over"
    BY <2>1 DEF UOSInv, UOSTypeOK
  <2>3. RoundAsPlanned(l)'
    BY <2>2 DEF RoundAsPlanned
  <2>4. QED
    BY <1>1, <1>4, <1>5, <2>1, <2>3, RoundOfOne DEF Undisturbed
<1>7. CASE G # {} /\ NextTarget(l)
  <2>1. /\ targets' = [targets EXCEPT ![l] = Tail(targets[l])] /\ UNCHANGED pid
        /\ \E to \in {"off", "observe"} : at' = [at EXCEPT ![l] = to]
    BY <1>1, <1>7 DEF NextTarget
  <2>2. PICK to \in {"off", "observe"} : at' = [at EXCEPT ![l] = to]
    BY <2>1
  <2>3. at'[l] = to /\ targets'[l] = Tail(targets[l])
    BY <2>1, <2>2 DEF UOSInv, UOSTypeOK, TablesTyped
  <2>4. Min(G) \in G /\ G \subseteq RowsOf(pid[l])
    <3>1. G \subseteq Nat
      BY UOSAssumption DEF RowsToGet, RowsOf, TablesTyped
    <3>2. QED
      BY <1>7, <3>1, LeastNatural DEF RowsToGet
  <2>5. \E r \in RowsOf(pid[l]) : target'[r].target_id = h /\ target'[r].image
    <3>1. Min(G) \in RowsOf(pid[l]) /\ target[Min(G)].target_id = h
      BY <2>4 DEF RowsToGet
    <3>2. target'[Min(G)].target_id = h /\ target'[Min(G)].image
      BY <1>2, <1>3, <2>4, <3>1
    <3>3. QED
      BY <3>1, <3>2
  <2>6. Range(targets[l]) \subseteq Range(targets'[l]) \cup {h}
    <3>1. targets[l] \in Seq(Nat)
      BY DEF TablesTyped
    <3>2. /\ Tail(targets[l]) \in Seq(Nat) /\ Len(Tail(targets[l])) = Len(targets[l]) - 1
          /\ \A i \in 1..Len(Tail(targets[l])) : Tail(targets[l])[i] = targets[l][i + 1]
      BY <1>1, <3>1, HeadTailProperties
    <3>3. ASSUME NEW i \in 1..Len(targets[l])
          PROVE  targets[l][i] \in Range(Tail(targets[l])) \cup {h}
      <4>1. CASE i = 1
        BY <3>1, <4>1
      <4>2. CASE i # 1
        <5>1. i - 1 \in 1..Len(Tail(targets[l])) /\ (i - 1) + 1 = i
          BY <3>1, <3>2, <4>2
        <5>2. Tail(targets[l])[i - 1] = targets[l][i]
          BY <3>2, <5>1
        <5>3. i - 1 \in DOMAIN Tail(targets[l])
          BY <3>2, <5>1
        <5>4. QED
          BY <5>2, <5>3 DEF Range
      <4>3. QED
        BY <4>1, <4>2
    <3>4. \A x \in Range(targets[l]) : \E i \in 1..Len(targets[l]) : x = targets[l][i]
      BY <3>1 DEF Range
    <3>5. QED
      BY <2>3, <3>3, <3>4
  <2>7. GotImages(l) => GotImages(l)'
    <3> SUFFICES ASSUME GotImages(l), NEW seen \in RowsOf(pid[l]) \ Range(targets'[l])
                 PROVE  \E r \in RowsOf(pid[l]) : target'[r].target_id = seen /\ target'[r].image
      BY <1>3, <2>1 DEF GotImages
    <3>1. CASE seen = h
      BY <2>5, <3>1
    <3>2. CASE seen # h
      <4>1. seen \in RowsOf(pid[l]) \ Range(targets[l])
        BY <2>6, <3>2
      <4>2. PICK r \in RowsOf(pid[l]) : target[r].target_id = seen /\ target[r].image
        BY <4>1 DEF GotImages
      <4>3. QED
        BY <1>2, <1>3, <4>2
    <3>3. QED
      BY <3>1, <3>2
  <2>8. Running(pid[l]) => GotImages(l)
    BY <1>1 DEF Undisturbed, RoundAsPlanned
  <2>9. RoundAsPlanned(l)'
    BY <1>1, <2>1, <2>3, <2>7, <2>8 DEF RoundAsPlanned, Running
  <2>10. QED
    BY <1>1, <1>4, <1>5, <2>2, <2>9, RoundOfOne DEF Undisturbed
<1>8. QED
  BY <1>6, <1>7 DEF storeImage

\* Every step of a thread.
LEMMA LoopStepUndisturbed ==
    ASSUME UOSInv, TablesTyped, ListsFit, Undisturbed, races = "none", races' = "none",
           NEW l \in Loops, LoopStep(l) \/ RemoteFails(l)
    PROVE  Undisturbed'
<1>1. CASE Run(l) \/ TestLoop(l) \/ Exit(l) \/ getProposals(l) \/ RemoteFails(l)
  <2>1. UNCHANGED <<tables, clients>> /\ Alive(l)
    BY <1>1 DEF Run, TestLoop, Exit, getProposals, RemoteFails, Remote, Alive
  <2>2. \E to \in {"test", "exit", "over", "fetch", "targets"} : at' = [at EXCEPT ![l] = to]
    BY <1>1 DEF Run, TestLoop, Exit, getProposals, RemoteFails, Goes, Ends
  <2>3. QED
    BY <2>1, <2>2, OutsideRound
<1>2. CASE CameraOn(l) \/ CameraOff(l)
  <2>1. /\ UNCHANGED <<tables, clients, pid, targets>> /\ Alive(l) /\ at[l] \in {"on", "off"}
        /\ \E to \in {"off", "observe", "check again"} : at' = [at EXCEPT ![l] = to]
    BY <1>2 DEF CameraOn, CameraOff, Goes, Alive
  <2>2. Running(pid[l]) => GotImages(l)
    BY <2>1 DEF Undisturbed, RoundAsPlanned
  <2>3. QED
    BY <2>1, <2>2, InsideRound
<1>3. QED
  BY <1>1, <1>2, GetTargetsOK, CheckStatusOK, MarkOK, ReadyOK, StoreImageOK DEF LoopStep

\* A proposal whose rows are as they were keeps its images.
LEMMA SameRows ==
    ASSUME NEW l \in Loops, UNCHANGED <<pid, targets>>, RowsOf(pid[l])' = RowsOf(pid[l]),
           \A r \in RowsOf(pid[l]) : target'[r] = target[r], GotImages(l)
    PROVE  GotImages(l)'
<1> SUFFICES ASSUME NEW seen \in RowsOf(pid[l]) \ Range(targets[l])
             PROVE  \E r \in RowsOf(pid[l]) : target'[r].target_id = seen /\ target'[r].image
  BY DEF GotImages
<1>1. PICK r \in RowsOf(pid[l]) : target[r].target_id = seen /\ target[r].image
  BY DEF GotImages
<1>2. QED
  BY <1>1

\* Where the tables and the threads rest, clients may leave.
LEMMA ClientsLeave ==
    ASSUME Undisturbed, UNCHANGED <<tables, loops>>, \A p : BusyWith(p)' => BusyWith(p)
    PROVE  Undisturbed'
<1>1. QueuedMeanwhile'
  BY DEF Undisturbed, QueuedMeanwhile, tables
<1>2. ReadyIllustrated'
  BY DEF Undisturbed, ReadyIllustrated, Illustrated, RowsOf, tables
<1>3. ASSUME NEW l \in Loops
      PROVE  RoundAsPlanned(l)'
  <2>1. RowsOf(pid[l])' = RowsOf(pid[l]) /\ \A r \in RowsOf(pid[l]) : target'[r] = target[r]
    BY DEF RowsOf, tables, loops
  <2>2. GotImages(l) => GotImages(l)'
    BY <2>1, SameRows DEF loops
  <2>3. BusyWith(pid[l])' => BusyWith(pid[l])
    BY DEF loops
  <2>4. RoundAsPlanned(l)
    BY DEF Undisturbed
  <2>5. QED
    BY <2>1, <2>2, <2>3, <2>4 DEF RoundAsPlanned, Running, tables, loops
<1>4. QED
  BY <1>1, <1>2, <1>3 DEF Undisturbed

\* storeProposal(), with nobody else in it and no thread about to mark the row.
LEMMA ClientUndisturbed ==
    ASSUME TablesTyped, Undisturbed, races = "none", races' = "none", NEW c \in Clients,
           InsertProposal(c) \/ SelectMax(c) \/ Stored(c) \/ \E tid \in Tids : InsertTarget(c, tid)
    PROVE  Undisturbed'
<1>1. CASE InsertProposal(c)
  <2> DEFINE new == NextRow(proposal)
  <2>1. /\ proposal' = [p \in DOMAIN proposal \cup {new} |-> IF p = new THEN QUEUED ELSE proposal[p]]
        /\ clients' = [clients EXCEPT ![c] = [pc |-> "max", pid |-> new]]
        /\ UNCHANGED <<target, at, pid, targets>>
        /\ \A l \in Loops : Exposed(l) => pid[l] # new
    BY <1>1 DEF InsertProposal, Hits, loops
  <2>2. \A p : p # new => (BusyWith(p)' => BusyWith(p))
    BY <2>1 DEF BusyWith, TablesTyped
  <2> HIDE DEF new
  <2>3. QueuedMeanwhile'
    BY <2>1, <2>2 DEF Undisturbed, QueuedMeanwhile
  <2>4. ReadyIllustrated'
    BY <2>1 DEF Undisturbed, ReadyIllustrated, Illustrated, RowsOf, QUEUED, READY
  <2>5. ASSUME NEW l \in Loops
        PROVE  RoundAsPlanned(l)'
    <3>1. RowsOf(pid[l])' = RowsOf(pid[l]) /\ \A r \in RowsOf(pid[l]) : target'[r] = target[r]
      BY <2>1 DEF RowsOf
    <3>2. GotImages(l) => GotImages(l)'
      BY <2>1, <3>1, SameRows
    <3>3. RoundAsPlanned(l)
      BY DEF Undisturbed
    <3>4. Running(pid[l])' => Running(pid[l])
      BY <2>1 DEF Running, QUEUED, RUNNING
    <3>5. Exposed(l) => (BusyWith(pid[l])' => BusyWith(pid[l]))
      BY <2>1, <2>2
    <3>6. Exposed(l) /\ pid[l] \in DOMAIN proposal' => pid[l] \in DOMAIN proposal
      BY <2>1
    <3>7. Exposed(l) => (Running(pid[l]) => Running(pid[l])')
      BY <2>1 DEF Running
    <3>8. QED
      BY <2>1, <3>1, <3>2, <3>3, <3>4, <3>5, <3>6, <3>7 DEF RoundAsPlanned, Exposed
  <2>6. QED
    BY <2>3, <2>4, <2>5 DEF Undisturbed
<1>2. CASE SelectMax(c)
  <2> DEFINE last == Max(DOMAIN proposal \cup {0})
  <2>1. /\ clients[c].pc = "max" /\ last = clients[c].pid
        /\ clients' = [clients EXCEPT ![c] =
               IF last = 0 THEN [pc |-> "idle", pid |-> 0] ELSE [pc |-> "targets", pid |-> last]]
        /\ UNCHANGED <<tables, loops>>
    BY <1>2 DEF SelectMax, Hits
  <2> HIDE DEF last
  <2>2. \A p : BusyWith(p)' => BusyWith(p)
    BY <2>1 DEF BusyWith, TablesTyped
  <2>3. QED
    BY <2>1, <2>2, ClientsLeave
<1>3. CASE Stored(c)
  <2>1. \A p : BusyWith(p)' => BusyWith(p)
    BY <1>3 DEF Stored, BusyWith, TablesTyped
  <2>2. QED
    BY <1>3, <2>1, ClientsLeave DEF Stored
<1>4. ASSUME NEW tid \in Tids, InsertTarget(c, tid)
      PROVE  Undisturbed'
  <2> DEFINE row == NextRow(target)
             q   == clients[c].pid
             new == [proposal |-> q, target_id |-> tid, image |-> FALSE]
  <2>1. row \notin DOMAIN target
    BY NextRowIsNew, UOSAssumption DEF TablesTyped
  <2>2. /\ target' = [r \in DOMAIN target \cup {row} |-> IF r = row THEN new ELSE target[r]]
        /\ UNCHANGED <<proposal, clients, at, pid, targets>> /\ clients[c].pc = "targets"
    BY <1>4 DEF InsertTarget, loops
  <2>3. BusyWith(q)
    BY <2>2 DEF BusyWith
  <2>4. new.proposal = q
    OBVIOUS
  <2> HIDE DEF row, new
  <2>5. ASSUME NEW p, p # q
        PROVE  RowsOf(p)' = RowsOf(p) /\ \A r \in RowsOf(p) : target'[r] = target[r]
    <3>1. DOMAIN target' = DOMAIN target \cup {row} /\ target'[row].proposal = q
          /\ \A r \in DOMAIN target : target'[r] = target[r]
      BY <2>1, <2>2, <2>4
    <3>2. QED
      BY <2>5, <3>1 DEF RowsOf
  <2>6. QueuedMeanwhile'
    BY <2>2 DEF Undisturbed, QueuedMeanwhile, BusyWith
  <2>7. \A p \in DOMAIN proposal : proposal[p] # QUEUED => p # q
    BY <2>3 DEF Undisturbed, QueuedMeanwhile
  <2>8. ReadyIllustrated'
    <3> SUFFICES ASSUME NEW p \in DOMAIN proposal, proposal[p] = READY PROVE Illustrated(p)'
      BY <2>2 DEF ReadyIllustrated
    <3>1. p # q
      BY <2>7 DEF QUEUED, READY
    <3>2. Illustrated(p)
      BY DEF Undisturbed, ReadyIllustrated
    <3>3. QED
      BY <2>5, <3>1, <3>2 DEF Illustrated
  <2>9. ASSUME NEW l \in Loops
        PROVE  RoundAsPlanned(l)'
    <3>1. RoundAsPlanned(l)
      BY DEF Undisturbed
    <3>2. BusyWith(pid[l])' <=> BusyWith(pid[l])
      BY <2>2 DEF BusyWith
    <3>3. Running(pid[l])' <=> Running(pid[l])
      BY <2>2 DEF Running
    <3>4. pid[l] # q => RowsOf(pid[l])' = RowsOf(pid[l]) /\ \A r \in RowsOf(pid[l]) : target'[r] = target[r]
      BY <2>2, <2>5 DEF RowsOf
    <3>5. Running(pid[l]) => pid[l] # q
      BY <2>7 DEF Running, QUEUED, RUNNING
    <3>6. Running(pid[l]) /\ GotImages(l) => GotImages(l)'
      BY <2>2, <3>4, <3>5, SameRows
    <3>7. ~BusyWith(pid[l]) => RowsOf(pid[l])' = RowsOf(pid[l])
      BY <2>3, <3>4
    <3>8. UNCHANGED <<at, pid, targets, proposal>>
      BY <2>2
    <3>9. QED
      BY <3>1, <3>2, <3>3, <3>6, <3>7, <3>8 DEF RoundAsPlanned
  <2>10. QED
    BY <2>6, <2>8, <2>9 DEF Undisturbed
<1>5. QED
  BY <1>1, <1>2, <1>3, <1>4

\* Proposals and their rows may go at any time.
LEMMA RemovalUndisturbed ==
    ASSUME TablesTyped, Undisturbed, (\E p \in DOMAIN proposal : removeProposal(p)) \/ clean
    PROVE  Undisturbed'
<1>1. /\ UNCHANGED <<clients, at, pid, targets>> /\ DOMAIN proposal' \subseteq DOMAIN proposal
      /\ DOMAIN target' \subseteq DOMAIN target
      /\ \A p \in DOMAIN proposal' : proposal'[p] = proposal[p]
      /\ \A r \in DOMAIN target' : target'[r] = target[r]
      /\ \A p \in DOMAIN proposal' : \A r \in RowsOf(p) : r \in DOMAIN target'
  <2>1. CASE \E p \in DOMAIN proposal : removeProposal(p)
    BY <2>1 DEF removeProposal, loops, RowsOf
  <2>2. CASE clean
    <3>1. DOMAIN <<>> = {}
      OBVIOUS
    <3>2. QED
      BY <2>2, <3>1 DEF clean, loops
  <2>3. QED
    BY <2>1, <2>2
<1>2. \A p : RowsOf(p)' \subseteq RowsOf(p)
  BY <1>1 DEF RowsOf
<1>3. \A p \in DOMAIN proposal' : RowsOf(p)' = RowsOf(p) /\ \A r \in RowsOf(p) : target'[r] = target[r]
  BY <1>1 DEF RowsOf
<1>4. QueuedMeanwhile'
  BY <1>1 DEF Undisturbed, QueuedMeanwhile, BusyWith
<1>5. ReadyIllustrated'
  BY <1>1, <1>3 DEF Undisturbed, ReadyIllustrated, Illustrated
<1>6. ASSUME NEW l \in Loops
      PROVE  RoundAsPlanned(l)'
  <2>1. RoundAsPlanned(l)
    BY DEF Undisturbed
  <2>2. BusyWith(pid[l])' <=> BusyWith(pid[l])
    BY <1>1 DEF BusyWith
  <2>3. RowsOf(pid[l])' \subseteq RowsOf(pid[l])
    BY <1>1, <1>2 DEF RowsOf
  <2>4. /\ Running(pid[l])' => Running(pid[l]) /\ pid[l] \in DOMAIN proposal'
        /\ Running(pid[l]) /\ pid[l] \in DOMAIN proposal' => Running(pid[l])'
    BY <1>1 DEF Running
  <2>5. Running(pid[l])' =>
            RowsOf(pid[l])' = RowsOf(pid[l]) /\ \A r \in RowsOf(pid[l]) : target'[r] = target[r]
    BY <1>1, <1>3, <2>4 DEF RowsOf
  <2>6. Running(pid[l])' /\ GotImages(l) => GotImages(l)'
    BY <1>1, <2>5, SameRows
  <2>7. QED
    BY <1>1, <2>1, <2>2, <2>3, <2>4, <2>6 DEF RoundAsPlanned
<1>7. QED
  BY <1>4, <1>5, <1>6 DEF Undisturbed

\* An operator has no part in it.
LEMMA OperatorUndisturbed ==
    ASSUME UOSInv, Undisturbed, NEW o \in Operators,
           setMode(o) \/ OperatorStep(o) \/ ByHand(o)
    PROVE  Undisturbed'
<1>1. UNCHANGED <<tables, clients, pid, targets>>
  BY DEF setMode, OperatorStep, SetMode, start, CreateLoop, stop, JoinOrNot, Join, ByHand,
         SwitchCamera, getCameraImage, ImageTaken, Goes, loops
<1>2. \A l \in Loops : at'[l] = at[l] \/ at'[l] = "new"
  BY DEF setMode, OperatorStep, SetMode, start, CreateLoop, stop, JoinOrNot, Join, ByHand,
         SwitchCamera, getCameraImage, ImageTaken,
         Goes, loops, UOSInv, UOSTypeOK
<1>3. QueuedMeanwhile'
  BY <1>1 DEF Undisturbed, QueuedMeanwhile, BusyWith, tables
<1>4. ReadyIllustrated'
  BY <1>1 DEF Undisturbed, ReadyIllustrated, Illustrated, RowsOf, tables
<1>5. ASSUME NEW l \in Loops
      PROVE  RoundAsPlanned(l)'
  <2>1. RowsOf(pid[l])' = RowsOf(pid[l]) /\ \A r \in RowsOf(pid[l]) : target'[r] = target[r]
    BY <1>1 DEF RowsOf, tables
  <2>2. GotImages(l) => GotImages(l)'
    BY <1>1, <2>1, SameRows
  <2>3. BusyWith(pid[l])' <=> BusyWith(pid[l])
    BY <1>1 DEF BusyWith
  <2>4. RoundAsPlanned(l)
    BY DEF Undisturbed
  <2>5. QED
    BY <1>1, <1>2, <2>1, <2>2, <2>3, <2>4 DEF RoundAsPlanned, Running, tables
<1>6. QED
  BY <1>3, <1>4, <1>5 DEF Undisturbed

\* A window that was hit is not forgotten.
LEMMA NoneBefore ==
    ASSUME [UOSNext]_uosVars, races' = "none"
    PROVE  races = "none"
BY DEF UOSNext, uosVars, LoopStep, RemoteFails, Run, TestLoop, Exit, getProposals, getTargets,
       CheckStatus, WriteStatus, CameraOn, storeImage, CameraOff, OperatorStep, setMode, SetMode,
       start, CreateLoop, stop, JoinOrNot, Join, ByHand, SwitchCamera, getCameraImage,
       ImageTaken, Hits, InsertProposal, SelectMax, InsertTarget, Stored, removeProposal, clean

\* The tables fit together as long as no window was hit.
THEOREM TablesInvariance == UOSSpec => []TablesInv
<1>1. UOSInit => TablesInv
  <2> SUFFICES ASSUME UOSInit PROVE TablesInv
    OBVIOUS
  <2> USE DEF UOSInit
  <2>1. DOMAIN <<>> = {} /\ <<>> \in Seq(Nat)
    OBVIOUS
  <2>2. [pc |-> "idle", pid |-> 0] \in [pc : {"idle", "max", "targets"}, pid : 0..MaxPid]
    BY UOSAssumption
  <2>3. TablesTyped /\ ListsFit
    BY <2>1, <2>2 DEF TablesTyped, ListsFit
  <2>4. Undisturbed
    BY <2>1 DEF Undisturbed, QueuedMeanwhile, ReadyIllustrated, RoundAsPlanned
  <2>5. QED
    BY <2>3, <2>4 DEF TablesInv
<1>2. ASSUME TablesInv, UOSInv, [UOSNext]_uosVars
      PROVE  TablesInv'
  <2>1. TablesTyped' /\ ListsFit'
    BY <1>2, TypedStep, ListsStep DEF TablesInv, UOSInv
  <2>2. ASSUME races' = "none"
        PROVE  Undisturbed'
    <3>1. races = "none" /\ Undisturbed /\ TablesTyped /\ ListsFit
      BY <1>2, <2>2, NoneBefore DEF TablesInv
    <3>2. CASE UNCHANGED uosVars
      <4>1. UNCHANGED <<tables, loops>> /\ \A p : BusyWith(p)' => BusyWith(p)
        BY <3>2 DEF uosVars, BusyWith
      <4>2. QED
        BY <3>1, <4>1, ClientsLeave
    <3>3. CASE UOSNext
      BY <1>2, <2>2, <3>1, <3>3, LoopStepUndisturbed, ClientUndisturbed, RemovalUndisturbed,
         OperatorUndisturbed DEF UOSNext
    <3>4. QED
      BY <1>2, <3>2, <3>3
  <2>3. QED
    BY <2>1, <2>2 DEF TablesInv
<1>3. QED
  BY <1>1, <1>2, UOSInvariance, PTL DEF UOSSpec

\* Unless a window of the tables was hit, or two loops or operators met, a
\* proposal that is ready has an image for each target: the loop looks for
\* the row by a target_id that is the ROWID of another, refuses a second
\* picture, and gives up without a row (Scheduler.run, DataBase.storeImage).
THEOREM ReadyOnlyWithImages == UOSSpec => []ReadyHasImages
<1>1. TablesInv => ReadyHasImages
  BY DEF TablesInv, Undisturbed, ReadyIllustrated, Illustrated, ReadyHasImages
<1>2. QED
  BY <1>1, TablesInvariance, PTL
=============================================================================
