--------------------------- MODULE DataBase_proofs ---------------------------
(***************************************************************************)
(* Theorems about the SORT database, for every set of target lists and     *)
(* images, any bound on the number of proposals, and with crashes and disk *)
(* errors at any step.                                                     *)
(***************************************************************************)
EXTENDS DataBase, TLAPS

LEMMA EmptyMapOK == IsProposalMap(NoProposals) /\ DOMAIN NoProposals = {}
  BY DEF IsProposalMap, NoProposals

\* storeProposal keeps a proposal map one: the new entry has a slot per target.
LEMMA StoreKeepsMap ==
    ASSUME NEW targets \in TargetLists, StoreProposal(targets), DBTypeOK
    PROVE  IsProposalMap(proposals')
<1> DEFINE pid == lastProposalId + 1
           new == [status |-> Queued, targets |-> targets,
                   observations |-> [i \in 1..Len(targets) |-> NoImage]]
<1>1. targets \in Seq(Target) /\ Len(targets) \in Nat
  BY DBAssumption
<1>2. /\ [i \in 1..Len(targets) |-> NoImage] \in Seq(Images \cup {NoImage})
      /\ Len([i \in 1..Len(targets) |-> NoImage]) = Len(targets)
  BY <1>1
<1>3. new \in Entry /\ Len(new.observations) = Len(new.targets)
  BY <1>1, <1>2 DEF Entry, Statuses, Queued
<1>4. /\ DOMAIN proposals' = DOMAIN proposals \cup {pid}
      /\ \A p \in DOMAIN proposals : p # pid => proposals'[p] = proposals[p]
      /\ proposals'[pid] = new
      /\ proposals' = [p \in DOMAIN proposals' |-> proposals'[p]]
  BY DEF StoreProposal
<1>5. pid \in Nat \ {0}
  BY DEF DBTypeOK
<1> HIDE DEF pid, new
<1>6. QED
  BY <1>3, <1>4, <1>5 DEF DBTypeOK, IsProposalMap

\* A new status does not change the shape of an entry.
LEMMA StatusKeepsMap ==
    ASSUME NEW pid, NEW status, DBTypeOK, SetProposalStatus(pid, status)
    PROVE  IsProposalMap(proposals')
<1>1. IsProposalMap(proposals)
  BY DEF DBTypeOK
<1>2. CASE proposals' = proposals
  BY <1>1, <1>2
<1>3. CASE /\ pid \in DOMAIN proposals /\ status \in Statuses
           /\ proposals' = [proposals EXCEPT ![pid].status = status]
  BY <1>1, <1>3 DEF IsProposalMap, Entry
<1>4. QED
  BY <1>2, <1>3 DEF SetProposalStatus, Exists

\* Nor does an image put in a slot, and no other slot is touched.
LEMMA ImageKeepsMap ==
    ASSUME NEW pid, NEW tid, NEW image \in Images, DBTypeOK,
           StoreImage(pid, tid, image)
    PROVE  IsProposalMap(proposals')
<1>1. CASE OpenSlot(pid, tid) = {}
  BY <1>1 DEF StoreImage, DBTypeOK
<1>2. CASE OpenSlot(pid, tid) # {}
  <2>1. PICK i \in OpenSlot(pid, tid) :
           proposals' = [proposals EXCEPT ![pid].observations[i] = image]
    BY <1>2 DEF StoreImage
  <2>2. pid \in DOMAIN proposals /\ i \in DOMAIN proposals[pid].targets
    BY <2>1 DEF OpenSlot, Exists
  <2> DEFINE e  == proposals[pid]
             e1 == [e EXCEPT !.observations = [@ EXCEPT ![i] = image]]
  <2>3. e \in Entry /\ Len(e.observations) = Len(e.targets)
    BY <2>2 DEF DBTypeOK, IsProposalMap
  <2>4. i \in 1..Len(e.observations)
    BY <2>2, <2>3 DEF Entry
  <2>5. /\ [e.observations EXCEPT ![i] = image] \in Seq(Images \cup {NoImage})
        /\ Len([e.observations EXCEPT ![i] = image]) = Len(e.observations)
    BY <2>3, <2>4 DEF Entry
  <2>6. e1 \in Entry /\ Len(e1.observations) = Len(e1.targets)
    BY <2>3, <2>5 DEF Entry
  <2>7. proposals' = [proposals EXCEPT ![pid] = e1]
    BY <2>1
  <2> HIDE DEF e, e1
  <2>8. QED
    BY <2>2, <2>6, <2>7 DEF DBTypeOK, IsProposalMap
<1>3. QED
  BY <1>1, <1>2

-----------------------------------------------------------------------------
\* removeProposal and clean() leave a part of the map.
LEMMA RemovalKeepsMap ==
    ASSUME NEW pid, DBTypeOK, RemoveProposal(pid)
    PROVE  /\ IsProposalMap(proposals')
           /\ DOMAIN proposals' \subseteq DOMAIN proposals
  BY DEF RemoveProposal, DBTypeOK, IsProposalMap

\* The steps of the database when its callers may name any pid at all, as the
\* scheduler does.
CallOn(pid) ==
    \/ \E status \in 0..3 : SetProposalStatus(pid, status)
    \/ \E tid \in Tids, image \in Images : StoreImage(pid, tid, image)

DBStep == DBNext \/ \E pid \in Nat : CallOn(pid)

\* DBTypeOK is inductive.
LEMMA DBTypeStep == DBTypeOK /\ [DBStep]_dbVars => DBTypeOK'
<1> SUFFICES ASSUME DBTypeOK, [DBStep]_dbVars
             PROVE  DBTypeOK'
  OBVIOUS
<1> USE DEF dbVars
<1>1. ASSUME NEW targets \in TargetLists, StoreProposal(targets)
      PROVE  DBTypeOK'
  <2>1. IsProposalMap(proposals')
    BY <1>1, StoreKeepsMap
  <2>2. lastProposalId' \in Nat /\ issued' \in Seq(Nat)
    BY <1>1 DEF StoreProposal, DBTypeOK
  <2>3. UNCHANGED <<dbState, dbFile>>
    BY <1>1 DEF StoreProposal
  <2>4. QED
    BY <2>1, <2>2, <2>3 DEF DBTypeOK, IsProposalMap
<1>2. ASSUME NEW pid, NEW status \in 0..3, SetProposalStatus(pid, status)
      PROVE  DBTypeOK'
  <2>2. IsProposalMap(proposals')
    BY <1>2, StatusKeepsMap
  <2>3. UNCHANGED <<lastProposalId, dbState, dbFile, issued>>
    BY <1>2 DEF SetProposalStatus
  <2>4. QED
    BY <2>2, <2>3 DEF DBTypeOK, IsProposalMap
<1>3. ASSUME NEW pid, NEW tid \in Tids, NEW image \in Images,
             StoreImage(pid, tid, image)
      PROVE  DBTypeOK'
  <2>2. IsProposalMap(proposals')
    BY <1>3, ImageKeepsMap
  <2>3. UNCHANGED <<lastProposalId, dbState, dbFile, issued>>
    BY <1>3 DEF StoreImage
  <2>4. QED
    BY <2>2, <2>3 DEF DBTypeOK, IsProposalMap
<1>4. ASSUME NEW pid \in Pids, RemoveProposal(pid)
      PROVE  DBTypeOK'
  <2>1. IsProposalMap(proposals')
    BY <1>4, RemovalKeepsMap
  <2>2. UNCHANGED <<lastProposalId, dbState, dbFile, issued>>
    BY <1>4 DEF RemoveProposal
  <2>3. QED
    BY <2>1, <2>2 DEF DBTypeOK, IsProposalMap
<1>5. CASE Clean
  BY <1>5, EmptyMapOK DEF Clean, DBTypeOK, IsProposalMap
<1>6. CASE CleanUp
  <2>1. ASSUME NEW n \in 0..2, dbFile' = FileOf(n)
        PROVE  /\ dbFile' \in [objects : 0..2, pid : Nat, map : {dbFile'.map}]
               /\ IsProposalMap(dbFile'.map)
    <3>1. dbFile'.map \in {proposals, NoProposals}
      BY <2>1 DEF FileOf
    <3>2. IsProposalMap(dbFile'.map)
      BY <3>1, EmptyMapOK DEF DBTypeOK
    <3>3. QED
      BY <2>1, <3>2 DEF FileOf, DBTypeOK
  <2>2. CASE CleanUpOpen
    BY <2>1, <2>2 DEF CleanUpOpen, DBTypeOK, IsProposalMap
  <2>3. CASE CleanUpWritePid
    BY <2>1, <2>3 DEF CleanUpWritePid, DBTypeOK, IsProposalMap
  <2>4. CASE CleanUpWriteMap
    BY <2>1, <2>4, EmptyMapOK DEF CleanUpWriteMap, DBTypeOK, IsProposalMap
  <2>5. QED
    BY <1>6, <2>2, <2>3, <2>4 DEF CleanUp
<1>7. CASE Initialize
  BY <1>7 DEF Initialize, DBTypeOK, IsProposalMap
<1>8. CASE Lose
  BY <1>8, EmptyMapOK DEF Lose, DBTypeOK, IsProposalMap
<1>9. CASE UNCHANGED dbVars
  BY <1>9 DEF DBTypeOK, IsProposalMap
<1>10. QED
  BY <1>1, <1>2, <1>3, <1>4, <1>5, <1>6, <1>7, <1>8, <1>9
  DEF DBStep, CallOn, DBNext, Client, Executor, LifeCycle

\* The maps of the object and of the file are well formed, one image slot per
\* target, in every reachable state.
THEOREM DBTypeCorrect == DBSpec => []DBTypeOK
<1>1. DBInit => DBTypeOK
  BY EmptyMapOK DEF DBInit, DBTypeOK, IsProposalMap
<1>2. DBTypeOK /\ [DBNext]_dbVars => DBTypeOK'
  BY DBTypeStep DEF DBStep
<1>3. QED
  BY <1>1, <1>2, PTL DEF DBSpec

-----------------------------------------------------------------------------
\* With the types, CounterCoversMap is inductive.
LEMMA CounterStep ==
    ASSUME DBTypeOK, CounterCoversMap, [DBStep]_dbVars
    PROVE  CounterCoversMap'
<1>1. ASSUME NEW targets \in TargetLists, StoreProposal(targets)
      PROVE  CounterCoversMap'
  <2>1. /\ DOMAIN proposals' = DOMAIN proposals \cup {lastProposalId + 1}
        /\ lastProposalId' = lastProposalId + 1
        /\ dbFile' = dbFile
    BY <1>1 DEF StoreProposal
  <2>2. QED
    BY <2>1 DEF CounterCoversMap, DBTypeOK, IsProposalMap
<1>2. ASSUME NEW pid, CallOn(pid) \/ RemoveProposal(pid)
      PROVE  CounterCoversMap'
  <2>1. DOMAIN proposals' \subseteq DOMAIN proposals
    BY <1>2 DEF CallOn, SetProposalStatus, StoreImage, RemoveProposal
  <2>2. UNCHANGED <<lastProposalId, dbFile>>
    BY <1>2 DEF CallOn, SetProposalStatus, StoreImage, RemoveProposal
  <2>3. QED
    BY <2>1, <2>2 DEF CounterCoversMap
<1>3. CASE Clean
  BY <1>3, EmptyMapOK DEF Clean, CounterCoversMap
<1>4. CASE CleanUp
  BY <1>4, EmptyMapOK
  DEF CleanUp, CleanUpOpen, CleanUpWritePid, CleanUpWriteMap, FileOf, CounterCoversMap
<1>5. CASE Initialize
  BY <1>5 DEF Initialize, CounterCoversMap
<1>6. CASE Lose
  BY <1>6, EmptyMapOK DEF Lose, CounterCoversMap
<1>7. CASE UNCHANGED dbVars
  BY <1>7 DEF dbVars, CounterCoversMap
<1>8. QED
  BY <1>1, <1>2, <1>3, <1>4, <1>5, <1>6, <1>7
  DEF DBStep, CallOn, DBNext, Client, Executor, LifeCycle

\* storeProposal never lands on a pid that is stored already, whatever crash
\* or disk error the file went through.
THEOREM CounterAlwaysCoversMap == DBSpec => []CounterCoversMap
<1>1. DBInit => CounterCoversMap
  BY EmptyMapOK DEF DBInit, CounterCoversMap
<1>2. DBTypeOK /\ CounterCoversMap /\ [DBNext]_dbVars => CounterCoversMap'
  BY CounterStep DEF DBStep
<1>3. QED
  BY <1>1, <1>2, DBTypeCorrect, PTL DEF DBSpec

-----------------------------------------------------------------------------
\* What makes PidsNeverReissued inductive: the counter, or the file's copy of
\* it while the component is down, is at least every pid handed out since the
\* last loss.
Counter == IF dbState = "down" THEN dbFile.pid ELSE lastProposalId

CounterRemembers ==
    \A i \in DOMAIN issued :
        (\A k \in i..Len(issued) : issued[k] # 0) => issued[i] <= Counter

LEMMA RemembersStep ==
    ASSUME DBTypeOK, CounterRemembers, PidsNeverReissued, [DBNext]_dbVars
    PROVE  CounterRemembers' /\ PidsNeverReissued'
<1> USE DEF CounterRemembers, PidsNeverReissued, Counter
<1>1. ASSUME NEW n, issued' = Append(issued, n)
      PROVE  /\ DOMAIN issued = 1..Len(issued) /\ Len(issued) \in Nat
             /\ DOMAIN issued' = 1..Len(issued') /\ Len(issued') = Len(issued) + 1
             /\ \A i \in 1..Len(issued) : issued'[i] = issued[i]
             /\ \A i \in 1..Len(issued) : issued[i] \in Nat
             /\ issued'[Len(issued')] = n
  BY <1>1 DEF DBTypeOK
<1>2. ASSUME NEW targets \in TargetLists, StoreProposal(targets)
      PROVE  CounterRemembers' /\ PidsNeverReissued'
  <2>1. /\ issued' = Append(issued, lastProposalId + 1)
        /\ lastProposalId' = lastProposalId + 1
        /\ dbState = "up" /\ dbState' = "up"
    BY <1>2 DEF StoreProposal
  <2>2. lastProposalId \in Nat
    BY DEF DBTypeOK
  <2>3. ASSUME NEW i \in 1..Len(issued), \A k \in i..Len(issued) : issued'[k] # 0
        PROVE  issued'[i] <= lastProposalId
    BY <1>1, <2>1, <2>3
  <2>4. CounterRemembers'
    BY <1>1, <2>1, <2>2, <2>3
  <2>5. ASSUME NEW i \in DOMAIN issued', NEW j \in DOMAIN issued', i < j,
               \A k \in i..j : issued'[k] # 0
        PROVE  issued'[i] < issued'[j]
    <3>1. CASE j \in 1..Len(issued)
      <4>1. i \in DOMAIN issued /\ j \in DOMAIN issued /\ i \in Nat /\ j \in Nat
        BY <1>1, <2>1, <2>5, <3>1
      <4>2. \A k \in i..j : issued[k] # 0
        BY <1>1, <2>1, <2>5, <3>1, <4>1
      <4>3. QED
        BY <1>1, <2>1, <2>5, <4>1, <4>2
    <3>2. CASE j = Len(issued')
      <4>1. i \in 1..Len(issued)
        BY <1>1, <2>1, <2>5, <3>2
      <4>2. \A k \in i..Len(issued) : issued'[k] # 0
        BY <1>1, <2>1, <2>5, <3>2
      <4>3. QED
        BY <1>1, <2>1, <2>2, <2>3, <3>2, <4>1, <4>2
    <3>3. QED
      BY <1>1, <2>1, <3>1, <3>2
  <2>6. QED
    BY <2>4, <2>5
<1>3. ASSUME UNCHANGED <<lastProposalId, dbState, dbFile, issued>>
      PROVE  CounterRemembers' /\ PidsNeverReissued'
  BY <1>3
<1>4. CASE CleanUp
  BY <1>4 DEF CleanUp, CleanUpOpen, CleanUpWritePid, CleanUpWriteMap, FileOf
<1>5. CASE Initialize
  BY <1>5 DEF Initialize
<1>6. CASE Lose
  <2>1. issued' = Append(issued, 0)
    BY <1>6 DEF Lose
  <2>2. CounterRemembers'
    BY <1>1, <2>1
  <2>3. ASSUME NEW i \in DOMAIN issued', NEW j \in DOMAIN issued', i < j,
               \A k \in i..j : issued'[k] # 0
        PROVE  issued'[i] < issued'[j]
    <3>1. j # Len(issued')
      BY <1>1, <2>1, <2>3
    <3>2. i \in DOMAIN issued /\ j \in DOMAIN issued
      BY <1>1, <2>1, <2>3, <3>1
    <3>3. \A k \in i..j : issued[k] # 0
      BY <1>1, <2>1, <2>3, <3>2
    <3>4. QED
      BY <1>1, <2>1, <2>3, <3>2, <3>3
  <2>4. QED
    BY <2>2, <2>3
<1>7. QED
  BY <1>2, <1>3, <1>4, <1>5, <1>6
  DEF DBNext, Client, Executor, LifeCycle, SetProposalStatus, StoreImage,
      RemoveProposal, Clean, dbVars

\* The database never hands out a pid twice, across removals, clean() and any
\* number of orderly restarts, unless the object is lost in between.
THEOREM PidsAreNeverReissued == DBSpec => []PidsNeverReissued
<1>1. DBInit => CounterRemembers /\ PidsNeverReissued
  BY DEF DBInit, CounterRemembers, PidsNeverReissued
<1>2. DBTypeOK /\ CounterRemembers /\ PidsNeverReissued /\ [DBNext]_dbVars
        => CounterRemembers' /\ PidsNeverReissued'
  BY RemembersStep
<1>3. QED
  BY <1>1, <1>2, DBTypeCorrect, PTL DEF DBSpec

LEMMA RemembersAlways == DBSpec => []CounterRemembers
<1>1. DBInit => CounterRemembers /\ PidsNeverReissued
  BY DEF DBInit, CounterRemembers, PidsNeverReissued
<1>2. DBTypeOK /\ CounterRemembers /\ PidsNeverReissued /\ [DBNext]_dbVars
        => CounterRemembers' /\ PidsNeverReissued'
  BY RemembersStep
<1>3. QED
  BY <1>1, <1>2, DBTypeCorrect, PTL DEF DBSpec

-----------------------------------------------------------------------------
\* The step that StoredImagesAreFinal allows.
KeepsImages ==
    \A pid \in DOMAIN proposals \cap DOMAIN proposals' :
       /\ proposals'[pid].targets = proposals[pid].targets
       /\ \A i \in DOMAIN proposals[pid].observations :
             proposals[pid].observations[i] # NoImage =>
                 proposals'[pid].observations[i] = proposals[pid].observations[i]

LEMMA ImageStepKeepsImages ==
    ASSUME NEW pid, NEW tid, NEW image \in Images, DBTypeOK,
           StoreImage(pid, tid, image)
    PROVE  KeepsImages
<1>1. CASE OpenSlot(pid, tid) = {}
  BY <1>1 DEF StoreImage, KeepsImages
<1>2. CASE OpenSlot(pid, tid) # {}
  <2>1. PICK i \in OpenSlot(pid, tid) :
           proposals' = [proposals EXCEPT ![pid].observations[i] = image]
    BY <1>2 DEF StoreImage
  <2>2. /\ pid \in DOMAIN proposals
        /\ proposals[pid].observations[i] = NoImage
    BY <2>1 DEF OpenSlot, Exists
  <2>3. proposals[pid] \in Entry
    BY <2>2 DEF DBTypeOK, IsProposalMap
  <2>4. /\ proposals'[pid].targets = proposals[pid].targets
        /\ proposals'[pid].observations
             = [proposals[pid].observations EXCEPT ![i] = image]
        /\ \A p \in DOMAIN proposals : p # pid => proposals'[p] = proposals[p]
    BY <2>1, <2>2, <2>3 DEF Entry
  <2>5. \A j \in DOMAIN proposals[pid].observations :
           j # i => proposals'[pid].observations[j] = proposals[pid].observations[j]
    BY <2>4
  <2>6. QED
    BY <2>2, <2>4, <2>5 DEF KeepsImages
<1>3. QED
  BY <1>1, <1>2

\* There is no object while the component is down.
DownIsEmpty == dbState = "down" => proposals = NoProposals

LEMMA DownIsEmptyStep == DownIsEmpty /\ [DBStep]_dbVars => DownIsEmpty'
  BY DEF DownIsEmpty, dbVars, DBStep, CallOn, DBNext, Client, Executor, LifeCycle, StoreProposal,
         SetProposalStatus, StoreImage, RemoveProposal, Clean, CleanUp,
         CleanUpOpen, CleanUpWritePid, CleanUpWriteMap, Initialize, Lose

LEMMA DownIsAlwaysEmpty == DBSpec => []DownIsEmpty
<1>1. DBInit => DownIsEmpty
  BY DEF DBInit, DownIsEmpty
<1>2. DownIsEmpty /\ [DBNext]_dbVars => DownIsEmpty'
  BY DownIsEmptyStep DEF DBStep
<1>3. QED
  BY <1>1, <1>2, PTL DEF DBSpec

\* No call, restart or failure replaces or drops an image of a proposal that
\* stays in the object.
THEOREM StoredImagesStayFinal == DBSpec => StoredImagesAreFinal
<1>1. ASSUME DBTypeOK, CounterCoversMap, DownIsEmpty, [DBNext]_dbVars
      PROVE  [KeepsImages]_dbVars
  <2> USE DEF KeepsImages
  <2>1. ASSUME NEW targets \in TargetLists, StoreProposal(targets)
        PROVE  KeepsImages
    <3>1. /\ lastProposalId + 1 \notin DOMAIN proposals
          /\ \A p \in DOMAIN proposals :
                p # lastProposalId + 1 => proposals'[p] = proposals[p]
      BY <1>1, <2>1 DEF StoreProposal, CounterCoversMap, DBTypeOK, IsProposalMap
    <3>2. QED
      BY <3>1
  <2>2. ASSUME NEW pid \in Pids, NEW status \in 0..3, SetProposalStatus(pid, status)
        PROVE  KeepsImages
    BY <1>1, <2>2 DEF SetProposalStatus, DBTypeOK, IsProposalMap, Entry, Exists
  <2>3. ASSUME NEW pid \in Pids, NEW tid \in Tids, NEW image \in Images,
               StoreImage(pid, tid, image)
        PROVE  KeepsImages
    BY <1>1, <2>3, ImageStepKeepsImages
  <2>4. ASSUME NEW pid \in Pids, RemoveProposal(pid)
        PROVE  KeepsImages
    BY <2>4 DEF RemoveProposal
  <2>5. CASE Clean
    BY <2>5, EmptyMapOK DEF Clean
  <2>6. CASE CleanUp
    BY <2>6, EmptyMapOK
    DEF CleanUp, CleanUpOpen, CleanUpWritePid, CleanUpWriteMap
  <2>7. CASE Lose
    BY <2>7, EmptyMapOK DEF Lose
  <2>8. CASE Initialize
    BY <1>1, <2>8, EmptyMapOK DEF Initialize, DownIsEmpty
  <2>9. QED
    BY <1>1, <2>1, <2>2, <2>3, <2>4, <2>5, <2>6, <2>7, <2>8
    DEF DBNext, Client, Executor, LifeCycle
<1>2. QED
  BY <1>1, DBTypeCorrect, CounterAlwaysCoversMap, DownIsAlwaysEmpty, PTL
  DEF DBSpec, StoredImagesAreFinal, KeepsImages

-----------------------------------------------------------------------------
\* The refinement mapping's view of the map, for the proof below.
StoreView == IF dbState = "down" THEN dbFile.map ELSE proposals

LEMMA StoreStep ==
    ASSUME DBTypeOK, CounterCoversMap, CounterRemembers, [DBNext]_dbVars
    PROVE  [Store!Next]_<<StoreView, dbFile.map, issued>>
<1> USE DEF StoreView
<1>1. ASSUME NEW targets \in TargetLists, StoreProposal(targets)
      PROVE  Store!Next
  <2> DEFINE pid == lastProposalId + 1
  <2>1. /\ StoreView = proposals /\ StoreView' = proposals' /\ dbFile' = dbFile
        /\ issued' = Append(issued, pid)
        /\ proposals' = [p \in DOMAIN proposals \cup {pid} |->
                IF p = pid
                THEN [status |-> 0, targets |-> targets,
                      observations |-> [i \in 1..Len(targets) |-> NoImage]]
                ELSE proposals[p]]
    BY <1>1 DEF StoreProposal, Queued
  <2>2. pid \in DOMAIN proposals' \ DOMAIN proposals
    BY <2>1 DEF CounterCoversMap, DBTypeOK, IsProposalMap
  <2>3. pid > 0 /\ \A i \in DOMAIN issued : Store!SinceLoss(i) => issued[i] < pid
    <3>1. dbState = "up"
      BY <1>1 DEF StoreProposal
    <3>2. QED
      BY <3>1 DEF CounterRemembers, Counter, DBTypeOK, Store!SinceLoss
  <2>4. Store!Submit(pid, targets)
    BY <2>1, <2>3 DEF Store!Submit
  <2>5. QED
    BY <2>1, <2>2, <2>4 DEF Store!Next
<1>2. ASSUME NEW pid \in Pids, NEW status \in 0..3, SetProposalStatus(pid, status)
      PROVE  [Store!Next]_<<StoreView, dbFile.map, issued>>
  <2>1. StoreView = proposals /\ StoreView' = proposals' /\ UNCHANGED <<dbFile, issued>>
    BY <1>2 DEF SetProposalStatus
  <2>2. CASE Exists(pid) /\ status \in Statuses
    BY <1>2, <2>1, <2>2 DEF SetProposalStatus, Exists, Store!Next, Store!SetStatus
  <2>3. CASE ~(Exists(pid) /\ status \in Statuses)
    BY <1>2, <2>1, <2>3 DEF SetProposalStatus
  <2>4. QED
    BY <2>2, <2>3
<1>3. ASSUME NEW pid \in Pids, NEW tid \in Tids, NEW image \in Images,
             StoreImage(pid, tid, image)
      PROVE  [Store!Next]_<<StoreView, dbFile.map, issued>>
  <2>1. StoreView = proposals /\ StoreView' = proposals' /\ UNCHANGED <<dbFile, issued>>
    BY <1>3 DEF StoreImage
  <2>2. CASE OpenSlot(pid, tid) = {}
    BY <1>3, <2>1, <2>2 DEF StoreImage
  <2>3. CASE OpenSlot(pid, tid) # {}
    <3>1. PICK i \in OpenSlot(pid, tid) :
             proposals' = [proposals EXCEPT ![pid].observations[i] = image]
      BY <1>3, <2>3 DEF StoreImage
    <3>2. /\ pid \in DOMAIN proposals
          /\ i \in DOMAIN proposals[pid].targets
          /\ proposals[pid].observations[i] = NoImage
      BY <3>1 DEF OpenSlot, Exists
    <3>3. i \in DOMAIN proposals[pid].observations
      BY <3>2 DEF DBTypeOK, IsProposalMap, Entry
    <3>4. Store!Fill(pid, i, image)
      BY <2>1, <3>1, <3>2, <3>3 DEF Store!Fill
    <3>5. QED
      BY <2>1, <3>2, <3>3, <3>4 DEF Store!Next
  <2>4. QED
    BY <2>2, <2>3
<1>4. ASSUME NEW pid \in Pids, RemoveProposal(pid)
      PROVE  [Store!Next]_<<StoreView, dbFile.map, issued>>
  <2>1. /\ StoreView = proposals /\ StoreView' = proposals' /\ UNCHANGED <<dbFile, issued>>
        /\ proposals' = [p \in DOMAIN proposals \ {pid} |-> proposals[p]]
    BY <1>4 DEF RemoveProposal
  <2>2. CASE pid \in DOMAIN proposals
    BY <2>1, <2>2 DEF Store!Next, Store!Withdraw
  <2>3. CASE pid \notin DOMAIN proposals
    <3>1. proposals = [p \in DOMAIN proposals |-> proposals[p]]
      BY DEF DBTypeOK, IsProposalMap
    <3>2. DOMAIN proposals \ {pid} = DOMAIN proposals
      BY <2>3
    <3>3. QED
      BY <2>1, <3>1, <3>2
  <2>4. QED
    BY <2>2, <2>3
<1>5. CASE Clean
  <2>1. /\ StoreView = proposals /\ StoreView' = proposals' /\ UNCHANGED <<dbFile, issued>>
        /\ proposals' = [p \in DOMAIN proposals \ DOMAIN proposals |-> proposals[p]]
    BY <1>5 DEF Clean, NoProposals
  <2>2. Store!Withdraw(DOMAIN proposals)
    BY <2>1 DEF Store!Withdraw
  <2>3. QED
    BY <2>1, <2>2 DEF Store!Next
<1>6. CASE CleanUp
  <2>1. StoreView' = StoreView /\ UNCHANGED issued
    BY <1>6 DEF CleanUp, CleanUpOpen, CleanUpWritePid, CleanUpWriteMap, FileOf
  <2>2. dbFile.map' \in {Store!Nothing, StoreView}
    BY <1>6 DEF CleanUp, CleanUpOpen, CleanUpWritePid, CleanUpWriteMap, FileOf,
                NoProposals, Store!Nothing
  <2>3. QED
    BY <2>1, <2>2 DEF Store!Next, Store!Keep
<1>7. CASE Initialize
  BY <1>7 DEF Initialize
<1>8. CASE Lose
  BY <1>8 DEF Lose, Store!Next, Store!Loss
<1>9. CASE UNCHANGED dbVars
  BY <1>9 DEF dbVars
<1>10. QED
  BY <1>1, <1>2, <1>3, <1>4, <1>5, <1>6, <1>7, <1>8, <1>9
  DEF DBNext, Client, Executor, LifeCycle

\* The database implements the abstract store: every call is one atomic step on
\* a map that restarts do not touch, and the pids it returns increase, from one
\* loss of the object to the next.
THEOREM DBImplementsStore == DBSpec => ImplementsStore
<1>1. DBInit => Store!Init
  BY DEF DBInit, Store!Init, Store!Nothing, NoProposals
<1>2. ASSUME DBTypeOK, CounterCoversMap, CounterRemembers, [DBNext]_dbVars
      PROVE  [Store!Next]_Store!storeVars
  BY <1>2, StoreStep DEF Store!storeVars, StoreView
<1>3. QED
  BY <1>1, <1>2, DBTypeCorrect, CounterAlwaysCoversMap, RemembersAlways, PTL
  DEF DBSpec, ImplementsStore, Store!Spec
=============================================================================
