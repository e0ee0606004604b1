------------------------------ MODULE DataBase ------------------------------
(***************************************************************************)
(* The SORT database component, DataBaseImpl.java.  Every servant method   *)
(* is synchronized, so each is one step.  The object keeps a map from pid  *)
(* to an entry (the proposal and one image slot per target) and the last   *)
(* pid it assigned.  Both live in memory only: cleanUp() writes them to a  *)
(* file when the container deactivates the component, initialize() reads   *)
(* the file back.  Writing is three steps (truncate, pid, map), because a  *)
(* crash can fall between them.                                            *)
(***************************************************************************)
EXTENDS Integers, Sequences

CONSTANTS Tids,         \* target identifiers a client may use
          Positions,    \* sky coordinates
          Images,       \* what storeImage may be given
          NoImage,      \* a null slot of Entry.observations
          TargetLists,  \* the target lists storeProposal is called with
          MaxStores,    \* bound: calls of storeProposal and losses of the object
          MayFail       \* TRUE: the process may crash, the disk may fail

Target   == [tid : Tids, pos : Positions]
Statuses == 0..2
Queued   == 0
Running  == 1
Ready    == 2

ASSUME DBAssumption ==
    /\ NoImage \notin Images
    /\ TargetLists \subseteq Seq(Target)
    /\ MaxStores \in Nat
    /\ MayFail \in BOOLEAN

VARIABLES proposals,       \* pid -> Entry, the map of the live object
          lastProposalId,  \* the counter of the live object
          dbState,         \* "up", "opened" and "pidWritten" (in cleanUp), "down"
          dbFile,          \* what a reader would find in the file
          issued           \* history: the pids storeProposal has returned, 0 for
                           \* each loss of the object

dbVars == <<proposals, lastProposalId, dbState, dbFile, issued>>

-----------------------------------------------------------------------------
\* DataBaseImpl.Entry: a proposal and its image slots, one per target.
Entry == [status : Statuses,
          targets : Seq(Target),
          observations : Seq(Images \cup {NoImage})]

NoProposals == [p \in {} |-> p]

\* Mutant: the map is written before the pid.
FileOf_MapFirst(n) == [objects |-> n,
                       pid |-> IF n = 2 THEN lastProposalId ELSE 0,
                       map |-> IF n >= 1 THEN proposals ELSE NoProposals]

\* The file with its first n objects written: the pid, then the map.  What is
\* not there reads as initialize() leaves it, counter 0 and an empty map.
FileOf(n) == [objects |-> n,
              pid |-> IF n >= 1 THEN lastProposalId ELSE 0,
              map |-> IF n = 2 THEN proposals ELSE NoProposals]

Exists(pid) == pid \in DOMAIN proposals

\* Mutant: the null check of line 114 is missing.
OpenSlot_NoNullCheck(pid, tid) ==
    IF Exists(pid)
    THEN {i \in DOMAIN proposals[pid].targets :
            /\ proposals[pid].targets[i].tid = tid
            /\ \A j \in 1..(i - 1) : proposals[pid].targets[j].tid # tid}
    ELSE {}

\* The slot storeImage's loop stops at, if it is still empty: the first one
\* whose target has this tid.
OpenSlot(pid, tid) ==
    IF Exists(pid)
    THEN {i \in DOMAIN proposals[pid].targets :
            /\ proposals[pid].targets[i].tid = tid
            /\ \A j \in 1..(i - 1) : proposals[pid].targets[j].tid # tid
            /\ proposals[pid].observations[i] = NoImage}
    ELSE {}

-----------------------------------------------------------------------------
\* The servant methods.  One that throws leaves the object as it was.

StoreProposal(targets) ==
    /\ dbState = "up"
    /\ Len(issued) < MaxStores
    /\ LET pid == lastProposalId + 1
           new == [status |-> Queued, targets |-> targets,
                   observations |-> [i \in 1..Len(targets) |-> NoImage]]
       IN  /\ lastProposalId' = pid
           /\ proposals' = [p \in DOMAIN proposals \cup {pid} |->
                               IF p = pid THEN new ELSE proposals[p]]
           /\ issued' = Append(issued, pid)
    /\ UNCHANGED <<dbState, dbFile>>

\* InvalidProposalStatusTransitionEx unless the pid exists; any of the three
\* statuses is accepted, whatever the current one.
SetProposalStatus(pid, status) ==
    /\ dbState = "up"
    /\ proposals' = IF Exists(pid) /\ status \in Statuses
                    THEN [proposals EXCEPT ![pid].status = status]
                    ELSE proposals
    /\ UNCHANGED <<lastProposalId, dbState, dbFile, issued>>

\* InvalidProposalIdEx, InvalidTargetIdEx and ImageAlreadyStoredEx are the
\* three ways in which no slot is filled.
StoreImage(pid, tid, image) ==
    /\ dbState = "up"
    /\ \/ \E i \in OpenSlot(pid, tid) :
             proposals' = [proposals EXCEPT ![pid].observations[i] = image]
       \/ /\ OpenSlot(pid, tid) = {}
          /\ UNCHANGED proposals
    /\ UNCHANGED <<lastProposalId, dbState, dbFile, issued>>

RemoveProposal(pid) ==
    /\ dbState = "up"
    /\ proposals' = [p \in DOMAIN proposals \ {pid} |-> proposals[p]]
    /\ UNCHANGED <<lastProposalId, dbState, dbFile, issued>>

\* Mutant: clean() also resets the counter.
Clean_ResetsCounter ==
    /\ dbState = "up"
    /\ proposals' = NoProposals
    /\ lastProposalId' = 0
    /\ UNCHANGED <<dbState, dbFile, issued>>

Clean ==
    /\ dbState = "up"
    /\ proposals' = NoProposals
    /\ UNCHANGED <<lastProposalId, dbState, dbFile, issued>>

\* The query of the scheduler.
GetProposals == {pid \in DOMAIN proposals : proposals[pid].status = Queued}

-----------------------------------------------------------------------------
\* The life cycle: cleanUp() in three steps, initialize(), and failures.

CleanUpOpen ==
    /\ dbState = "up"
    /\ dbState' = "opened"
    /\ dbFile' = FileOf(0)
    /\ UNCHANGED <<proposals, lastProposalId, issued>>

CleanUpWritePid ==
    /\ dbState = "opened"
    /\ dbState' = "pidWritten"
    /\ dbFile' = FileOf(1)
    /\ UNCHANGED <<proposals, lastProposalId, issued>>

CleanUpWriteMap ==
    /\ dbState = "pidWritten"
    /\ dbState' = "down"
    /\ dbFile' = FileOf(2)
    /\ proposals' = NoProposals
    /\ lastProposalId' = 0
    /\ UNCHANGED issued

\* A crash at any moment of the object's life, or an IOException of cleanUp,
\* which is logged and swallowed.  Either way the object is gone and the file
\* stays as it is.
Lose ==
    /\ MayFail
    /\ Len(issued) < MaxStores
    /\ dbState # "down"
    /\ dbState' = "down"
    /\ proposals' = NoProposals
    /\ lastProposalId' = 0
    /\ issued' = Append(issued, 0)
    /\ UNCHANGED dbFile

\* Mutant: only the queued proposals survive a restart.
Initialize_QueuedOnly ==
    /\ dbState = "down"
    /\ dbState' = "up"
    /\ lastProposalId' = dbFile.pid
    /\ proposals' = [p \in {q \in DOMAIN dbFile.map : dbFile.map[q].status = Queued}
                       |-> dbFile.map[p]]
    /\ UNCHANGED <<dbFile, issued>>

\* The pid is read first; if the map cannot be read the pid is kept.
Initialize ==
    /\ dbState = "down"
    /\ dbState' = "up"
    /\ lastProposalId' = dbFile.pid
    /\ proposals' = dbFile.map
    /\ UNCHANGED <<dbFile, issued>>

-----------------------------------------------------------------------------
\* A database that was never used: no file, not activated yet.
DBInit ==
    /\ proposals = NoProposals
    /\ lastProposalId = 0
    /\ dbState = "down"
    /\ dbFile = [objects |-> 0, pid |-> 0, map |-> NoProposals]
    /\ issued = <<>>

Pids == 1..MaxStores

Client ==
    \/ \E targets \in TargetLists : StoreProposal(targets)
    \/ \E pid \in Pids : RemoveProposal(pid)
    \/ Clean

Executor ==
    \E pid \in Pids :
        \/ \E status \in 0..3 : SetProposalStatus(pid, status)
        \/ \E tid \in Tids, image \in Images : StoreImage(pid, tid, image)

CleanUp   == CleanUpOpen \/ CleanUpWritePid \/ CleanUpWriteMap
LifeCycle == CleanUp \/ Initialize \/ Lose

DBNext == Client \/ Executor \/ LifeCycle

DBSpec == DBInit /\ [][DBNext]_dbVars

-----------------------------------------------------------------------------
\* A map from pids to entries whose slots are in step with their targets.
IsProposalMap(map) ==
    /\ DOMAIN map \subseteq Nat \ {0}
    /\ map \in [DOMAIN map -> Entry]
    /\ \A pid \in DOMAIN map :
          Len(map[pid].observations) = Len(map[pid].targets)

\* The type invariant of the component: the live map and the one in the file
\* are proposal maps, with exactly one image slot per target.
DBTypeOK ==
    /\ IsProposalMap(proposals)
    /\ lastProposalId \in Nat
    /\ dbState \in {"up", "opened", "pidWritten", "down"}
    /\ dbFile \in [objects : 0..2, pid : Nat, map : {dbFile.map}]
    /\ IsProposalMap(dbFile.map)
    /\ issued \in Seq(Nat)

\* Whatever crash or disk error came before, a counter never lags behind the
\* pids of the map it is kept with: storeProposal cannot overwrite a proposal
\* that is still stored (lines 148 and 158 put at counter + 1 unchecked), in
\* this life of the object or after reading a file cut at any point.
CounterCoversMap ==
    /\ \A pid \in DOMAIN proposals : pid <= lastProposalId
    /\ \A pid \in DOMAIN dbFile.map : pid <= dbFile.pid

\* An image, once stored, is never replaced or dropped while its proposal is
\* in the object, and the targets it was taken for never change.
StoredImagesAreFinal ==
    [][\A pid \in DOMAIN proposals \cap DOMAIN proposals' :
          /\ proposals'[pid].targets = proposals[pid].targets
          /\ \A i \in DOMAIN proposals[pid].observations :
                proposals[pid].observations[i] # NoImage =>
                    proposals'[pid].observations[i] = proposals[pid].observations[i]
      ]_dbVars

\* The counter survives removals, clean() and orderly restarts: between two
\* losses no pid is handed out twice, so a client's pid never comes to name
\* another client's proposal.  (A loss takes the counter back to the file's,
\* and pids are reused.)
PidsNeverReissued ==
    \A i, j \in DOMAIN issued :
        i < j /\ (\A k \in i..j : issued[k] # 0) => issued[i] < issued[j]

-----------------------------------------------------------------------------
\* The abstract store, seen through a database that is down as its file.
Store == INSTANCE ProposalStore WITH
             store    <- IF dbState = "down" THEN dbFile.map ELSE proposals,
             kept     <- dbFile.map,
             returned <- issued

\* The database implements ProposalStore: deactivation and reactivation are
\* invisible, every call takes effect at once, and only a loss undoes any, back to
\* the last deactivation or to nothing.
ImplementsStore == Store!Spec
=============================================================================
