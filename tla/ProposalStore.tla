---------------------------- MODULE ProposalStore ----------------------------
(***************************************************************************)
(* What the database promises its clients: a map from pids to proposals in *)
(* which an accepted call takes effect at once, nothing else ever changes, *)
(* and every pid returned is a new one.  There is no file, no counter and  *)
(* no restart here; only a loss takes the map back, to what was kept.      *)
(***************************************************************************)
EXTENDS Integers, Sequences

CONSTANTS Statuses, TargetLists, Images, NoImage

VARIABLES store,     \* pid -> proposal
          kept,      \* what a loss leaves of it
          returned   \* the pids storeProposal has returned, in order, and a 0
                     \* for each loss

storeVars == <<store, kept, returned>>

Nothing == [p \in {} |-> p]

Init ==
    /\ store = Nothing
    /\ kept = Nothing
    /\ returned = <<>>

SinceLoss(i) == \A k \in i..Len(returned) : returned[k] # 0

\* A new proposal under a pid greater than every pid returned since the last
\* loss.
Submit(pid, targets) ==
    /\ pid > 0
    /\ \A i \in DOMAIN returned : SinceLoss(i) => returned[i] < pid
    /\ store' = [p \in DOMAIN store \cup {pid} |->
                    IF p = pid
                    THEN [status |-> 0, targets |-> targets,
                          observations |-> [i \in 1..Len(targets) |-> NoImage]]
                    ELSE store[p]]
    /\ returned' = Append(returned, pid)
    /\ UNCHANGED kept

SetStatus(pid, status) ==
    /\ pid \in DOMAIN store
    /\ store' = [store EXCEPT ![pid].status = status]
    /\ UNCHANGED <<kept, returned>>

\* One empty slot gets an image.
Fill(pid, i, image) ==
    /\ pid \in DOMAIN store
    /\ i \in DOMAIN store[pid].observations
    /\ store[pid].observations[i] = NoImage
    /\ store' = [store EXCEPT ![pid].observations[i] = image]
    /\ UNCHANGED <<kept, returned>>

Withdraw(pids) ==
    /\ store' = [p \in DOMAIN store \ pids |-> store[p]]
    /\ UNCHANGED <<kept, returned>>

\* An orderly deactivation keeps the whole store, but not all at once.
Keep ==
    /\ kept' \in {Nothing, store}
    /\ UNCHANGED <<store, returned>>

Loss ==
    /\ store' = kept
    /\ returned' = Append(returned, 0)
    /\ UNCHANGED kept

Next ==
    \/ Keep
    \/ Loss
    \/ \E pid \in DOMAIN store' \ DOMAIN store, targets \in TargetLists :
          Submit(pid, targets)
    \/ \E pid \in DOMAIN store :
          \/ \E status \in Statuses : SetStatus(pid, status)
          \/ \E i \in DOMAIN store[pid].observations, image \in Images :
                Fill(pid, i, image)
          \/ Withdraw({pid})
    \/ Withdraw(DOMAIN store)

Spec == Init /\ [][Next]_storeVars
=============================================================================
