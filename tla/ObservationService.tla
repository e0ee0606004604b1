-------------------------- MODULE ObservationService --------------------------
(***************************************************************************)
(* What the scheduler, the telescope and the database promise together to  *)
(* an astronomer: a submitted proposal waits, is executed while no other   *)
(* one is, gets a picture of each target at most once and only during its  *)
(* execution, and is then ready for good.  Threads, flags, rounds and the  *)
(* database file do not appear.                                            *)
(***************************************************************************)
EXTENDS Integers, Sequences

CONSTANTS TargetLists, NoImage, Blank

VARIABLES book   \* pid -> proposal, the astronomers' view

InExecution == {p \in DOMAIN book : book[p].status = 1}

Init == book = [p \in {} |-> p]

Submit(p, targets) ==
    /\ p \notin DOMAIN book
    /\ book' = [q \in DOMAIN book \cup {p} |->
                   IF q = p
                   THEN [status |-> 0, targets |-> targets,
                         observations |-> [i \in 1..Len(targets) |-> NoImage]]
                   ELSE book[q]]

Begin(p) ==
    /\ InExecution = {}
    /\ book[p].status = 0
    /\ book' = [book EXCEPT ![p].status = 1]

\* The picture shows the target, or nothing if the camera was not on.
TakePicture(p, i, picture) ==
    /\ p \in InExecution
    /\ book[p].observations[i] = NoImage
    /\ picture \in {book[p].targets[i].pos, Blank}
    /\ book' = [book EXCEPT ![p].observations[i] = picture]

Complete(p) ==
    /\ p \in InExecution
    /\ book' = [book EXCEPT ![p].status = 2]

Withdraw(ps) == book' = [p \in DOMAIN book \ ps |-> book[p]]

Next ==
    \/ \E p \in DOMAIN book' \ DOMAIN book, targets \in TargetLists : Submit(p, targets)
    \/ \E p \in DOMAIN book :
          \/ Begin(p)
          \/ \E i \in DOMAIN book[p].targets :
                \E picture \in {book[p].targets[i].pos, Blank} : TakePicture(p, i, picture)
          \/ Complete(p)
          \/ Withdraw({p})
    \/ Withdraw(DOMAIN book)

Spec == Init /\ [][Next]_book
=============================================================================
