----------------------------- MODULE RABService -----------------------------
(***************************************************************************)
(* What the task scheduler of the rover base promises its two clients, the *)
(* operator console and the failure detection: robotic action blocks (RABs) *)
(* are executed one at a time, those of the failure detection before those *)
(* of the operator, each class in the order of arrival, every one exactly  *)
(* once, and each leaves a report that tells whether all of it was done.   *)
(* With faults a RAB may fail that could be done, and leave no report.     *)
(***************************************************************************)
EXTENDS Sequences

CONSTANTS NoRAB,         \* the service is idle
          Manual, Auto,  \* all RABs the operator, the detection may ask for
          Doable(_),     \* the base has the robots for this RAB
          Faulty         \* TRUE: robots and tables may fail

VARIABLES auto, manual,  \* the waiting RABs, the oldest first
          busy,          \* the RAB in execution or NoRAB
          reports        \* what has been reported

vars == <<auto, manual, busy, reports>>

Init == auto = <<>> /\ manual = <<>> /\ busy = NoRAB /\ reports = {}

AcceptAuto(rab) ==
    /\ auto' = Append(auto, rab)
    /\ UNCHANGED <<manual, busy, reports>>

AcceptManual(rab) ==
    /\ manual' = Append(manual, rab)
    /\ UNCHANGED <<auto, busy, reports>>

BeginAuto ==
    /\ busy = NoRAB /\ auto # <<>>
    /\ busy' = Head(auto)
    /\ auto' = Tail(auto)
    /\ UNCHANGED <<manual, reports>>

BeginManual ==
    /\ busy = NoRAB /\ auto = <<>> /\ manual # <<>>
    /\ busy' = Head(manual)
    /\ manual' = Tail(manual)
    /\ UNCHANGED <<auto, reports>>

Complete ==
    /\ busy # NoRAB
    /\ \/ reports' = reports \cup {[rab |-> busy, isSuccessful |-> Doable(busy)]}
       \/ Faulty /\ reports' = reports \cup {[rab |-> busy, isSuccessful |-> FALSE]}
       \/ Faulty /\ UNCHANGED reports
    /\ busy' = NoRAB
    /\ UNCHANGED <<auto, manual>>

Next == \/ \E rab \in Auto : AcceptAuto(rab)
        \/ \E rab \in Manual : AcceptManual(rab)
        \/ BeginAuto \/ BeginManual \/ Complete

Spec == Init /\ [][Next]_vars
=============================================================================
