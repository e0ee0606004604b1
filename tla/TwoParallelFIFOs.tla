-------------------------- MODULE TwoParallelFIFOs --------------------------
(***************************************************************************)
(* The queue of robotic action blocks, TwoParallelFIFOs.java: one list for *)
(* the RABs of the failure detection and one for those of the operator.    *)
(* Every method is synchronized, so a call is a step.                      *)
(***************************************************************************)
EXTENDS Sequences

VARIABLES automaticFIFO, manualFIFO

fifos == <<automaticFIFO, manualFIFO>>

FIFOsInit == automaticFIFO = <<>> /\ manualFIFO = <<>>

addAutomatic(rab) ==
    /\ automaticFIFO' = Append(automaticFIFO, rab)
    /\ UNCHANGED manualFIFO

addManual(rab) ==
    /\ manualFIFO' = Append(manualFIFO, rab)
    /\ UNCHANGED automaticFIFO

hasElements == automaticFIFO # <<>> \/ manualFIFO # <<>>

\* Mutant: the manual list is asked first.
getNext_ManualFirst(rab) ==
    \/ /\ manualFIFO # <<>>
       /\ rab = Head(manualFIFO)
       /\ manualFIFO' = Tail(manualFIFO)
       /\ UNCHANGED automaticFIFO
    \/ /\ manualFIFO = <<>> /\ automaticFIFO # <<>>
       /\ rab = Head(automaticFIFO)
       /\ automaticFIFO' = Tail(automaticFIFO)
       /\ UNCHANGED manualFIFO

\* getNext() of a queue that has elements answers rab.
getNext(rab) ==
    \/ /\ automaticFIFO # <<>>
       /\ rab = Head(automaticFIFO)
       /\ automaticFIFO' = Tail(automaticFIFO)
       /\ UNCHANGED manualFIFO
    \/ /\ automaticFIFO = <<>> /\ manualFIFO # <<>>
       /\ rab = Head(manualFIFO)
       /\ manualFIFO' = Tail(manualFIFO)
       /\ UNCHANGED automaticFIFO
=============================================================================
