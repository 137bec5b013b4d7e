------------------------------ MODULE MCHeaps ------------------------------
(* Two users of a heap: an arbitrary client (KernelHeap), and the scheduler    *)
(* (TaskHeap).  A behaviour is of one of the two.                            *)
EXTENDS KernelHeap, TaskHeap

HeapsInit == Init /\ TaskInit

\* The heaps have nothing to do with each other: one of them stays as it is.
HeapsNext ==
    \/ Next /\ Idle /\ UNCHANGED taskVars
    \/ TaskNext /\ heap = EmptyHeap /\ UNCHANGED vars

HeapsSpec == HeapsInit /\ [][HeapsNext]_<<vars, taskVars>>
=============================================================================
