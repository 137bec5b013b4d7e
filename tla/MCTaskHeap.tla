---------------------------- MODULE MCTaskHeap ----------------------------
(* TaskHeap with the sizes of the kernel, and scaled down.                 *)
EXTENDS TaskHeap
=============================================================================
