---------------------------- MODULE MCInterrupts ----------------------------
(* Both controllers, a ring that wraps and overflows, a clock that wraps.    *)
EXTENDS Interrupts
=============================================================================
