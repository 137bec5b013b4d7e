---------------------------- MODULE MCKeyboard ----------------------------
(* A ring of a few slots that wraps around and overflows several times.    *)
EXTENDS Keyboard
=============================================================================
