---------------------------- MODULE MCExecWait ----------------------------
(* Model-checking instances of ExecWait: programs linked at one address    *)
(* with images of different lengths above a shared one-cell stack.         *)
EXTENDS ExecWait

LinkedAt == [g \in {"long", "short"} |-> 1]
EndsAt == [long |-> 3, short |-> 2]

OneProg == {"short"}
OneLo == [g \in OneProg |-> 1]
OneHi == [g \in OneProg |-> 2]
SbrkIncrements == {-1, 1}

\* What a call depends on.  The answer of the last call is not a part of it.
CallView == <<pc, current_task, next_pid, taskVars, poolVars, mem, user_brk, exitVars, snap>>
=============================================================================
