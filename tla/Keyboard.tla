------------------------------ MODULE Keyboard ------------------------------
(***************************************************************************)
(* The keyboard ring of kernel/arch/i386/keyboard.c between its two users:   *)
(* the IRQ 1 handler, which pushes, and the getchar and read system calls,   *)
(* which pop.  The system call gate is a trap gate, so IRQ 1 can arrive      *)
(* between any two instructions of a pop; an IRQ runs to its end first.      *)
(*                                                                         *)
(* buffer_count-- is a load and a store, and since none of the variables is *)
(* volatile the compiler may store the count before or after it reads the   *)
(* character and advances buffer_head (gcc -O2 stores it before).  The model *)
(* takes either order.                                                      *)
(*                                                                         *)
(* A key is the number of its push: 1 for the first character accepted.     *)
(***************************************************************************)
EXTENDS Integers, Sequences

CONSTANTS
    Size,      \* KEYBOARD_BUFFER_SIZE
    MaxKeys    \* bound on the number of accepted keys

ASSUME SizeAssumption == Size \in Nat \ {0} /\ MaxKeys \in Nat

VARIABLES
    keyboard_buffer, buffer_head, buffer_tail, buffer_count,
    pc,         \* of the system call: idle, in keyboard_buffer_pop, returning
    count_reg,  \* register with the value of buffer_count read by pop
    count_done, \* pop has stored buffer_count
    char_done,  \* pop has read its character and advanced buffer_head
    pushes,     \* history: characters pushed
    pops,       \* history: advances of buffer_head
    delivered,  \* history: keys returned to user code, in order
    overrun     \* history: more than Size keys were in the ring at once

ringVars == <<keyboard_buffer, buffer_head, buffer_tail, buffer_count>>
popVars == <<pc, count_reg, count_done, char_done>>
histVars == <<pushes, pops, delivered, overrun>>
vars == <<ringVars, popVars, histVars>>

Slots == 0 .. Size - 1
NoKey == 0

Init ==
    /\ keyboard_buffer = [i \in Slots |-> NoKey]
    /\ buffer_head = 0 /\ buffer_tail = 0 /\ buffer_count = 0
    /\ pc = "idle" /\ count_reg = 0 /\ count_done = FALSE /\ char_done = FALSE
    /\ pushes = 0 /\ pops = 0 /\ delivered = << >> /\ overrun = FALSE

-----------------------------------------------------------------------------
(* IRQ 1.  A release, or a scancode without a character, pushes nothing.    *)
ScancodeKinds == {"release", "unmapped", "char"}

\* Mutant: a key that finds the ring full is dropped but counted.
MutantPushCounts(key) ==
    /\ buffer_count' = buffer_count + 1
    /\ IF buffer_count < Size
       THEN /\ keyboard_buffer' = [keyboard_buffer EXCEPT ![buffer_tail] = key]
            /\ buffer_tail' = (buffer_tail + 1) % Size
            /\ pushes' = pushes + 1
            /\ overrun' = (overrun \/ pushes + 1 - pops > Size)
       ELSE UNCHANGED <<keyboard_buffer, buffer_tail, pushes, overrun>>

Push(key) ==
    IF buffer_count < Size
    THEN /\ keyboard_buffer' = [keyboard_buffer EXCEPT ![buffer_tail] = key]
         /\ buffer_tail' = (buffer_tail + 1) % Size
         /\ buffer_count' = buffer_count + 1
         /\ pushes' = pushes + 1
         /\ overrun' = (overrun \/ pushes + 1 - pops > Size)
    ELSE UNCHANGED <<keyboard_buffer, buffer_tail, buffer_count, pushes, overrun>>

KeyIrq ==
    /\ pushes < MaxKeys
    /\ \E kind \in ScancodeKinds :
          IF kind = "char" THEN Push(pushes + 1)
          ELSE UNCHANGED <<keyboard_buffer, buffer_tail, buffer_count, pushes, overrun>>
    /\ UNCHANGED <<buffer_head, popVars, pops, delivered>>

-----------------------------------------------------------------------------
(* getchar, and each turn of read's loop: keyboard_buffer_has_data() and    *)
(* then keyboard_buffer_pop().                                              *)
HasData ==
    /\ pc = "idle" /\ buffer_count > 0
    /\ pc' = "pop"
    /\ UNCHANGED <<ringVars, count_reg, count_done, char_done, histVars>>

\* The test of pop, with the load of buffer_count that -- uses as well.  An
\* empty ring would return 0.
PopTest ==
    /\ pc = "pop"
    /\ count_reg' = buffer_count
    /\ pc' = IF buffer_count > 0 THEN "take" ELSE "idle"
    /\ UNCHANGED <<ringVars, count_done, char_done, histVars>>

PopCount ==
    /\ pc = "take" /\ ~count_done
    /\ buffer_count' = count_reg - 1
    /\ count_done' = TRUE
    /\ UNCHANGED <<keyboard_buffer, buffer_head, buffer_tail, pc, count_reg, char_done,
                   histVars>>

\* Mutant: pop takes the newest key.
MutantPopChar ==
    /\ pc = "take" /\ ~char_done
    /\ delivered' = Append(delivered, keyboard_buffer[(buffer_tail + Size - 1) % Size])
    /\ buffer_head' = (buffer_head + 1) % Size
    /\ pops' = pops + 1
    /\ char_done' = TRUE
    /\ UNCHANGED <<keyboard_buffer, buffer_tail, buffer_count, pc, count_reg, count_done,
                   pushes, overrun>>

PopChar ==
    /\ pc = "take" /\ ~char_done
    /\ delivered' = Append(delivered, keyboard_buffer[buffer_head])
    /\ buffer_head' = (buffer_head + 1) % Size
    /\ pops' = pops + 1
    /\ char_done' = TRUE
    /\ UNCHANGED <<keyboard_buffer, buffer_tail, buffer_count, pc, count_reg, count_done,
                   pushes, overrun>>

PopReturn ==
    /\ pc = "take" /\ count_done /\ char_done
    /\ pc' = "idle" /\ count_reg' = 0 /\ count_done' = FALSE /\ char_done' = FALSE
    /\ UNCHANGED <<ringVars, histVars>>

Next == KeyIrq \/ HasData \/ PopTest \/ PopCount \/ PopChar \/ PopReturn

\* A system call under way is resumed after every interrupt.
Spec == Init /\ [][Next]_vars /\ WF_vars(PopTest \/ PopCount \/ PopChar \/ PopReturn)

-----------------------------------------------------------------------------
(* Properties.                                                              *)

Backlog == pushes - pops

\* An interrupt inside a pop can only make the count too small, never too
\* large: between system calls buffer_count is at most the number of unread
\* keys.  So keyboard_buffer_pop never returns a slot that no key was put
\* into, buffer_head never passes buffer_tail, and a key is refused only when
\* Size unread keys are in the ring.
CountNeverOver ==
    /\ pc = "idle" => 0 <= buffer_count /\ buffer_count <= Backlog
    /\ 0 <= Backlog
    /\ \A i \in 1 .. Len(delivered) : delivered[i] \in 1 .. pushes

\* As long as the ring never took more than Size unread keys, the keys reach
\* user code in the order they were typed, each once, with no gap, wherever the
\* interrupts fall.
FifoUnlessOverrun ==
    ~overrun => \A i \in 1 .. Len(delivered) : delivered[i] = i

\* interrupt.c, system call getchar: "Return null if no data available".  When
\* the count that has_data tests is 0 there is no unread key.
NullMeansEmpty == pc = "idle" /\ buffer_count = 0 => Backlog = 0
=============================================================================
