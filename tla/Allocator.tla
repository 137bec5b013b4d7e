------------------------------ MODULE Allocator ------------------------------
(***************************************************************************)
(* What a client of the kernel heap may rely on: an allocation is a range   *)
(* of addresses inside the heap that overlaps no other live allocation, and  *)
(* stays so until the client gives it back.  An allocation may be refused.   *)
(***************************************************************************)
EXTENDS Integers

CONSTANT Size       \* the addresses are 0 .. Size - 1
VARIABLE ranges     \* function from the live pointers to their lengths

Init == ranges = [p \in {} |-> 0]

Fits(r, p, n) ==
    /\ p \in Nat /\ n \in Nat \ {0} /\ p + n <= Size
    /\ \A q \in DOMAIN r : p + n <= q \/ q + r[q] <= p

Without(p) == [q \in DOMAIN ranges \ {p} |-> ranges[q]]
With(r, p, n) == [q \in DOMAIN r \cup {p} |-> IF q = p THEN n ELSE r[q]]

Alloc(p, n) == Fits(ranges, p, n) /\ ranges' = With(ranges, p, n)
Release(p) == p \in DOMAIN ranges /\ ranges' = Without(p)

\* The new range may lie anywhere that is free while the old one is still held.
Move(p, q, n) ==
    /\ p \in DOMAIN ranges
    /\ Fits(ranges, q, n)
    /\ ranges' = With(Without(p), q, n)

\* In place: the range changes its length.
Resize(p, n) ==
    /\ p \in DOMAIN ranges
    /\ Fits(Without(p), p, n)
    /\ ranges' = With(ranges, p, n)

Next ==
    \/ \E q, n \in 0 .. Size : Alloc(q, n)
    \/ \E p \in DOMAIN ranges :
          Release(p) \/ \E q, n \in 0 .. Size : Move(p, q, n) \/ Resize(p, n)

Spec == Init /\ [][Next]_ranges
=============================================================================
