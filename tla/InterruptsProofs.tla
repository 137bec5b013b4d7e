-------------------------- MODULE InterruptsProofs --------------------------
(***************************************************************************)
(* Proofs about the keyboard ring, the interrupt controllers and the clock    *)
(* (modules Keyboard and Interrupts), for a ring of any size, any lines, any    *)
(* width of the tick counter and any number of keys.                         *)
(***************************************************************************)
EXTENDS Interrupts, SequenceTheorems, TLAPS

-----------------------------------------------------------------------------
(* Remainders.                                                              *)

\* Division with remainder.
LEMMA DivMod ==
    ASSUME NEW x \in Int, NEW m \in Nat \ {0}
    PROVE  /\ x \div m \in Int /\ x % m \in 0 .. m - 1
           /\ x = m * (x \div m) + (x % m)
  OBVIOUS

\* Quotient and remainder are determined.
LEMMA QuotUnique ==
    ASSUME NEW m \in Nat \ {0}, NEW p \in Int, NEW q \in Int,
           NEW r \in 0 .. m - 1, NEW t \in 0 .. m - 1,
           m * p + r = m * q + t
    PROVE  p = q /\ r = t
  <1>1. CASE p < q
    <2>1. q - p \in Nat /\ q - p >= 1 BY <1>1
    <2>2. m * (q - p) >= m BY <2>1
    <2>3. m * (q - p) = m * q - m * p OBVIOUS
    <2> QED BY <2>2, <2>3
  <1>2. CASE q < p
    <2>1. p - q \in Nat /\ p - q >= 1 BY <1>2
    <2>2. m * (p - q) >= m BY <2>1
    <2>3. m * (p - q) = m * p - m * q OBVIOUS
    <2> QED BY <2>2, <2>3
  <1> QED BY <1>1, <1>2

\* So a remainder is known once it is written as one.
LEMMA ModIs ==
    ASSUME NEW x \in Int, NEW m \in Nat \ {0}, NEW q \in Int, NEW r \in 0 .. m - 1,
           x = m * q + r
    PROVE  x % m = r
  <1> DEFINE p == x \div m
             t == x % m
  <1>1. p \in Int /\ t \in 0 .. m - 1 /\ m * p + t = m * q + r BY DivMod
  <1> HIDE DEF p, t
  <1>2. t = r BY <1>1, QuotUnique
  <1> QED BY <1>2 DEF t

LEMMA ModSmall ==
    ASSUME NEW m \in Nat \ {0}, NEW x \in 0 .. m - 1
    PROVE  x % m = x
  BY ModIs, x = m * 0 + x

\* The ring's step: an index that follows a count modulo the size follows it
\* when both advance.
LEMMA ModNext ==
    ASSUME NEW m \in Nat \ {0}, NEW x \in Int
    PROVE  ((x % m) + 1) % m = (x + 1) % m
  <1> DEFINE q == x \div m
             r == x % m
             y == x + 1
  <1>1. q \in Int /\ r \in 0 .. m - 1 /\ y \in Int /\ y = m * q + (r + 1) BY DivMod
  <1>2. (r + 1) % m = y % m
    <2> HIDE DEF q, r, y
    <2>1. CASE r + 1 < m
      <3> DEFINE s == r + 1
      <3>1. s \in 0 .. m - 1 /\ y = m * q + s BY <1>1, <2>1
      <3> HIDE DEF s
      <3>2. y % m = s BY <1>1, <3>1, ModIs
      <3>3. s % m = s BY <3>1, ModSmall
      <3> QED BY <3>2, <3>3 DEF s
    <2>2. CASE r + 1 = m
      <3>1. m = m * 1 + 0 OBVIOUS
      <3>2. m % m = 0 BY <3>1, ModIs
      <3> DEFINE s == q + 1
      <3>3. s \in Int /\ y = m * s + 0 /\ 0 \in 0 .. m - 1 BY <1>1, <2>2
      <3> HIDE DEF s
      <3>4. y % m = 0 BY <1>1, <3>3, ModIs
      <3> QED BY <2>2, <3>2, <3>4
    <2> QED BY <1>1, <2>1, <2>2
  <1> QED BY <1>2

\* Two counts less than a round apart have different indices.
LEMMA ModApart ==
    ASSUME NEW m \in Nat \ {0}, NEW a \in Int, NEW b \in Int, a < b, b < a + m
    PROVE  a % m # b % m
  <1> SUFFICES ASSUME a % m = b % m PROVE FALSE OBVIOUS
  <1> DEFINE p == a \div m
             q == b \div m
  <1>1. p \in Int /\ a % m \in 0 .. m - 1 /\ a = m * p + (a % m) BY DivMod
  <1>2. q \in Int /\ b % m \in 0 .. m - 1 /\ b = m * q + (b % m) BY DivMod
  <1> HIDE DEF p, q
  <1>3. b - a = m * (q - p) BY <1>1, <1>2
  <1>4. 0 < m * (q - p) /\ m * (q - p) < m BY <1>3
  <1>5. CASE q - p <= 0
    <2>1. m * (p - q) >= 0 BY <1>5, <1>1, <1>2
    <2>2. m * (p - q) = 0 - m * (q - p) BY <1>1, <1>2
    <2> QED BY <2>1, <2>2, <1>4, <1>1, <1>2
  <1>6. CASE q - p >= 1
    <2>1. m * (q - p) >= m BY <1>6, <1>1, <1>2
    <2> QED BY <2>1, <1>4, <1>1, <1>2
  <1> QED BY <1>5, <1>6, <1>1, <1>2

\* The difference of two readings of a counter that wraps.
LEMMA ModDiff ==
    ASSUME NEW m \in Nat \ {0}, NEW a \in 0 .. m - 1, NEW b \in 0 .. m - 1
    PROVE  (a - b) % m = IF a >= b THEN a - b ELSE a - b + m
  <1>1. CASE a >= b BY <1>1, ModSmall
  <1>2. CASE a < b
    <2>1. a - b = m * (-1) + (a - b + m) OBVIOUS
    <2> QED BY <2>1, <1>2, ModIs
  <1> QED BY <1>1, <1>2

-----------------------------------------------------------------------------
(* The keyboard ring.                                                        *)

\* The type invariant.  The two indices are the two histories of advances,
\* modulo the size of the ring, and every advance of the head delivered a key.
KeyType ==
    /\ keyboard_buffer \in [Slots -> Nat] /\ buffer_count \in Nat
    /\ pc \in {"idle", "pop", "take"} /\ count_reg \in Nat
    /\ count_done \in BOOLEAN /\ char_done \in BOOLEAN /\ overrun \in BOOLEAN
    /\ pushes \in Nat /\ pops \in Nat /\ delivered \in Seq(Nat)
    /\ buffer_head = pops % Size /\ buffer_tail = pushes % Size
    /\ Len(delivered) = pops

\* The count against the unread keys at every point of a pop: the store of the
\* count and the advance of the head may come in either order, with interrupts
\* before, between and after them.
CountBound ==
    buffer_count <= Backlog + (IF char_done THEN 1 ELSE 0) - (IF count_done THEN 1 ELSE 0)

PopInv ==
    /\ CountBound
    /\ pc # "take" => ~count_done /\ ~char_done
    /\ pc = "pop" => buffer_count > 0
    /\ pc = "take" /\ ~count_done => 1 <= count_reg /\ count_reg <= buffer_count

\* The slots of the ring that were ever written hold keys, and user code was
\* given nothing else.
KeysInv ==
    /\ \A k \in 0 .. pushes - 1 : keyboard_buffer[k % Size] \in 1 .. pushes
    /\ \A i \in 1 .. pops : delivered[i] \in 1 .. pushes

\* Without an overrun the unread keys lie in the ring in their order.
RingInv ==
    ~overrun =>
       /\ Backlog <= Size
       /\ \A k \in pops .. pushes - 1 : keyboard_buffer[k % Size] = k + 1
       /\ \A i \in 1 .. pops : delivered[i] = i

KeyInv == KeyType /\ PopInv /\ KeysInv /\ RingInv

LEMMA KeyInit == Init => KeyInv
  <1> SUFFICES ASSUME Init PROVE KeyInv OBVIOUS
  <1> USE SizeAssumption
  <1>1. 0 % Size = 0 BY ModSmall
  <1>2. << >> \in Seq(Nat) /\ Len(<< >>) = 0 OBVIOUS
  <1>3. KeyType BY <1>1, <1>2 DEF Init, KeyType, NoKey
  <1>4. PopInv BY DEF Init, PopInv, CountBound, Backlog
  <1>5. KeysInv BY DEF Init, KeysInv
  <1>6. RingInv BY DEF Init, RingInv, Backlog
  <1> QED BY <1>3, <1>4, <1>5, <1>6 DEF KeyInv

\* The invariant gives the number of unread keys its bounds.
LEMMA BacklogBounds ==
    ASSUME KeyInv
    PROVE  /\ Backlog \in Nat
           /\ pc = "take" /\ ~char_done => Backlog >= 1
  BY DEF KeyInv, KeyType, PopInv, CountBound, Backlog

LEMMA SlotOfCount ==
    ASSUME NEW k \in Nat
    PROVE  k % Size \in Slots
  BY SizeAssumption, DivMod DEF Slots

\* IRQ 1, at any point of a pop.
LEMMA PushPreserves ==
    ASSUME KeyInv, Push(pushes + 1), UNCHANGED <<buffer_head, popVars, pops, delivered>>
    PROVE  KeyInv'
  <1> USE SizeAssumption
  <1>0. KeyType /\ PopInv /\ KeysInv /\ RingInv BY DEF KeyInv
  <1>u. /\ buffer_head' = buffer_head /\ pc' = pc /\ count_reg' = count_reg
        /\ count_done' = count_done /\ char_done' = char_done
        /\ pops' = pops /\ delivered' = delivered
    BY DEF popVars
  <1>1. CASE buffer_count < Size
    <2>1. /\ keyboard_buffer' = [keyboard_buffer EXCEPT ![buffer_tail] = pushes + 1]
          /\ buffer_tail' = (buffer_tail + 1) % Size
          /\ buffer_count' = buffer_count + 1
          /\ pushes' = pushes + 1
          /\ overrun' = (overrun \/ pushes + 1 - pops > Size)
      BY <1>1 DEF Push
    <2>2. buffer_tail = pushes % Size /\ pushes \in Nat /\ pops \in Nat /\ buffer_count \in Nat
          /\ keyboard_buffer \in [Slots -> Nat] /\ buffer_tail \in Slots
      BY <1>0, SlotOfCount DEF KeyType
    <2>3. buffer_tail' = pushes' % Size
      <3>0. pushes \in Int /\ Size \in Nat \ {0} BY <2>2
      <3>1. ((pushes % Size) + 1) % Size = (pushes + 1) % Size BY ONLY <3>0, ModNext, Zenon
      <3> QED BY <3>1, <2>1, <2>2
    <2>4. KeyType'
      <3>1. keyboard_buffer' \in [Slots -> Nat] BY <2>1, <2>2
      <3>2. overrun' \in BOOLEAN BY <2>1, <1>0 DEF KeyType
      <3>3. /\ buffer_count' \in Nat /\ pushes' \in Nat /\ pops' \in Nat
            /\ Len(delivered') = pops'
        BY <2>1, <2>2, <1>0, <1>u DEF KeyType
      <3>4. /\ buffer_head' = pops' % Size /\ delivered' \in Seq(Nat)
            /\ pc' \in {"idle", "pop", "take"} /\ count_reg' \in Nat
            /\ count_done' \in BOOLEAN /\ char_done' \in BOOLEAN
        BY <1>0, <1>u DEF KeyType
      <3> QED BY <3>1, <3>2, <3>3, <3>4, <2>3 DEF KeyType
    <2>5. PopInv'
      BY <1>0, <1>u, <2>1 DEF KeyType, PopInv, CountBound, Backlog
    <2>6. ASSUME NEW k \in 0 .. pushes' - 1
          PROVE  /\ keyboard_buffer'[k % Size] \in 1 .. pushes'
                 /\ k # pushes => keyboard_buffer'[k % Size] \in {keyboard_buffer[k % Size], pushes + 1}
                 /\ k = pushes => keyboard_buffer'[k % Size] = pushes + 1
                 /\ k % Size # pushes % Size => keyboard_buffer'[k % Size] = keyboard_buffer[k % Size]
      <3> DEFINE j == k % Size
      <3>0. k \in Nat /\ (k # pushes => k \in 0 .. pushes - 1) BY <2>1, <2>2
      <3>1. j \in Slots BY <3>0, SlotOfCount
      <3>2. keyboard_buffer'[j] = IF j = buffer_tail THEN pushes + 1 ELSE keyboard_buffer[j]
        BY <3>1, <2>1, <2>2
      <3>3. k # pushes => keyboard_buffer[j] \in 1 .. pushes
        BY <1>0, <3>0 DEF KeysInv
      <3>4. k = pushes => j = buffer_tail BY <2>2
      <3>5. k % Size # pushes % Size => j # buffer_tail BY <2>2
      <3> HIDE DEF j
      <3>6. /\ keyboard_buffer'[j] \in 1 .. pushes'
            /\ k # pushes => keyboard_buffer'[j] \in {keyboard_buffer[j], pushes + 1}
            /\ k = pushes => keyboard_buffer'[j] = pushes + 1
        BY <3>2, <3>3, <3>4, <2>1, <2>2
      <3>7. k % Size # pushes % Size => keyboard_buffer'[j] = keyboard_buffer[j]
        BY <3>2, <3>5
      <3> QED BY <3>6, <3>7 DEF j
    <2>7. KeysInv'
      <3>1. \A k \in 0 .. pushes' - 1 : keyboard_buffer'[k % Size] \in 1 .. pushes'
        BY <2>6
      <3>2. \A i \in 1 .. pops' : delivered'[i] \in 1 .. pushes'
        BY <1>0, <1>u, <2>1, <2>2 DEF KeysInv
      <3> QED BY <3>1, <3>2 DEF KeysInv
    <2>8. RingInv'
      <3> SUFFICES ASSUME ~overrun'
                   PROVE  /\ Backlog' <= Size
                          /\ \A k \in pops' .. pushes' - 1 : keyboard_buffer'[k % Size] = k + 1
                          /\ \A i \in 1 .. pops' : delivered'[i] = i
        BY DEF RingInv
      <3>0. ~(overrun \/ pushes + 1 - pops > Size) BY <2>1
      <3>1. ~overrun /\ pushes + 1 - pops <= Size BY <3>0, <2>2
      <3>2. Backlog' <= Size BY <3>1, <2>1, <2>2, <1>u DEF Backlog
      <3>3. ASSUME NEW k \in pops' .. pushes' - 1
            PROVE  keyboard_buffer'[k % Size] = k + 1
        <4>1. k \in 0 .. pushes' - 1 BY <1>u, <2>1, <2>2
        <4>2. CASE k = pushes BY <2>6, <4>1, <4>2
        <4>3. CASE k # pushes
          <5>1. k \in pops .. pushes - 1 /\ k < pushes /\ pushes < k + Size
            BY <4>3, <1>u, <2>1, <2>2, <3>1
          <5>2. k % Size # pushes % Size
            <6>1. k \in Int /\ pushes \in Int BY <2>2, <5>1
            <6> QED BY <6>1, <5>1, ModApart
          <5>3. keyboard_buffer[k % Size] = k + 1 BY <3>1, <5>1, <1>0 DEF RingInv
          <5> QED BY <2>6, <4>1, <5>2, <5>3
        <4> QED BY <4>2, <4>3
      <3>4. \A i \in 1 .. pops' : delivered'[i] = i BY <3>1, <1>0, <1>u DEF RingInv
      <3> QED BY <3>2, <3>3, <3>4
    <2> QED BY <2>4, <2>5, <2>7, <2>8 DEF KeyInv
  <1>2. CASE ~(buffer_count < Size)
    <2>1. UNCHANGED <<keyboard_buffer, buffer_tail, buffer_count, pushes, overrun>>
      BY <1>2 DEF Push
    <2> QED
      BY <1>0, <1>u, <2>1 DEF KeyInv, KeyType, PopInv, CountBound, KeysInv, RingInv, Backlog
  <1> QED BY <1>1, <1>2

LEMMA KeyStutter ==
    ASSUME KeyInv, UNCHANGED vars
    PROVE  KeyInv'
  BY DEF vars, ringVars, popVars, histVars, KeyInv, KeyType, PopInv, CountBound, KeysInv,
         RingInv, Backlog

LEMMA KeyIrqPreserves ==
    ASSUME KeyInv, KeyIrq
    PROVE  KeyInv'
  <1>1. UNCHANGED <<buffer_head, popVars, pops, delivered>> BY DEF KeyIrq
  <1>2. CASE Push(pushes + 1) BY <1>1, <1>2, PushPreserves
  <1>3. CASE UNCHANGED <<keyboard_buffer, buffer_tail, buffer_count, pushes, overrun>>
    <2>1. UNCHANGED vars BY <1>1, <1>3 DEF vars, ringVars, popVars, histVars
    <2> QED BY <2>1, KeyStutter
  <1> QED BY <1>2, <1>3 DEF KeyIrq

LEMMA PopCharPreserves ==
    ASSUME KeyInv, PopChar
    PROVE  KeyInv'
  <1> USE SizeAssumption
  <1>0. KeyType /\ PopInv /\ KeysInv /\ RingInv BY DEF KeyInv
  <1> DEFINE c == keyboard_buffer[buffer_head]
  <1>1. /\ pc = "take" /\ ~char_done
        /\ delivered' = Append(delivered, c)
        /\ buffer_head' = (buffer_head + 1) % Size
        /\ pops' = pops + 1 /\ char_done' = TRUE
        /\ keyboard_buffer' = keyboard_buffer /\ buffer_tail' = buffer_tail
        /\ buffer_count' = buffer_count /\ pc' = pc /\ count_reg' = count_reg
        /\ count_done' = count_done /\ pushes' = pushes /\ overrun' = overrun
    BY DEF PopChar
  <1>2. /\ pushes \in Nat /\ pops \in Nat /\ delivered \in Seq(Nat) /\ Len(delivered) = pops
        /\ buffer_head = pops % Size
    BY <1>0 DEF KeyType
  <1>3. pops <= pushes - 1 BY <1>1, <1>2, BacklogBounds DEF Backlog
  <1>4. c \in 1 .. pushes
    BY <1>0, <1>2, <1>3 DEF KeysInv
  <1>5. ~overrun => c = pops + 1
    BY <1>0, <1>2, <1>3 DEF RingInv
  <1> HIDE DEF c
  <1>6. /\ delivered' \in Seq(Nat) /\ Len(delivered') = pops + 1
        /\ delivered'[pops + 1] = c
        /\ \A i \in 1 .. pops : delivered'[i] = delivered[i]
    BY <1>1, <1>2, <1>4, AppendProperties
  <1>7. KeyType'
    <2>1. buffer_head' = pops' % Size
      <3>0. pops \in Int /\ Size \in Nat \ {0} BY <1>2
      <3>1. ((pops % Size) + 1) % Size = (pops + 1) % Size BY ONLY <3>0, ModNext, Zenon
      <3> QED BY <3>1, <1>1, <1>2
    <2>2. pops' \in Nat /\ Len(delivered') = pops' /\ delivered' \in Seq(Nat)
      BY <1>1, <1>2, <1>6
    <2>3. /\ keyboard_buffer' \in [Slots -> Nat] /\ buffer_count' \in Nat
          /\ pc' \in {"idle", "pop", "take"} /\ count_reg' \in Nat
          /\ count_done' \in BOOLEAN /\ char_done' \in BOOLEAN /\ overrun' \in BOOLEAN
          /\ pushes' \in Nat /\ buffer_tail' = pushes' % Size
      BY <1>0, <1>1 DEF KeyType
    <2> QED BY <2>1, <2>2, <2>3 DEF KeyType
  <1>8. PopInv'
    BY <1>0, <1>1, <1>2 DEF KeyType, PopInv, CountBound, Backlog
  <1>9. KeysInv'
    <2>1. \A i \in 1 .. pops' : delivered'[i] \in 1 .. pushes'
      <3> SUFFICES ASSUME NEW i \in 1 .. pops' PROVE delivered'[i] \in 1 .. pushes' OBVIOUS
      <3>1. CASE i = pops + 1 BY <3>1, <1>1, <1>4, <1>6
      <3>2. CASE i \in 1 .. pops BY <3>2, <1>0, <1>1, <1>6 DEF KeysInv
      <3> QED BY <3>1, <3>2, <1>1, <1>2
    <2> QED BY <2>1, <1>0, <1>1 DEF KeysInv
  <1>10. RingInv'
    <2> SUFFICES ASSUME ~overrun'
                 PROVE  /\ Backlog' <= Size
                        /\ \A k \in pops' .. pushes' - 1 : keyboard_buffer'[k % Size] = k + 1
                        /\ \A i \in 1 .. pops' : delivered'[i] = i
      BY DEF RingInv
    <2>1. ~overrun BY <1>1
    <2>2. Backlog' <= Size BY <2>1, <1>0, <1>1, <1>2 DEF RingInv, Backlog
    <2>3. ASSUME NEW k \in pops' .. pushes' - 1
          PROVE  keyboard_buffer'[k % Size] = k + 1
      <3>1. k \in pops .. pushes - 1 BY <1>1, <1>2
      <3> QED BY <3>1, <2>1, <1>0, <1>1 DEF RingInv
    <2>4. ASSUME NEW i \in 1 .. pops' PROVE delivered'[i] = i
      <3>1. CASE i = pops + 1 BY <3>1, <1>5, <1>6, <2>1
      <3>2. CASE i \in 1 .. pops BY <3>2, <2>1, <1>0, <1>6 DEF RingInv
      <3> QED BY <3>1, <3>2, <1>1, <1>2
    <2> QED BY <2>2, <2>3, <2>4
  <1> QED BY <1>7, <1>8, <1>9, <1>10 DEF KeyInv

\* Every step of the keyboard preserves the invariant.
LEMMA KeyStep ==
    ASSUME KeyInv, Next
    PROVE  KeyInv'
  <1>0. KeyType /\ PopInv /\ KeysInv /\ RingInv BY DEF KeyInv
  <1>1. CASE KeyIrq BY <1>1, KeyIrqPreserves
  <1>2. CASE HasData
    BY <1>0, <1>2 DEF HasData, ringVars, histVars, KeyInv, KeyType, PopInv, CountBound,
       KeysInv, RingInv, Backlog
  <1>3. CASE PopTest
    BY <1>0, <1>3 DEF PopTest, ringVars, histVars, KeyInv, KeyType, PopInv, CountBound,
       KeysInv, RingInv, Backlog
  <1>4. CASE PopCount
    BY <1>0, <1>4 DEF PopCount, histVars, KeyInv, KeyType, PopInv, CountBound,
       KeysInv, RingInv, Backlog
  <1>5. CASE PopChar BY <1>5, PopCharPreserves
  <1>6. CASE PopReturn
    <2>1. KeyType' BY <1>0, <1>6 DEF PopReturn, ringVars, histVars, KeyType
    <2>2. PopInv'
      BY <1>0, <1>6 DEF PopReturn, ringVars, histVars, KeyType, PopInv, CountBound, Backlog
    <2>3. KeysInv' /\ RingInv'
      BY <1>0, <1>6 DEF PopReturn, ringVars, histVars, KeysInv, RingInv, Backlog
    <2> QED BY <2>1, <2>2, <2>3 DEF KeyInv
  <1> QED BY <1>1, <1>2, <1>3, <1>4, <1>5, <1>6 DEF Next

-----------------------------------------------------------------------------
(* The controllers.                                                          *)

PicInv == master_isr = {} /\ slave_isr = {}

\* A single line in service is the one of the highest priority.
LEMMA EoiSingle ==
    ASSUME NEW l \in Int
    PROVE  Eoi({l}) = {}
  BY DEF Eoi

\* Whichever way irq_handler takes, nothing stays in service, and only what is
\* not spurious reaches a device.
LEMMA HandlerEnds ==
    ASSUME PicInv, NEW irq \in 0 .. 15, Irq(irq)
    PROVE  PicInv' /\ Device(irq)
  <1>1. CASE irq < 8
    <2>1. irq_handler(irq, {irq}, {}) BY <1>1 DEF Irq, PicInv
    <2>2. Device(irq) /\ slave_isr' = {} /\ master_isr' = Eoi({irq})
      BY <2>1, <1>1 DEF irq_handler, pic_eoi_master
    <2> QED BY <2>2, EoiSingle DEF PicInv
  <1>2. CASE irq >= 8
    <2>1. irq_handler(irq, {Cascade}, {irq - 8}) BY <1>2 DEF Irq, PicInv
    <2>2. Device(irq) /\ slave_isr' = Eoi({irq - 8}) /\ master_isr' = Eoi({Cascade})
      BY <2>1, <1>2 DEF irq_handler, pic_eoi_master, pic_eoi_slave
    <2>3. irq - 8 \in Int /\ Cascade \in Int BY DEF Cascade
    <2> QED BY <2>2, <2>3, EoiSingle DEF PicInv
  <1> QED BY <1>1, <1>2

LEMMA SpuriousEnds ==
    ASSUME PicInv, SpuriousMaster \/ SpuriousSlave
    PROVE  PicInv' /\ UNCHANGED <<vars, system_ticks, progVars, clockHist>>
  <1>1. CASE SpuriousMaster BY <1>1 DEF SpuriousMaster, irq_handler, PicInv
  <1>2. CASE SpuriousSlave
    <2>1. irq_handler(15, {Cascade}, {}) BY <1>2 DEF SpuriousSlave, PicInv
    <2>2. /\ master_isr' = Eoi({Cascade}) /\ slave_isr' = {}
          /\ UNCHANGED <<vars, system_ticks, progVars, clockHist>>
      BY <2>1 DEF irq_handler, pic_eoi_master
    <2>3. Eoi({Cascade}) = {} BY EoiSingle DEF Cascade
    <2> QED BY <2>2, <2>3 DEF PicInv
  <1> QED BY <1>1, <1>2

-----------------------------------------------------------------------------
(* The clock.                                                               *)

Times == 0 .. TickWrap - 1

ClockType ==
    /\ system_ticks \in Times /\ start \in Times /\ ms \in Times
    /\ prog \in {"none", "tone", "wait", "off", "time", "told"}
    /\ heard \in 0 .. Duration /\ during \subseteq Times

\* What beep computes from two readings is the time that has really passed, as
\* long as that is less than the duration; afterwards it may be anything, as the
\* counter wraps, and only a reading of less than the duration is wrong then.
BeepInv ==
    /\ prog = "wait" /\ heard < Duration => (system_ticks - start) % TickWrap = heard
    /\ prog = "off" => heard = Duration

\* gettimeofday works on one reading.
TickMicros == 1000000 \div PerSecond

TimeInv ==
    /\ prog \in {"time", "told"} => ms \in during
    /\ prog = "told" =>
          /\ tv.tv_sec = ms \div PerSecond
          /\ tv.tv_usec = (ms % PerSecond) * TickMicros

ClockInv == ClockType /\ BeepInv /\ TimeInv

LEMMA ClockStutter ==
    ASSUME ClockInv, UNCHANGED <<system_ticks, progVars, clockHist>>
    PROVE  ClockInv'
  BY DEF ClockInv, ClockType, BeepInv, TimeInv, progVars, clockHist

LEMMA WrapPositive == TickWrap \in Nat \ {0} /\ Duration \in Nat /\ Duration < TickWrap
  BY ClockAssumption, SMT

\* The tick of IRQ 0, between any two steps of a program.
LEMMA TickPreserves ==
    ASSUME ClockInv, timer_tick
    PROVE  ClockInv'
  <1> USE WrapPositive
  <1>0. ClockType /\ BeepInv /\ TimeInv BY DEF ClockInv
  <1>1. /\ system_ticks' = (system_ticks + 1) % TickWrap
        /\ heard' = IF prog = "wait" /\ heard < Duration THEN heard + 1 ELSE heard
        /\ during' = IF prog = "time" THEN during \cup {system_ticks'} ELSE during
        /\ prog' = prog /\ start' = start /\ ms' = ms /\ tv' = tv
    BY DEF timer_tick, progVars
  <1>2. system_ticks' \in Times
    <2>1. system_ticks + 1 \in Int BY <1>0 DEF ClockType, Times
    <2> QED BY <1>1, <2>1, DivMod DEF Times
  <1>3. ClockType'
    <2>1. heard' \in 0 .. Duration BY <1>0, <1>1 DEF ClockType
    <2>2. during' \subseteq Times BY <1>0, <1>1, <1>2 DEF ClockType
    <2>3. start' \in Times /\ ms' \in Times
          /\ prog' \in {"none", "tone", "wait", "off", "time", "told"}
      BY <1>0, <1>1 DEF ClockType
    <2> QED BY <2>1, <2>2, <2>3, <1>2 DEF ClockType
  <1>4. BeepInv'
    <2>1. CASE prog = "wait" /\ heard < Duration
      <3> DEFINE a == system_ticks
                 b == start
                 n == system_ticks'
      <3>1. a \in 0 .. TickWrap - 1 /\ b \in 0 .. TickWrap - 1 /\ n \in 0 .. TickWrap - 1
        BY <1>0, <1>2 DEF ClockType, Times
      <3>2. (a - b) % TickWrap = heard BY <2>1, <1>0 DEF BeepInv
      <3>3. heard = IF a >= b THEN a - b ELSE a - b + TickWrap BY <3>1, <3>2, ModDiff
      <3>4. (n - b) % TickWrap = IF n >= b THEN n - b ELSE n - b + TickWrap BY <3>1, ModDiff
      <3>5. n = IF a + 1 = TickWrap THEN 0 ELSE a + 1
        <4>1. CASE a + 1 = TickWrap
          <5>1. TickWrap = TickWrap * 1 + 0 /\ 0 \in 0 .. TickWrap - 1 OBVIOUS
          <5>2. TickWrap % TickWrap = 0 BY <5>1, ModIs
          <5> QED BY <4>1, <5>2, <1>1
        <4>2. CASE a + 1 # TickWrap
          <5>1. a + 1 \in 0 .. TickWrap - 1 BY <4>2, <3>1
          <5>2. (a + 1) % TickWrap = a + 1 BY <5>1, ModSmall
          <5> QED BY <4>2, <5>2, <1>1
        <4> QED BY <4>1, <4>2
      <3>6. heard' = heard + 1 /\ heard \in 0 .. Duration BY <2>1, <1>0, <1>1 DEF ClockType
      <3>7. (n - b) % TickWrap = heard'
        <4> HIDE DEF a, b, n
        <4> QED BY <3>1, <3>3, <3>4, <3>5, <3>6, <2>1
      <3> QED BY <3>7, <2>1, <1>1 DEF BeepInv
    <2>2. CASE ~(prog = "wait" /\ heard < Duration)
      <3>1. heard' = heard /\ prog' = prog BY <2>2, <1>1
      <3> QED BY <3>1, <2>2, <1>0 DEF BeepInv
    <2> QED BY <2>1, <2>2
  <1>5. TimeInv'
    BY <1>0, <1>1 DEF TimeInv
  <1> QED BY <1>3, <1>4, <1>5 DEF ClockInv

\* The steps of beep and of gettimeofday.
ProgramStep ==
    BeepOn \/ BeepStart \/ BeepPoll \/ BeepOff \/ TimeRead \/ TimeStore \/ TimeUsed

LEMMA ProgramPreserves ==
    ASSUME ClockInv, ProgramStep
    PROVE  ClockInv'
  <1> USE WrapPositive
  <1>0. ClockType /\ BeepInv /\ TimeInv BY DEF ClockInv
  <1>a. system_ticks' = system_ticks
    BY DEF ProgramStep, BeepOn, BeepStart, BeepPoll, BeepOff, TimeRead, TimeStore, TimeUsed,
           ProgStep
  <1>z. 0 \in Times /\ 0 \in 0 .. Duration BY DEF Times
  <1>1. CASE BeepOn
    BY <1>0, <1>1, <1>a DEF BeepOn, ProgStep, ClockInv, ClockType, BeepInv, TimeInv
  <1>2. CASE BeepStart
    <2>1. /\ prog' = "wait" /\ start' = system_ticks /\ heard' = 0
          /\ ms' = ms /\ tv' = tv /\ during' = during
      BY <1>2 DEF BeepStart, ProgStep
    <2>2. (system_ticks' - start') % TickWrap = 0
      <3>1. system_ticks' - start' = 0 BY <2>1, <1>a, <1>0 DEF ClockType, Times
      <3>2. 0 % TickWrap = 0 BY ModSmall
      <3> QED BY <3>1, <3>2
    <2>3. ClockType' BY <2>1, <1>0, <1>a, <1>z DEF ClockType
    <2>4. BeepInv' BY <2>1, <2>2 DEF BeepInv
    <2>5. TimeInv' BY <2>1 DEF TimeInv
    <2> QED BY <2>3, <2>4, <2>5 DEF ClockInv
  <1>3. CASE BeepPoll
    <2>1. /\ prog = "wait" /\ prog' = IF Elapsed THEN "off" ELSE "wait"
          /\ start' = start /\ heard' = heard /\ ms' = ms /\ tv' = tv /\ during' = during
      BY <1>3 DEF BeepPoll, ProgStep
    <2>2. heard \in 0 .. Duration BY <1>0 DEF ClockType
    <2>3. Elapsed => heard = Duration BY <2>1, <2>2, <1>0 DEF BeepInv, Elapsed
    <2>4. ClockType' BY <2>1, <1>0, <1>a DEF ClockType
    <2>5. BeepInv' BY <2>1, <2>3, <1>0, <1>a DEF BeepInv
    <2>6. TimeInv' BY <2>1 DEF TimeInv
    <2> QED BY <2>4, <2>5, <2>6 DEF ClockInv
  <1>4. CASE BeepOff
    BY <1>0, <1>4, <1>a, <1>z DEF BeepOff, ProgStep, ClockInv, ClockType, BeepInv, TimeInv
  <1>5. CASE TimeRead
    BY <1>0, <1>5, <1>a DEF TimeRead, ProgStep, ClockInv, ClockType, BeepInv, TimeInv
  <1>6. CASE TimeStore
    <2>1. /\ prog = "time" /\ prog' = "told" /\ start' = start /\ heard' = heard
          /\ ms' = ms /\ during' = during
          /\ tv' = [tv_sec |-> ms \div PerSecond,
                    tv_usec |-> (ms % PerSecond) * TickMicros]
      BY <1>6, SMT DEF TimeStore, ProgStep, TickMicros
    <2>2. /\ tv'.tv_sec = ms \div PerSecond
          /\ tv'.tv_usec = (ms % PerSecond) * TickMicros
      BY <2>1
    <2>3. ClockType' BY <2>1, <1>0, <1>a DEF ClockType
    <2>4. BeepInv' BY <2>1 DEF BeepInv
    <2>5. TimeInv' BY <2>1, <2>2, <1>0 DEF TimeInv
    <2> QED BY <2>3, <2>4, <2>5 DEF ClockInv
  <1>7. CASE TimeUsed
    BY <1>0, <1>7, <1>a, <1>z DEF TimeUsed, ProgStep, ClockInv, ClockType, BeepInv, TimeInv
  <1> QED BY <1>1, <1>2, <1>3, <1>4, <1>5, <1>6, <1>7 DEF ProgramStep

-----------------------------------------------------------------------------
(* The whole.                                                               *)

IInv == KeyInv /\ PicInv /\ ClockInv

LEMMA InvInit == IInit => IInv
  <1> SUFFICES ASSUME IInit PROVE IInv OBVIOUS
  <1>1. KeyInv BY KeyInit DEF IInit
  <1>2. PicInv BY DEF IInit, PicInv
  <1>3. ClockInv
    BY WrapPositive DEF IInit, ClockInv, ClockType, BeepInv, TimeInv, Times
  <1> QED BY <1>1, <1>2, <1>3 DEF IInv

LEMMA InvStep == IInv /\ [INext]_allVars => IInv'
  <1> SUFFICES ASSUME IInv, [INext]_allVars PROVE IInv' OBVIOUS
  <1>0. KeyInv /\ PicInv /\ ClockInv BY DEF IInv
  <1>1. ASSUME NEW irq \in Lines, Irq(irq) PROVE IInv'
    <2>1. irq \in 0 .. 15 BY ClockAssumption, SMT
    <2>2. PicInv' /\ Device(irq) BY <1>0, <1>1, <2>1, HandlerEnds
    <2>3. CASE irq = 1
      <3>1. KeyIrq /\ UNCHANGED <<system_ticks, progVars, clockHist>> BY <2>2, <2>3 DEF Device
      <3> QED BY <3>1, <2>2, <1>0, KeyIrqPreserves, ClockStutter DEF IInv
    <2>4. CASE irq = 0
      <3>1. timer_tick BY <2>2, <2>4 DEF Device
      <3>2. UNCHANGED vars BY <3>1 DEF timer_tick
      <3> QED BY <3>1, <3>2, <2>2, <1>0, KeyStutter, TickPreserves DEF IInv
    <2>5. CASE irq # 0 /\ irq # 1
      <3>1. UNCHANGED <<vars, system_ticks, progVars, clockHist>> BY <2>2, <2>5 DEF Device
      <3> QED BY <3>1, <2>2, <1>0, KeyStutter, ClockStutter DEF IInv
    <2> QED BY <2>3, <2>4, <2>5
  <1>2. CASE SpuriousMaster \/ SpuriousSlave
    <2>1. PicInv' /\ UNCHANGED <<vars, system_ticks, progVars, clockHist>>
      BY <1>0, <1>2, SpuriousEnds
    <2> QED BY <2>1, <1>0, KeyStutter, ClockStutter DEF IInv
  <1>3. CASE ProgramStep
    <2>1. UNCHANGED <<vars, picVars>>
      BY <1>3 DEF ProgramStep, BeepOn, BeepStart, BeepPoll, BeepOff, TimeRead, TimeStore,
                  TimeUsed, ProgStep
    <2>2. PicInv' BY <2>1, <1>0 DEF PicInv, picVars
    <2> QED BY <2>1, <2>2, <1>0, <1>3, KeyStutter, ProgramPreserves DEF IInv
  <1>4. CASE ReadStart \/ ReadStep
    <2>1. Next /\ UNCHANGED <<picVars, system_ticks, progVars, clockHist>>
      BY <1>4 DEF ReadStart, ReadStep, Next, Kept
    <2>2. PicInv' BY <2>1, <1>0 DEF PicInv, picVars
    <2> QED BY <2>1, <2>2, <1>0, KeyStep, ClockStutter DEF IInv
  <1>5. CASE UNCHANGED allVars
    <2>1. UNCHANGED <<vars, picVars, system_ticks, progVars, clockHist>> BY <1>5 DEF allVars
    <2>2. PicInv' BY <2>1, <1>0 DEF PicInv, picVars
    <2> QED BY <2>1, <2>2, <1>0, KeyStutter, ClockStutter DEF IInv
  <1> QED BY <1>1, <1>2, <1>3, <1>4, <1>5 DEF INext, ProgramStep

LEMMA Always == ISpec => []IInv
  BY InvInit, InvStep, PTL DEF ISpec

\* Type correctness of the ring, the controllers and the clock: the two indices
\* of the ring are its two histories modulo its size.
THEOREM TypeCorrect == ISpec => [](KeyType /\ ClockType)
  <1>1. IInv => KeyType /\ ClockType BY DEF IInv, KeyInv, ClockInv
  <1> QED BY <1>1, Always, PTL

\* For a ring of any size, wherever IRQ 1 falls in keyboard_buffer_pop and in
\* whichever order its two stores are made: the count is never above the number
\* of unread keys between system calls, and user code is given only keys that
\* were pushed.
THEOREM CountHolds == ISpec => []CountNeverOver
  <1>1. IInv => CountNeverOver
    <2> SUFFICES ASSUME KeyInv PROVE CountNeverOver BY DEF IInv
    <2>1. Backlog \in Nat BY BacklogBounds
    <2>2. pc = "idle" => 0 <= buffer_count /\ buffer_count <= Backlog
      BY <2>1 DEF KeyInv, KeyType, PopInv, CountBound
    <2>3. \A i \in 1 .. Len(delivered) : delivered[i] \in 1 .. pushes
      BY DEF KeyInv, KeyType, KeysInv
    <2> QED BY <2>1, <2>2, <2>3 DEF CountNeverOver
  <1> QED BY <1>1, Always, PTL

\* For a ring of any size: until it has taken more than Size unread keys, user
\* code is given the keys in the order they were typed, without gap.
THEOREM FifoHolds == ISpec => []FifoUnlessOverrun
  <1>1. IInv => FifoUnlessOverrun
    BY DEF IInv, KeyInv, KeyType, RingInv, FifoUnlessOverrun
  <1> QED BY <1>1, Always, PTL

\* For every set of lines and every sequence of real and spurious interrupts,
\* irq_handler leaves no line in service, so each can be delivered again.
THEOREM NoIrqBlockedHolds == ISpec => []NoIrqBlocked
  <1>1. IInv => NoIrqBlocked BY DEF IInv, PicInv, NoIrqBlocked, CanAccept
  <1> QED BY <1>1, Always, PTL

\* For every width of the counter, duration and time of the first reading, the
\* speaker is on for the whole duration.
THEOREM BeepHolds == ISpec => []BeepLongEnough
  <1>1. IInv => BeepLongEnough
    BY WrapPositive DEF IInv, ClockInv, BeepInv, BeepLongEnough
  <1> QED BY <1>1, Always, PTL

\* Seconds and the rest in a smaller unit, M of them in a second, make up one
\* reading of a counter of p steps in a second.
LEMMA WholeTime ==
    ASSUME NEW t \in Nat, NEW p \in Nat \ {0}, NEW M \in Nat, M % p = 0
    PROVE  (t \div p) * M + ((t % p) * (M \div p)) = t * (M \div p)
  <1> DEFINE q == t \div p
             r == t % p
             u == M \div p
  <1>1. q \in Int /\ r \in Int /\ t = p * q + r BY DivMod
  <1>2. u \in Int /\ M = p * u
    <2>1. u \in Int /\ M = p * u + (M % p) BY DivMod
    <2> QED BY <2>1
  <1> HIDE DEF q, r, u
  <1>3. q * M + (r * u) = t * u
    <2>1. q * (p * u) + (r * u) = (p * q + r) * u BY <1>1, <1>2
    <2> QED BY <2>1, <1>1, <1>2
  <1> QED BY <1>3 DEF q, r, u

\* For every frequency that divides a second into whole microseconds, the answer
\* of gettimeofday is the time at one moment of the call.
THEOREM TimeHolds == ISpec => []TimeIsOneMoment
  <1>1. IInv => TimeIsOneMoment
    <2> DEFINE M == 1000000
    <2> SUFFICES ASSUME IInv, prog = "told"
                 PROVE  \E t \in during :
                           tv.tv_sec * M + tv.tv_usec = t * (M \div PerSecond)
      BY SMT DEF TimeIsOneMoment
    <2>1. /\ ms \in during /\ ms \in Times
          /\ tv.tv_sec = ms \div PerSecond
          /\ tv.tv_usec = (ms % PerSecond) * TickMicros
      BY DEF IInv, ClockInv, ClockType, TimeInv
    <2>2. ms \in Nat BY <2>1 DEF Times
    <2>3. TickMicros = M \div PerSecond BY SMT DEF TickMicros
    <2>4. M \in Nat /\ PerSecond \in Nat \ {0} /\ M % PerSecond = 0 BY ClockAssumption, SMT
    <2> HIDE DEF M
    <2>5. (ms \div PerSecond) * M + ((ms % PerSecond) * (M \div PerSecond))
             = ms * (M \div PerSecond)
      BY ONLY <2>2, <2>4, WholeTime, Zenon
    <2> QED BY <2>1, <2>3, <2>5
  <1> QED BY <1>1, Always, PTL
=============================================================================
