---------------------------- MODULE PrintkProofs ----------------------------
(***************************************************************************)
(* Proofs about Printk for every format, every list of arguments long enough    *)
(* for it and buffers of any size: the loops of printk and snprintk print what   *)
(* the reference says that the format means.  The invariant is that the output   *)
(* so far and the meaning of the rest of the format are the meaning of the whole; *)
(* the lemmas before it are what the loops of the two files compute: numerals,     *)
(* fields, the texts of the directives, runs of literal characters, and what a      *)
(* buffer keeps of a text.                                                  *)
(***************************************************************************)
EXTENDS Printk, SequenceTheorems, WellFoundedInduction, TLAPS

-----------------------------------------------------------------------------
(* Functions that go along a sequence.                                      *)

\* The least element of a set of naturals.
LEMMA Smallest ==
    ASSUME NEW S \in SUBSET Nat, S # {}
    PROVE  \E m \in S : \A k \in S : m <= k
  <1>1. PICK m \in S : \A k \in S : ~(<<k, m>> \in OpToRel(<, Nat))
    BY WFMin, NatLessThanWellFounded, Zenon
  <1>2. \A k \in S : ~(k < m) BY <1>1, Zenon DEF OpToRel
  <1> QED BY <1>2

\* Induction on a set: what holds at 0 and goes on, holds everywhere.
LEMMA SetInduction ==
    ASSUME NEW S \in SUBSET Nat, 0 \in S, \A n \in S : n + 1 \in S
    PROVE  \A n \in Nat : n \in S
<1> SUFFICES ASSUME Nat \ S # {} PROVE FALSE
  OBVIOUS
<1>1. PICK m \in Nat \ S : \A k \in Nat \ S : m <= k
  BY Smallest
<1>2. m # 0 /\ m - 1 \in Nat /\ ~(m <= m - 1)
  OBVIOUS
<1>3. m - 1 \in S
  BY <1>1, <1>2
<1>4. (m - 1) + 1 = m
  OBVIOUS
<1> QED BY <1>3, <1>4

\* A step that stays in S gives a function on 0 .. n.
IsWalk(f, n, S, start, step) ==
    f \in [0 .. n -> S] /\ f[0] = start /\ \A k \in 1 .. n : f[k] = step[f[k - 1]][k]

LEMMA WalkExists ==
    ASSUME NEW n \in Nat, NEW S, NEW start \in S, NEW step \in [S -> [1 .. n -> S]]
    PROVE  \E f : IsWalk(f, n, S, start, step)
<1> DEFINE Good(m, f) == f[0] = start /\ \A k \in 1 .. m : f[k] = step[f[k - 1]][k]
           M == {m \in Nat : m <= n => \E f \in [0 .. m -> S] : Good(m, f)}
<1>1. 0 \in M
  <2> DEFINE f == [k \in 0 .. 0 |-> start]
  <2>1. f \in [0 .. 0 -> S] /\ Good(0, f)
    OBVIOUS
  <2> QED BY <2>1
<1>2. ASSUME NEW m \in M PROVE m + 1 \in M
  <2>0. m \in Nat /\ m + 1 \in Nat
    BY <1>2
  <2> SUFFICES ASSUME m + 1 <= n PROVE \E f \in [0 .. m + 1 -> S] : Good(m + 1, f)
    BY <2>0, Zenon
  <2>1. m \in Nat /\ m <= n /\ m + 1 \in 1 .. n
    BY <1>2
  <2>2. PICK f \in [0 .. m -> S] : Good(m, f)
    BY <1>2, <2>1
  <2> DEFINE g == [k \in 0 .. m + 1 |-> IF k = m + 1 THEN step[f[m]][m + 1] ELSE f[k]]
  <2>3. f[m] \in S /\ step[f[m]][m + 1] \in S
    BY <2>1
  <2>4. g \in [0 .. m + 1 -> S]
    BY <2>1, <2>3
  <2>5. ASSUME NEW k \in 1 .. m + 1 PROVE g[k] = step[g[k - 1]][k]
    <3>1. CASE k = m + 1
      BY <3>1, <2>1
    <3>2. CASE k # m + 1
      <4>1. k \in 1 .. m /\ k - 1 \in 0 .. m /\ k - 1 # m + 1 /\ k - 1 \in 0 .. m + 1
        BY <3>2, <2>1
      <4> QED BY <4>1, <3>2, <2>2
    <3> QED BY <3>1, <3>2
  <2>6. g[0] = start
    BY <2>1, <2>2
  <2> QED BY <2>4, <2>5, <2>6
<1>3. M \in SUBSET Nat
  OBVIOUS
<1> HIDE DEF M
<1>4. n \in M
  BY <1>1, <1>2, <1>3, SetInduction
<1>5. PICK f \in [0 .. n -> S] : Good(n, f)
  BY <1>4 DEF M
<1>6. IsWalk(f, n, S, start, step)
  BY <1>5 DEF IsWalk
<1> QED BY <1>6

\* A property that holds at the start and that the steps keep holds all along.
LEMMA WalkKeeps ==
    ASSUME NEW n \in Nat, NEW R,
           0 \in R, \A k \in 1 .. n : k - 1 \in R => k \in R
    PROVE  \A k \in 0 .. n : k \in R
<1> DEFINE M == {m \in Nat : m <= n => m \in R}
<1>1. 0 \in M
  OBVIOUS
<1>2. ASSUME NEW m \in M PROVE m + 1 \in M
  <2> SUFFICES ASSUME m + 1 <= n PROVE m + 1 \in R
    BY <1>2
  <2>1. m \in Nat /\ m <= n /\ m + 1 \in 1 .. n /\ (m + 1) - 1 = m
    BY <1>2
  <2> QED BY <1>2, <2>1
<1>3. M \in SUBSET Nat
  OBVIOUS
<1> HIDE DEF M
<1>4. \A m \in Nat : m \in M
  BY <1>1, <1>2, <1>3, SetInduction
<1> QED BY <1>4 DEF M

-----------------------------------------------------------------------------
(* Numbers.                                                                 *)

Sym == STRING \cup {"0", "1", "2", "3", "4", "5", "6", "7", "8", "9", "a", "b", "c", "d", "e", "f",
                    "A", "B", "C", "D", "E", "F", "-", "x", " ", "%"}
Texts == Seq(Sym)

\* The digits of a base.
IsAlphabet(base, digits) == base \in {10, 16} /\ digits \in [1 .. 16 -> Sym] /\ digits[1] = "0"

LEMMA Alphabets == /\ IsAlphabet(10, Lower) /\ IsAlphabet(16, Lower)
                   /\ IsAlphabet(10, Upper) /\ IsAlphabet(16, Upper)
<1>1. /\ {"0", "1", "2", "3", "4", "5", "6", "7", "8", "9", "a", "b", "c", "d", "e", "f",
          "A", "B", "C", "D", "E", "F"} \subseteq Sym
  BY Zenon DEF Sym
<1>2. Lower \in [1 .. 16 -> Sym] /\ Lower[1] = "0"
  BY <1>1 DEF Lower
<1>3. Upper \in [1 .. 16 -> Sym] /\ Upper[1] = "0"
  BY <1>1 DEF Upper
<1> QED BY <1>2, <1>3 DEF IsAlphabet

\* The function temp of utoa_custom.
TempOf(h, value, base, digits) ==
    h = [v \in 0 .. value |->
            IF v = 0 THEN << >> ELSE <<digits[(v % base) + 1]>> \o h[v \div base]]

LEMMA Quotient ==
    ASSUME NEW base, base \in {10, 16}, NEW v \in Nat
    PROVE  /\ v \div base \in Nat /\ v % base \in 0 .. base - 1
           /\ v = base * (v \div base) + (v % base)
           /\ v # 0 => v \div base < v
<1>1. CASE base = 10
  <2>1. v \div 10 \in Nat /\ v % 10 \in 0 .. 9 /\ v = 10 * (v \div 10) + (v % 10)
    OBVIOUS
  <2>2. v # 0 => v \div 10 < v
    OBVIOUS
  <2> QED BY <1>1, <2>1, <2>2
<1>2. CASE base = 16
  <2>1. v \div 16 \in Nat /\ v % 16 \in 0 .. 15 /\ v = 16 * (v \div 16) + (v % 16)
    OBVIOUS
  <2>2. v # 0 => v \div 16 < v
    OBVIOUS
  <2> QED BY <1>2, <2>1, <2>2
<1> QED BY <1>1, <1>2

LEMMA TempExists ==
    ASSUME NEW value \in Nat, NEW base, NEW digits, IsAlphabet(base, digits)
    PROVE  \E h \in [0 .. value -> Texts] : TempOf(h, value, base, digits)
<1> DEFINE rhs(h, v) == IF v = 0 THEN << >> ELSE <<digits[(v % base) + 1]>> \o h[v \div base]
           Good(m, h) == \A v \in 0 .. m : h[v] = rhs(h, v)
           M == {m \in Nat : m <= value => \E h \in [0 .. value -> Texts] : Good(m, h)}
<1>0. ASSUME NEW h \in [0 .. value -> Texts], NEW v \in 0 .. value PROVE rhs(h, v) \in Texts
  <2>1. CASE v = 0
    BY <2>1 DEF Texts
  <2>2. CASE v # 0
    <3>1. v \div base \in 0 .. value /\ (v % base) + 1 \in 1 .. 16
      BY <2>2, Quotient DEF IsAlphabet
    <3>2. digits[(v % base) + 1] \in Sym
      BY <3>1 DEF IsAlphabet
    <3>3. PICK c, t : c = digits[(v % base) + 1] /\ t = h[v \div base]
      OBVIOUS
    <3>4. c \in Sym /\ t \in Seq(Sym)
      BY <3>1, <3>2, <3>3 DEF Texts
    <3>5. <<c>> \o t \in Seq(Sym)
      BY <3>4, ConcatProperties
    <3> QED BY <2>2, <3>3, <3>5 DEF Texts
  <2> QED BY <2>1, <2>2
<1>1. 0 \in M
  <2> DEFINE g == [v \in 0 .. value |-> << >>]
  <2>1. << >> \in Texts
    BY DEF Texts
  <2>2. g \in [0 .. value -> Texts]
    BY <2>1
  <2>3. Good(0, g)
    OBVIOUS
  <2> QED BY <2>2, <2>3
<1>2. ASSUME NEW m \in M PROVE m + 1 \in M
  <2>0. m \in Nat /\ m + 1 \in Nat
    BY <1>2
  <2> SUFFICES ASSUME m + 1 <= value PROVE \E h \in [0 .. value -> Texts] : Good(m + 1, h)
    BY <2>0, Zenon
  <2>1. m <= value /\ m + 1 \in 0 .. value
    BY <2>0
  <2>2. PICK h \in [0 .. value -> Texts] : Good(m, h)
    BY <1>2, <2>1
  <2> DEFINE g == [v \in 0 .. value |-> IF v = m + 1 THEN rhs(h, m + 1) ELSE h[v]]
  <2>3. rhs(h, m + 1) \in Texts
    BY <1>0, <2>1
  <2>4. g \in [0 .. value -> Texts]
    <3> HIDE DEF rhs
    <3> QED BY <2>3
  <2>5. ASSUME NEW v \in 0 .. m + 1 PROVE g[v] = rhs(g, v)
    <3>1. v \in 0 .. value /\ v \in Nat
      BY <2>0, <2>1
    <3>2. v # 0 => v \div base \in 0 .. value /\ v \div base # m + 1
      BY <3>1, <2>0, <2>5, Quotient DEF IsAlphabet
    <3>3. v # 0 => g[v \div base] = h[v \div base]
      <4> HIDE DEF rhs
      <4> QED BY <3>2
    <3>4. rhs(g, v) = rhs(h, v)
      <4> HIDE DEF g
      <4> QED BY <3>3
    <3>5. g[v] = rhs(h, v)
      <4>1. CASE v = m + 1
        <5> HIDE DEF rhs
        <5> QED BY <3>1, <4>1
      <4>2. CASE v # m + 1
        <5>1. v \in 0 .. m
          BY <4>2, <2>0
        <5>2. h[v] = rhs(h, v)
          BY <2>2, <5>1
        <5> HIDE DEF rhs
        <5> QED BY <3>1, <4>2, <5>2
      <4> QED BY <4>1, <4>2
    <3> HIDE DEF g, rhs
    <3> QED BY <3>4, <3>5
  <2>6. Good(m + 1, g)
    <3> HIDE DEF g, rhs
    <3> QED BY <2>5
  <2> HIDE DEF g, Good
  <2> QED BY <2>4, <2>6
<1>3. M \in SUBSET Nat
  OBVIOUS
<1> HIDE DEF M
<1>4. value \in M
  BY <1>1, <1>2, <1>3, SetInduction
<1>5. PICK h \in [0 .. value -> Texts] : Good(value, h)
  BY <1>4 DEF M
<1>6. h = [v \in 0 .. value |-> rhs(h, v)]
  <2> HIDE DEF rhs
  <2> QED BY <1>5
<1>7. TempOf(h, value, base, digits)
  BY <1>6 DEF TempOf
<1> QED BY <1>7

LEMMA UtoaIs ==
    ASSUME NEW value \in Nat, NEW base, NEW digits, IsAlphabet(base, digits)
    PROVE  \E h : /\ TempOf(h, value, base, digits)
                  /\ utoa_custom(value, base, digits) = IF value = 0 THEN <<"0">> ELSE Reverse(h[value])
<1> DEFINE G(g) == [v \in 0 .. value |->
                       IF v = 0 THEN << >> ELSE <<digits[(v % base) + 1]>> \o g[v \div base]]
           h == CHOOSE g : g = G(g)
<1>1. PICK f : TempOf(f, value, base, digits)
  BY TempExists
<1>2. f = G(f)
  BY <1>1, Zenon DEF TempOf
<1>3. h = G(h)
  <2> HIDE DEF G
  <2> QED BY <1>2, Zenon
<1>4. TempOf(h, value, base, digits)
  BY <1>3, Zenon DEF TempOf
<1>5. utoa_custom(value, base, digits) = IF value = 0 THEN <<"0">> ELSE Reverse(h[value])
  BY Zenon DEF utoa_custom
<1> HIDE DEF h
<1> QED BY <1>4, <1>5

\* The powers of the base.
IsPower(p, n, base) == p \in [0 .. n -> Nat] /\ p[0] = 1 /\ \A k \in 1 .. n : p[k] = base * p[k - 1]

LEMMA PowerGrows ==
    ASSUME NEW base, base \in {10, 16}, NEW n \in Nat, NEW p, IsPower(p, n, base)
    PROVE  /\ \A k \in 0 .. n : p[k] \in Nat /\ p[k] >= k + 1
           /\ \A j \in 0 .. n : \A i \in 0 .. j : p[i] <= p[j]
<1>0. /\ p \in [0 .. n -> Nat] /\ p[0] = 1 /\ \A k \in 1 .. n : p[k] = base * p[k - 1]
  BY DEF IsPower
<1>1. ASSUME NEW k \in 1 .. n PROVE k - 1 \in 0 .. n /\ k \in 0 .. n /\ p[k] >= 2 * p[k - 1]
  <2>1. k - 1 \in 0 .. n /\ k \in 0 .. n
    OBVIOUS
  <2>2. PICK a, b : a = p[k - 1] /\ b = p[k]
    OBVIOUS
  <2>3. a \in Nat /\ b \in Nat /\ b = base * a
    BY <1>0, <2>1, <2>2
  <2>4. b >= 2 * a
    <3>1. base = 10 => b = 10 * a
      BY <2>3
    <3>2. base = 16 => b = 16 * a
      BY <2>3
    <3> QED BY <2>3, <3>1, <3>2
  <2> QED BY <2>1, <2>2, <2>4
<1> DEFINE R == {k \in 0 .. n : p[k] >= k + 1}
           Q == {j \in 0 .. n : \A i \in 0 .. j : p[i] <= p[j]}
<1>2. 0 \in R
  BY <1>0
<1>3. ASSUME NEW k \in 1 .. n, k - 1 \in R PROVE k \in R
  <2>1. p[k - 1] >= (k - 1) + 1 /\ p[k] >= 2 * p[k - 1] /\ k \in 0 .. n
    BY <1>1, <1>3
  <2>2. p[k - 1] \in Nat /\ p[k] \in Nat
    BY <1>0, <1>1
  <2> QED BY <2>1, <2>2
<1>4. \A k \in 0 .. n : k \in R
  <2> HIDE DEF R
  <2> QED BY ONLY n \in Nat, <1>2, <1>3, WalkKeeps
<1>5. 0 \in Q
  BY <1>0
<1>6. ASSUME NEW k \in 1 .. n, k - 1 \in Q PROVE k \in Q
  <2>1. p[k] >= 2 * p[k - 1] /\ k \in 0 .. n /\ p[k - 1] \in Nat /\ p[k] \in Nat
    BY <1>0, <1>1
  <2>2. ASSUME NEW i \in 0 .. k PROVE p[i] <= p[k]
    <3>1. CASE i = k
      BY <2>1, <3>1
    <3>2. CASE i # k
      <4>1. i \in 0 .. k - 1 /\ i \in 0 .. n
        BY <3>2
      <4>2. p[i] <= p[k - 1] /\ p[i] \in Nat
        BY <1>0, <1>6, <4>1
      <4> QED BY <2>1, <4>2
    <3> QED BY <3>1, <3>2
  <2> QED BY <2>1, <2>2
<1>7. \A k \in 0 .. n : k \in Q
  <2> HIDE DEF Q
  <2> QED BY ONLY n \in Nat, <1>5, <1>6, WalkKeeps
<1> QED BY <1>0, <1>4, <1>7

\* A quotient is the one number that fits.
LEMMA QuotientIs ==
    ASSUME NEW x \in Nat, NEW y \in Nat, y > 0, NEW w \in Nat, w * y <= x, x < w * y + y
    PROVE  x \div y = w
<1>1. PICK d \in Nat : d = x \div y
  OBVIOUS
<1>2. d * y <= x /\ x < d * y + y
  BY <1>1
<1>3. CASE d > w
  <2>1. PICK e \in Nat : d = w + 1 + e
    <3>1. d - w - 1 \in Nat /\ d = w + 1 + (d - w - 1)
      BY <1>3
    <3> QED BY <3>1
  <2>2. d * y = w * y + y + e * y /\ e * y >= 0
    BY <2>1
  <2> QED BY <1>2, <2>2
<1>4. CASE d < w
  <2>1. PICK e \in Nat : w = d + 1 + e
    <3>1. w - d - 1 \in Nat /\ w = d + 1 + (w - d - 1)
      BY <1>4
    <3> QED BY <3>1
  <2>2. w * y = d * y + y + e * y /\ e * y >= 0
    BY <2>1
  <2> QED BY <1>2, <2>2
<1> QED BY <1>1, <1>3, <1>4

LEMMA TwiceDivided ==
    ASSUME NEW base, base \in {10, 16}, NEW v \in Nat, NEW y \in Nat, y > 0
    PROVE  (v \div base) \div y = v \div (base * y)
<1>1. PICK q \in Nat, r \in Nat : /\ q = v \div base /\ r = v % base /\ v = base * q + r /\ r < base
  BY Quotient
<1>2. PICK w \in Nat : w = q \div y
  OBVIOUS
<1>3. w * y <= q /\ q < w * y + y
  BY <1>2
<1>4. PICK z : z = w * y
  OBVIOUS
<1>5. z \in Nat
  BY <1>4
<1>6. /\ base * y \in Nat /\ base * y > 0 /\ w * (base * y) = base * z
  <2>1. CASE base = 10
    BY <1>4, <1>5, <2>1
  <2>2. CASE base = 16
    BY <1>4, <1>5, <2>2
  <2> QED BY <2>1, <2>2
<1>7. base * z <= v /\ v < base * z + base * y
  <2>1. z <= q /\ q + 1 <= z + y
    BY <1>3, <1>4, <1>5
  <2>2. CASE base = 10
    BY <1>1, <1>5, <2>1, <2>2
  <2>3. CASE base = 16
    BY <1>1, <1>5, <2>1, <2>3
  <2> QED BY <2>2, <2>3
<1>8. v \div (base * y) = w
  <2>1. PICK by : by = base * y
    OBVIOUS
  <2>2. by \in Nat /\ by > 0 /\ w * by <= v /\ v < w * by + by
    BY <1>6, <1>7, <2>1
  <2>3. v \div by = w
    BY <2>2, QuotientIs
  <2> QED BY <2>1, <2>3
<1> QED BY <1>1, <1>2, <1>8

\* The digits of v, the lowest first.
DigitsOf(t, v, p, base, digits) ==
    /\ t \in Texts /\ Len(t) \in 1 .. v
    /\ p[Len(t) - 1] <= v /\ v < p[Len(t)]
    /\ \A i \in 1 .. Len(t) : t[i] = digits[((v \div p[i - 1]) % base) + 1]

LEMMA OneDigit ==
    ASSUME NEW base, NEW digits, IsAlphabet(base, digits), NEW n \in Nat, NEW p, IsPower(p, n, base),
           NEW v \in 1 .. n, v \div base = 0
    PROVE  DigitsOf(<<digits[(v % base) + 1]>>, v, p, base, digits)
<1>1. base \in {10, 16} /\ v \in Nat
  BY DEF IsAlphabet
<1>2. v % base \in 0 .. base - 1 /\ v = base * (v \div base) + (v % base)
  BY <1>1, Quotient
<1>3. PICK c : c = digits[(v % base) + 1]
  OBVIOUS
<1>4. (v % base) + 1 \in 1 .. 16
  BY <1>1, <1>2
<1>5. c \in Sym
  BY <1>3, <1>4 DEF IsAlphabet
<1>6. /\ <<c>> \in Texts /\ Len(<<c>>) = 1 /\ <<c>>[1] = c
  BY <1>5 DEF Texts
<1>7. p[0] = 1 /\ p[1] = base * p[0]
  <2>1. 1 \in 1 .. n /\ 1 - 1 = 0
    OBVIOUS
  <2> QED BY <2>1 DEF IsPower
<1>8. p[1] = base
  BY <1>1, <1>7
<1>9. v < base
  BY <1>1, <1>2
<1>10. v \div 1 = v
  BY <1>1
<1>11. \A i \in 1 .. 1 : <<c>>[i] = digits[((v \div p[i - 1]) % base) + 1]
  <2>1. <<c>>[1] = digits[((v \div p[1 - 1]) % base) + 1]
    BY <1>3, <1>6, <1>7, <1>10
  <2> QED BY <2>1
<1>12. DigitsOf(<<c>>, v, p, base, digits)
  <2>1. PICK t : t = <<c>>
    OBVIOUS
  <2>2. t \in Texts /\ Len(t) = 1 /\ \A i \in 1 .. 1 : t[i] = digits[((v \div p[i - 1]) % base) + 1]
    BY <1>6, <1>11, <2>1
  <2>3. p[1 - 1] <= v /\ v < p[1] /\ 1 \in 1 .. v
    BY <1>7, <1>8, <1>9
  <2> QED BY <2>1, <2>2, <2>3 DEF DigitsOf
<1> QED BY <1>3, <1>12

LEMMA MoreDigits ==
    ASSUME NEW base, NEW digits, IsAlphabet(base, digits), NEW n \in Nat, NEW p, IsPower(p, n, base),
           NEW v \in 1 .. n, v < n, NEW q, q = v \div base, q # 0, NEW t, DigitsOf(t, q, p, base, digits)
    PROVE  DigitsOf(<<digits[(v % base) + 1]>> \o t, v, p, base, digits)
<1>1. base \in {10, 16} /\ v \in Nat
  BY DEF IsAlphabet
<1>2. q \in Nat /\ v % base \in 0 .. base - 1 /\ v = base * q + (v % base) /\ q < v
  BY <1>1, Quotient
<1>3. PICK c : c = digits[(v % base) + 1]
  OBVIOUS
<1>4. (v % base) + 1 \in 1 .. 16
  BY <1>1, <1>2
<1>5. c \in Sym
  BY <1>3, <1>4 DEF IsAlphabet
<1>6. PICK l : l = Len(t)
  OBVIOUS
<1>7. /\ t \in Seq(Sym) /\ l \in 1 .. q /\ p[l - 1] <= q /\ q < p[l]
      /\ \A i \in 1 .. l : t[i] = digits[((q \div p[i - 1]) % base) + 1]
  BY <1>6 DEF DigitsOf, Texts
<1>8. PICK u : u = <<c>> \o t
  OBVIOUS
<1>9. /\ <<c>> \in Seq(Sym) /\ Len(<<c>>) = 1 /\ <<c>>[1] = c
  BY <1>5
<1>10. /\ u \in Texts /\ Len(u) = l + 1 /\ u[1] = c
       /\ \A i \in 1 .. l : u[i + 1] = t[i]
  <2>1. /\ u \in Seq(Sym) /\ Len(u) = 1 + l /\ l \in Nat
    BY <1>6, <1>7, <1>8, <1>9, ConcatProperties
  <2>2. u[1] = c
    BY <1>6, <1>7, <1>8, <1>9
  <2>3. \A i \in 1 .. l : u[i + 1] = t[i]
    BY <1>6, <1>7, <1>8, <1>9
  <2> QED BY <2>1, <2>2, <2>3 DEF Texts
<1>11. l \in Nat /\ l + 1 \in 1 .. v /\ l \in 1 .. n /\ l + 1 \in 1 .. n
  BY <1>2, <1>7
<1>12. p[0] = 1 /\ p[l] = base * p[l - 1] /\ p[l + 1] = base * p[l]
  <2>1. (l + 1) - 1 = l
    BY <1>11
  <2> QED BY <1>11, <2>1 DEF IsPower
<1>13. p[l] \in Nat /\ p[l - 1] \in Nat /\ p[l + 1] \in Nat
  <2>1. l \in 0 .. n /\ l - 1 \in 0 .. n /\ l + 1 \in 0 .. n
    BY <1>11
  <2> QED BY <2>1 DEF IsPower
<1>14. p[l] <= v /\ v < p[l + 1]
  <2>1. PICK a, b, d : a = p[l - 1] /\ b = p[l] /\ d = p[l + 1]
    OBVIOUS
  <2>2. a \in Nat /\ b \in Nat /\ d \in Nat /\ a <= q /\ q < b /\ b = base * a /\ d = base * b
    BY <1>7, <1>12, <1>13, <2>1
  <2>3. PICK r \in Nat : r = v % base /\ r < base
    BY <1>1, <1>2
  <2>4. v = base * q + r
    BY <1>2, <2>3
  <2>5. CASE base = 10
    BY <1>2, <2>1, <2>2, <2>3, <2>4, <2>5
  <2>6. CASE base = 16
    BY <1>2, <2>1, <2>2, <2>3, <2>4, <2>6
  <2> QED BY <1>1, <2>5, <2>6
<1>15. ASSUME NEW i \in 1 .. l + 1
       PROVE  u[i] = digits[((v \div p[i - 1]) % base) + 1]
  <2>1. CASE i = 1
    <3>1. v \div p[i - 1] = v
      BY <1>1, <1>12, <2>1
    <3> QED BY <1>3, <1>10, <2>1, <3>1
  <2>2. CASE i # 1
    <3>1. PICK j : j = i - 1
      OBVIOUS
    <3>2. j \in 1 .. l /\ i = j + 1 /\ j \in 1 .. n /\ j - 1 \in 0 .. n
      BY <1>11, <2>2, <3>1
    <3>3. u[i] = t[j]
      BY <1>10, <3>2
    <3>4. p[j] = base * p[j - 1] /\ p[j - 1] \in Nat
      BY <3>2 DEF IsPower
    <3>5. p[j - 1] > 0
      <4>1. p[j - 1] >= (j - 1) + 1
        BY <1>1, <3>2, PowerGrows
      <4> QED BY <3>2, <3>4, <4>1
    <3>6. PICK y \in Nat : y = p[j - 1] /\ y > 0
      BY <3>4, <3>5
    <3>7. (v \div base) \div y = v \div (base * y)
      <4>1. base \in {10, 16} /\ v \in Nat /\ y \in Nat /\ y > 0
        BY <1>1, <3>6
      <4> QED BY ONLY <4>1, TwiceDivided
    <3>8. q \div p[j - 1] = v \div p[j]
      BY <3>4, <3>6, <3>7
    <3> QED BY <1>7, <3>1, <3>2, <3>3, <3>8
  <2> QED BY <2>1, <2>2
<1>16. DigitsOf(u, v, p, base, digits)
  <2>1. Len(u) - 1 = l
    BY <1>10, <1>11
  <2> QED BY <1>10, <1>11, <1>14, <1>15, <2>1 DEF DigitsOf
<1> QED BY <1>3, <1>8, <1>16

LEMMA TempDigits ==
    ASSUME NEW base, NEW digits, IsAlphabet(base, digits), NEW value \in Nat, NEW h,
           TempOf(h, value, base, digits), NEW p, IsPower(p, value + 1, base)
    PROVE  \A v \in 1 .. value : DigitsOf(h[v], v, p, base, digits)
<1> DEFINE M == {m \in Nat : \A v \in 1 .. m : v <= value => DigitsOf(h[v], v, p, base, digits)}
<1>0. base \in {10, 16}
  BY DEF IsAlphabet
<1>1. 0 \in M
  OBVIOUS
<1>2. ASSUME NEW m \in M PROVE m + 1 \in M
  <2>0. m \in Nat /\ m + 1 \in Nat
    BY <1>2
  <2>1. ASSUME NEW v \in 1 .. m + 1, v <= value PROVE DigitsOf(h[v], v, p, base, digits)
    <3>0. v \in Nat /\ v # 0 /\ v \in 0 .. value /\ v \in 1 .. value + 1 /\ v < value + 1
      BY <2>0, <2>1
    <3>1. CASE v <= m
      <4>1. v \in 1 .. m
        BY <2>0, <2>1, <3>1
      <4> QED BY <1>2, <2>1, <4>1
    <3>2. CASE ~(v <= m)
      <4>1. PICK q : q = v \div base
        OBVIOUS
      <4>2. q \in Nat /\ q < v
        BY <1>0, <3>0, <4>1, Quotient
      <4>3. h[v] = <<digits[(v % base) + 1]>> \o h[q]
        BY <3>0, <4>1, Zenon DEF TempOf
      <4>4. CASE q = 0
        <5>1. 0 \in 0 .. value
          BY <3>0
        <5>2. h[q] = << >>
          BY <4>4, <5>1, Zenon DEF TempOf
        <5>3. DigitsOf(<<digits[(v % base) + 1]>>, v, p, base, digits)
          BY <3>0, <4>1, <4>4, OneDigit
        <5>4. PICK c : c = digits[(v % base) + 1]
          OBVIOUS
        <5>5. <<c>> \o << >> = <<c>>
          OBVIOUS
        <5> QED BY <4>3, <5>2, <5>3, <5>4, <5>5, Zenon
      <4>5. CASE q # 0
        <5>1. q \in 1 .. m /\ q <= value
          BY <2>0, <2>1, <3>0, <4>2, <4>5
        <5>2. DigitsOf(h[q], q, p, base, digits)
          BY <1>2, <5>1
        <5>3. DigitsOf(<<digits[(v % base) + 1]>> \o h[q], v, p, base, digits)
          BY <3>0, <4>1, <4>5, <5>2, MoreDigits
        <5> QED BY <4>3, <5>3, Zenon
      <4> QED BY <4>4, <4>5
    <3> QED BY <3>1, <3>2
  <2> QED BY <2>0, <2>1
<1>3. M \in SUBSET Nat
  OBVIOUS
<1> HIDE DEF M
<1>4. value \in M
  BY <1>1, <1>2, <1>3, SetInduction
<1>5. \A v \in 1 .. value : v <= value => DigitsOf(h[v], v, p, base, digits)
  BY <1>4 DEF M
<1> QED BY <1>5

\* A numeral by powers p.
NumeralBy(p, value, base, digits) ==
    LET n == CHOOSE k \in 1 .. value + 1 : value < p[k] /\ (k > 1 => value >= p[k - 1])
    IN  [k \in 1 .. n |-> digits[((value \div p[n - k]) % base) + 1]]

\* The function power of the reference.
LEMMA NumeralIs ==
    ASSUME NEW value \in Nat, NEW base, base \in {10, 16}, NEW digits
    PROVE  \E p : /\ IsPower(p, value + 1, base)
                  /\ Numeral(value, base, digits) = NumeralBy(p, value, base, digits)
<1> DEFINE n == value + 1
           G(f) == [k \in 0 .. n |-> IF k = 0 THEN 1 ELSE base * f[k - 1]]
           step == [a \in Nat |-> [k \in 1 .. n |-> base * a]]
           walk == CHOOSE f : f = G(f)
<1>1. n \in Nat /\ base \in Nat /\ \A a \in Nat : base * a \in Nat
  OBVIOUS
<1>2. Numeral(value, base, digits) = NumeralBy(walk, value, base, digits)
  BY Zenon DEF Numeral, NumeralBy
<1> HIDE DEF n
<1>3. step \in [Nat -> [1 .. n -> Nat]]
  BY <1>1
<1>4. PICK f : /\ f \in [0 .. n -> Nat] /\ f[0] = 1
               /\ \A k \in 1 .. n : f[k] = step[f[k - 1]][k]
  <2> HIDE DEF step
  <2>1. PICK m, st, one : m = n /\ st = step /\ one = 1
    OBVIOUS
  <2>2. m \in Nat /\ one \in Nat /\ st \in [Nat -> [1 .. m -> Nat]]
    BY <2>1, <1>1, <1>3
  <2>3. PICK f : IsWalk(f, m, Nat, one, st)
    BY ONLY <2>2, WalkExists
  <2>4. f \in [0 .. m -> Nat] /\ f[0] = one /\ \A k \in 1 .. m : f[k] = st[f[k - 1]][k]
    BY <2>3, Zenon DEF IsWalk
  <2>5. f \in [0 .. n -> Nat] /\ f[0] = 1 /\ \A k \in 1 .. n : f[k] = step[f[k - 1]][k]
    BY <2>1, <2>4, Zenon
  <2> QED BY <2>5, Zenon
<1>5. ASSUME NEW k \in 1 .. n PROVE f[k] = base * f[k - 1]
  <2>1. k - 1 \in 0 .. n
    BY <1>1
  <2>2. f[k - 1] \in Nat
    BY <2>1, <1>4
  <2>3. step[f[k - 1]][k] = base * f[k - 1]
    BY <2>2
  <2> QED BY <1>4, <2>3
<1>6. f = G(f)
  <2>1. ASSUME NEW k \in 0 .. n PROVE f[k] = G(f)[k]
    <3>1. CASE k = 0
      BY <3>1, <1>4
    <3>2. CASE k # 0
      <4>1. k \in 1 .. n
        BY <3>2, <1>1
      <4>2. G(f)[k] = base * f[k - 1]
        BY <3>2, Zenon
      <4> QED BY <4>1, <4>2, <1>5, Zenon
    <3> QED BY <3>1, <3>2
  <2>2. f = [k \in 0 .. n |-> f[k]] /\ G(f) = [k \in 0 .. n |-> G(f)[k]]
    BY <1>4
  <2> HIDE DEF G
  <2> QED BY <2>1, <2>2, Zenon
<1>7. walk = G(walk)
  <2> HIDE DEF G
  <2> QED BY <1>6, Zenon DEF walk
<1> HIDE DEF walk
<1>8. walk[0] = 1 /\ \A k \in 1 .. n : walk[k] = base * walk[k - 1]
  <2>1. 0 \in 0 .. n /\ \A k \in 1 .. n : k \in 0 .. n /\ k # 0
    BY <1>1
  <2>2. ASSUME NEW k \in 0 .. n PROVE walk[k] = IF k = 0 THEN 1 ELSE base * walk[k - 1]
    BY <1>7, Zenon
  <2> QED BY <2>1, <2>2, Zenon
<1> DEFINE R == {k \in 0 .. n : walk[k] \in Nat}
<1>9. 0 \in R
  BY <1>1, <1>8
<1>10. ASSUME NEW k \in 1 .. n, k - 1 \in R PROVE k \in R
  <2>1. walk[k - 1] \in Nat /\ k \in 0 .. n
    BY <1>1, <1>10
  <2>2. walk[k] = base * walk[k - 1]
    BY <1>8
  <2>3. base * walk[k - 1] \in Nat
    BY <1>1, <2>1
  <2> QED BY <2>1, <2>2, <2>3
<1>11. \A k \in 0 .. n : k \in R
  <2> HIDE DEF R
  <2> QED BY ONLY <1>1, <1>9, <1>10, WalkKeeps
<1>12. walk \in [0 .. n -> Nat]
  <2>1. walk = [k \in 0 .. n |-> walk[k]]
    BY <1>7, Zenon
  <2> QED BY <1>11, <2>1
<1>13. IsPower(walk, n, base)
  BY <1>8, <1>12, Zenon DEF IsPower
<1> QED BY <1>2, <1>13, Zenon DEF n

\* The loop of divisions gives the numeral.
LEMMA UtoaMeans ==
    ASSUME NEW value \in Nat, NEW base, NEW digits, IsAlphabet(base, digits)
    PROVE  /\ utoa_custom(value, base, digits) = Numeral(value, base, digits)
           /\ utoa_custom(value, base, digits) \in Texts
<1>0. base \in {10, 16} /\ digits \in [1 .. 16 -> Sym] /\ digits[1] = "0"
  BY DEF IsAlphabet
<1>1. PICK h : /\ TempOf(h, value, base, digits)
               /\ utoa_custom(value, base, digits) = IF value = 0 THEN <<"0">> ELSE Reverse(h[value])
  BY UtoaIs
<1>2. PICK p : /\ IsPower(p, value + 1, base)
               /\ Numeral(value, base, digits) = NumeralBy(p, value, base, digits)
  BY <1>0, NumeralIs
<1> DEFINE C(k) == value < p[k] /\ (k > 1 => value >= p[k - 1])
<1>3. PICK n : n = CHOOSE k \in 1 .. value + 1 : C(k)
  OBVIOUS
<1>4. Numeral(value, base, digits) = [k \in 1 .. n |-> digits[((value \div p[n - k]) % base) + 1]]
  BY <1>2, <1>3 DEF NumeralBy
<1>5. /\ \A k \in 0 .. value + 1 : p[k] \in Nat /\ p[k] >= k + 1
      /\ \A j \in 0 .. value + 1 : \A i \in 0 .. j : p[i] <= p[j]
  <2>1. PICK m : m = value + 1
    OBVIOUS
  <2>2. m \in Nat /\ IsPower(p, m, base) /\ base \in {10, 16}
    BY <1>0, <1>2, <2>1
  <2>3. /\ \A k \in 0 .. m : p[k] \in Nat /\ p[k] >= k + 1
        /\ \A j \in 0 .. m : \A i \in 0 .. j : p[i] <= p[j]
    BY ONLY <2>2, PowerGrows
  <2> QED BY <2>1, <2>3
<1>6. ASSUME NEW i \in 1 .. value + 1, NEW j \in 1 .. value + 1, C(i), C(j), i < j PROVE FALSE
  <2>1. j > 1 /\ i \in 0 .. j - 1 /\ j - 1 \in 0 .. value + 1 /\ i \in 0 .. value + 1
    BY <1>6
  <2>2. p[i] <= p[j - 1] /\ p[i] \in Nat /\ p[j - 1] \in Nat
    BY <1>5, <2>1
  <2>3. value < p[i] /\ value >= p[j - 1]
    BY <1>6, <2>1
  <2> QED BY <2>2, <2>3
<1>7. ASSUME NEW l \in 1 .. value + 1, C(l) PROVE n = l
  <2>1. n \in 1 .. value + 1 /\ C(n)
    <3> HIDE DEF C
    <3> QED BY <1>3, <1>7
  <2>2. ~(n < l) /\ ~(l < n)
    BY <1>6, <1>7, <2>1
  <2> QED BY <2>1, <2>2
<1>8. CASE value = 0
  <2>1. C(1)
    <3>1. 1 \in 0 .. value + 1
      BY <1>8
    <3>2. p[1] \in Nat /\ p[1] >= 1 + 1
      BY <1>5, <3>1
    <3> QED BY <1>8, <3>2
  <2>2. n = 1
    BY <1>7, <1>8, <2>1
  <2>3. p[0] = 1
    BY <1>2 DEF IsPower
  <2>4. ((0 \div 1) % base) + 1 = 1
    <3>1. base = 10 => ((0 \div 1) % 10) + 1 = 1
      OBVIOUS
    <3>2. base = 16 => ((0 \div 1) % 16) + 1 = 1
      OBVIOUS
    <3> QED BY <1>0, <3>1, <3>2
  <2>5. \A k \in 1 .. 1 : digits[((value \div p[1 - k]) % base) + 1] = "0"
    <3>1. digits[((value \div p[0]) % base) + 1] = "0"
      BY <1>0, <1>8, <2>3, <2>4
    <3>2. \A k \in 1 .. 1 : 1 - k = 0
      OBVIOUS
    <3> QED BY <3>1, <3>2
  <2>6. Numeral(value, base, digits) = [k \in 1 .. 1 |-> "0"]
    BY <1>4, <2>2, <2>5
  <2>7. [k \in 1 .. 1 |-> "0"] = <<"0">>
    OBVIOUS
  <2>8. utoa_custom(value, base, digits) = <<"0">>
    BY <1>1, <1>8
  <2>9. "0" \in Sym
    BY Zenon DEF Sym
  <2>10. <<"0">> \in Texts
    BY <2>9 DEF Texts
  <2> QED BY <2>6, <2>7, <2>8, <2>10
<1>9. CASE value # 0
  <2>1. value \in 1 .. value
    BY <1>9
  <2>2. PICK t : t = h[value]
    OBVIOUS
  <2>3. DigitsOf(t, value, p, base, digits)
    BY <1>1, <1>2, <2>1, <2>2, TempDigits
  <2>4. PICK l : l = Len(t)
    OBVIOUS
  <2>5. /\ t \in Seq(Sym) /\ l \in 1 .. value /\ p[l - 1] <= value /\ value < p[l]
        /\ \A i \in 1 .. l : t[i] = digits[((value \div p[i - 1]) % base) + 1]
    BY <2>3, <2>4 DEF DigitsOf, Texts
  <2>6. C(l) /\ l \in 1 .. value + 1
    <3>1. l - 1 \in 0 .. value + 1 /\ l \in 1 .. value + 1
      BY <2>5
    <3>2. p[l - 1] \in Nat
      BY <1>5, <3>1
    <3> QED BY <2>5, <3>1, <3>2
  <2>7. n = l
    BY <1>7, <2>6
  <2>8. Reverse(t) = [i \in 1 .. l |-> t[(l - i) + 1]]
    BY <2>4 DEF Reverse
  <2>9. ASSUME NEW i \in 1 .. l
        PROVE  /\ t[(l - i) + 1] = digits[((value \div p[l - i]) % base) + 1]
               /\ t[(l - i) + 1] \in Sym
    <3>1. (l - i) + 1 \in 1 .. l /\ ((l - i) + 1) - 1 = l - i
      BY <2>5
    <3> QED BY <2>4, <2>5, <3>1
  <2>10. Reverse(t) = [i \in 1 .. l |-> digits[((value \div p[l - i]) % base) + 1]]
    BY <2>8, <2>9
  <2>11. Reverse(t) \in Texts
    <3>1. l \in Nat
      BY <2>5
    <3> QED BY <2>8, <2>9, <3>1 DEF Texts
  <2> QED BY <1>1, <1>4, <1>9, <2>2, <2>7, <2>10, <2>11
<1> QED BY <1>8, <1>9

\* A field: the sign, the padding that is left for, and the number.
LEMMA FieldIs ==
    ASSUME NEW sign \in Texts, NEW t \in Texts, NEW width \in Int, NEW pad \in Sym
    PROVE  /\ Field(sign, t, width, pad) \in Texts
           /\ Field(sign, t, width, pad) =
                 IF width - Len(sign) > Len(t)
                 THEN sign \o ([k \in 1 .. (width - Len(sign)) - Len(t) |-> pad] \o t)
                 ELSE sign \o t
<1> DEFINE n == width - Len(sign) - Len(t)
           z == IF n > 0 THEN n ELSE 0
           ps == [k \in 1 .. z |-> pad]
<1>1. sign \in Seq(Sym) /\ t \in Seq(Sym) /\ Len(sign) \in Nat /\ Len(t) \in Nat
  BY DEF Texts
<1>2. n \in Int /\ z \in Nat
  BY <1>1
<1>3. Field(sign, t, width, pad) = (sign \o ps) \o t
  BY DEF Field
<1> HIDE DEF z
<1>4. ps \in Seq(Sym)
  BY <1>2
<1> HIDE DEF ps
<1>5. (sign \o ps) \o t = sign \o (ps \o t)
  BY ONLY <1>1, <1>4, ConcatAssociative, SMT
<1>6. (sign \o ps) \o t \in Seq(Sym)
  <2>1. sign \o ps \in Seq(Sym)
    BY <1>1, <1>4, ConcatProperties
  <2> QED BY <1>1, <2>1, ConcatProperties
<1>7. CASE width - Len(sign) > Len(t)
  <2>1. z = (width - Len(sign)) - Len(t)
    BY <1>1, <1>7 DEF z
  <2> QED BY <1>3, <1>5, <1>6, <1>7, <2>1 DEF Texts, ps
<1>8. CASE ~(width - Len(sign) > Len(t))
  <2>1. z = 0
    BY <1>1, <1>8 DEF z
  <2>2. ps = << >>
    BY <2>1 DEF ps
  <2>3. << >> \o t = t
    BY <1>1
  <2> QED BY <1>3, <1>5, <1>6, <1>8, <2>2, <2>3 DEF Texts
<1> QED BY <1>7, <1>8

LEMMA PaddedMeans ==
    ASSUME NEW value \in Nat, NEW base, NEW digits, IsAlphabet(base, digits),
           NEW sign \in Texts, NEW width \in Int, NEW w, w = width - Len(sign), NEW pad \in Sym
    PROVE  /\ sign \o utoa_padded_custom(value, base, digits, w, pad) =
                 Field(sign, Numeral(value, base, digits), width, pad)
           /\ sign \o utoa_padded_custom(value, base, digits, w, pad) \in Texts
<1>1. PICK t : t = utoa_custom(value, base, digits)
  OBVIOUS
<1>2. t = Numeral(value, base, digits) /\ t \in Texts
  BY <1>1, UtoaMeans
<1>3. Len(t) \in Nat /\ Len(sign) \in Nat
  BY <1>2 DEF Texts
<1>4. w \in Int /\ (w > Len(t) => w > 0)
  BY <1>3
<1>5. utoa_padded_custom(value, base, digits, w, pad) =
        IF w > Len(t) THEN [k \in 1 .. w - Len(t) |-> pad] \o t ELSE t
  BY <1>1, <1>4 DEF utoa_padded_custom
<1>6. PICK u : u = utoa_padded_custom(value, base, digits, w, pad)
  OBVIOUS
<1>7. /\ Field(sign, t, width, pad) \in Texts
      /\ Field(sign, t, width, pad) =
            IF w > Len(t) THEN sign \o ([k \in 1 .. w - Len(t) |-> pad] \o t) ELSE sign \o t
  BY <1>2, FieldIs
<1>8. sign \o u = Field(sign, t, width, pad)
  <2>1. CASE w > Len(t)
    BY <1>5, <1>6, <1>7, <2>1, Zenon
  <2>2. CASE ~(w > Len(t))
    BY <1>5, <1>6, <1>7, <2>2, Zenon
  <2> QED BY <2>1, <2>2
<1> QED BY <1>2, <1>6, <1>7, <1>8

LEMMA PlainMeans ==
    ASSUME NEW value \in Nat, NEW base, NEW digits, IsAlphabet(base, digits),
           NEW sign \in Texts, NEW pad \in Sym
    PROVE  /\ sign \o utoa_custom(value, base, digits) =
                 Field(sign, Numeral(value, base, digits), 0, pad)
           /\ sign \o utoa_custom(value, base, digits) \in Texts
<1>1. PICK t : t = utoa_custom(value, base, digits)
  OBVIOUS
<1>2. t = Numeral(value, base, digits) /\ t \in Texts
  BY <1>1, UtoaMeans
<1>3. Len(t) \in Nat /\ Len(sign) \in Nat
  BY <1>2 DEF Texts
<1>4. ~(0 - Len(sign) > Len(t)) /\ 0 \in Int
  BY <1>3
<1>5. Field(sign, t, 0, pad) \in Texts /\ Field(sign, t, 0, pad) = sign \o t
  BY <1>2, <1>4, FieldIs
<1> QED BY <1>1, <1>2, <1>5

LEMMA NoSign == /\ << >> \in Texts /\ Len(<< >>) = 0 /\ \A t \in Texts : << >> \o t = t
                /\ <<"-">> \in Texts /\ Len(<<"-">>) = 1
                /\ <<"0", "x">> \in Texts
<1>1. "-" \in Sym /\ "0" \in Sym /\ "x" \in Sym
  BY Zenon DEF Sym
<1>2. << >> \in Texts /\ Len(<< >>) = 0 /\ \A t \in Texts : << >> \o t = t
  BY DEF Texts
<1>3. <<"-">> \in Texts /\ Len(<<"-">>) = 1
  BY <1>1 DEF Texts
<1>4. <<"0", "x">> \in Texts
  BY <1>1 DEF Texts
<1> QED BY <1>2, <1>3, <1>4

\* Unsigned numbers.
LEMMA UnsignedMeans ==
    ASSUME NEW value \in Nat, NEW base, NEW digits, IsAlphabet(base, digits),
           NEW width \in Int, NEW pad \in Sym
    PROVE  /\ utoa_padded_custom(value, base, digits, width, pad) =
                 Field(<< >>, Numeral(value, base, digits), width, pad)
           /\ utoa_padded_custom(value, base, digits, width, pad) \in Texts
           /\ utoa_custom(value, base, digits) =
                 Field(<< >>, Numeral(value, base, digits), 0, pad)
           /\ utoa_custom(value, base, digits) \in Texts
<1>1. PICK u, t, none : /\ u = utoa_padded_custom(value, base, digits, width, pad)
                        /\ t = utoa_custom(value, base, digits) /\ none = << >>
  OBVIOUS
<1>2. none \in Texts /\ width = width - Len(none)
  BY <1>1, NoSign
<1>7. \A x \in Texts : none \o x = x
  BY <1>1, NoSign
<1>3. t \in Texts
  BY <1>1, UtoaMeans
<1>4. none \o utoa_padded_custom(value, base, digits, width, pad) =
         Field(none, Numeral(value, base, digits), width, pad)
  BY <1>2, PaddedMeans
<1>5. none \o utoa_custom(value, base, digits) = Field(none, Numeral(value, base, digits), 0, pad)
  BY <1>2, PlainMeans
<1>6. u \in Texts
  <2>1. Len(t) \in Nat
    BY <1>3 DEF Texts
  <2>2. CASE width > 0 /\ width > Len(t)
    <3>1. u = [k \in 1 .. width - Len(t) |-> pad] \o t
      BY <1>1, <2>2 DEF utoa_padded_custom
    <3>2. width - Len(t) \in Nat
      BY <2>1, <2>2
    <3>3. [k \in 1 .. width - Len(t) |-> pad] \in Seq(Sym)
      BY <3>2
    <3> QED BY <1>3, <3>1, <3>3, ConcatProperties DEF Texts
  <2>3. CASE ~(width > 0 /\ width > Len(t))
    <3>1. u = t
      BY <1>1, <2>3 DEF utoa_padded_custom
    <3> QED BY <1>3, <3>1
  <2> QED BY <2>2, <2>3
<1> QED BY <1>1, <1>3, <1>4, <1>5, <1>6, <1>7

\* Signed numbers.
LEMMA SignedMeans ==
    ASSUME NEW word \in 0 .. WordMod - 1, NEW width \in Int, NEW pad \in Sym
    PROVE  LET v == Signed(word)
               sign == IF v < 0 THEN <<"-">> ELSE << >>
               t == Numeral(IF v < 0 THEN -v ELSE v, 10, Lower)
           IN  /\ itoa(word, width, pad) = Field(sign, t, width, pad)
               /\ itoaPlain(word) = Field(sign, t, 0, pad)
               /\ itoa(word, width, pad) \in Texts /\ itoaPlain(word) \in Texts
<1>0. WordMod \in Nat \ {0, 1} /\ WordMod \div 2 \in Nat /\ IntMax = WordMod \div 2 - 1
  BY FormatAssumption DEF IntMax
<1>1. PICK H \in Nat : H = WordMod \div 2
  BY <1>0
<1>2. word > IntMax <=> word >= H
  BY <1>0, <1>1
<1>3. IsAlphabet(10, Lower)
  BY Alphabets
<1>4. CASE word >= H
  <2>1. Signed(word) = word - WordMod /\ Signed(word) < 0 /\ word > IntMax
    BY <1>0, <1>1, <1>2, <1>4 DEF Signed
  <2>2. PICK n \in Nat : n = WordMod - word /\ n = -Signed(word)
    BY <1>0, <2>1
  <2>3. word > 0
    <3>1. H >= 1
      BY <1>0, <1>1
    <3> QED BY <1>4, <3>1
  <2>4. QED
    <3>1. n % WordMod = n
      BY <1>0, <2>2, <2>3
    <3>2. /\ itoa(word, width, pad) = <<"-">> \o utoa_padded_custom(n, 10, Lower, width - 1, pad)
          /\ itoaPlain(word) = <<"-">> \o utoa_custom(n, 10, Lower)
      BY <2>1, <2>2, <3>1 DEF itoa, itoaPlain, utoa
    <3>3. PICK minus, w : minus = <<"-">> /\ w = width - 1
      OBVIOUS
    <3>4. minus \in Texts /\ w = width - Len(minus)
      BY <3>3, NoSign
    <3>5. /\ minus \o utoa_padded_custom(n, 10, Lower, w, pad) =
                Field(minus, Numeral(n, 10, Lower), width, pad)
          /\ minus \o utoa_padded_custom(n, 10, Lower, w, pad) \in Texts
      BY <1>3, <3>4, PaddedMeans
    <3>6. /\ minus \o utoa_custom(n, 10, Lower) = Field(minus, Numeral(n, 10, Lower), 0, pad)
          /\ minus \o utoa_custom(n, 10, Lower) \in Texts
      BY <1>3, <3>4, PlainMeans
    <3> QED BY <2>1, <2>2, <3>2, <3>3, <3>5, <3>6
<1>5. CASE ~(word >= H)
  <2>1. Signed(word) = word /\ ~(Signed(word) < 0) /\ ~(word > IntMax) /\ word \in Nat
    BY <1>0, <1>1, <1>2, <1>5 DEF Signed
  <2>2. /\ itoa(word, width, pad) = utoa_padded_custom(word, 10, Lower, width, pad)
        /\ itoaPlain(word) = utoa_custom(word, 10, Lower)
    BY <2>1 DEF itoa, itoaPlain, utoa
  <2>3. /\ utoa_padded_custom(word, 10, Lower, width, pad) =
              Field(<< >>, Numeral(word, 10, Lower), width, pad)
        /\ utoa_padded_custom(word, 10, Lower, width, pad) \in Texts
        /\ utoa_custom(word, 10, Lower) = Field(<< >>, Numeral(word, 10, Lower), 0, pad)
        /\ utoa_custom(word, 10, Lower) \in Texts
    BY <1>3, <2>1, UnsignedMeans
  <2> QED BY <2>1, <2>2, <2>3
<1> QED BY <1>4, <1>5

\* The value of digits.
LEMMA DigitIs ==
    ASSUME NEW c, IsDigit(c)
    PROVE  DigitValue(c) \in Nat
<1>1. \E k \in 1 .. 10 : Lower[k] = c
  BY DEF IsDigit
<1>2. PICK j : j = CHOOSE k \in 1 .. 10 : Lower[k] = c
  OBVIOUS
<1>3. j \in 1 .. 10
  <2> DEFINE P(k) == Lower[k] = c
  <2>1. \E k \in 1 .. 10 : P(k)
    BY <1>1
  <2> HIDE DEF P
  <2>2. (CHOOSE k \in 1 .. 10 : P(k)) \in 1 .. 10
    BY <2>1
  <2> QED BY <1>2, <2>2 DEF P
<1>4. DigitValue(c) = j - 1
  BY <1>2 DEF DigitValue
<1> QED BY <1>3, <1>4

LEMMA DecimalIs ==
    ASSUME NEW s, Len(s) \in Nat, \A k \in 1 .. Len(s) : IsDigit(s[k])
    PROVE  Decimal(s) \in Nat
<1> DEFINE n == Len(s)
           G(f) == [k \in 0 .. n |-> IF k = 0 THEN 0 ELSE f[k - 1] * 10 + DigitValue(s[k])]
           step == [a \in Nat |-> [k \in 1 .. n |-> a * 10 + DigitValue(s[k])]]
           walk == CHOOSE f : f = G(f)
<1>1. n \in Nat /\ \A k \in 1 .. n : DigitValue(s[k]) \in Nat
  BY DigitIs
<1>2. Decimal(s) = walk[n]
  BY Zenon DEF Decimal
<1> HIDE DEF n
<1>3. step \in [Nat -> [1 .. n -> Nat]]
  <2>1. \A a \in Nat : \A k \in 1 .. n : a * 10 + DigitValue(s[k]) \in Nat
    BY <1>1
  <2> QED BY <2>1
<1>4. PICK f : /\ f \in [0 .. n -> Nat] /\ f[0] = 0
               /\ \A k \in 1 .. n : f[k] = step[f[k - 1]][k]
  <2> HIDE DEF step
  <2>1. PICK m, st, zero : m = n /\ st = step /\ zero = 0
    OBVIOUS
  <2>2. m \in Nat /\ zero \in Nat /\ st \in [Nat -> [1 .. m -> Nat]]
    BY <2>1, <1>1, <1>3
  <2>3. PICK f : IsWalk(f, m, Nat, zero, st)
    BY ONLY <2>2, WalkExists
  <2>4. f \in [0 .. m -> Nat] /\ f[0] = zero /\ \A k \in 1 .. m : f[k] = st[f[k - 1]][k]
    BY <2>3, Zenon DEF IsWalk
  <2>5. f \in [0 .. n -> Nat] /\ f[0] = 0 /\ \A k \in 1 .. n : f[k] = step[f[k - 1]][k]
    BY <2>1, <2>4, Zenon
  <2> QED BY <2>5, Zenon
<1>5. ASSUME NEW k \in 1 .. n PROVE f[k] = f[k - 1] * 10 + DigitValue(s[k])
  <2>1. k - 1 \in 0 .. n
    BY <1>1
  <2>2. f[k - 1] \in Nat
    BY <2>1, <1>4
  <2>3. step[f[k - 1]][k] = f[k - 1] * 10 + DigitValue(s[k])
    BY <2>2
  <2> QED BY <1>4, <2>3
<1>6. f = G(f)
  <2>1. ASSUME NEW k \in 0 .. n PROVE f[k] = G(f)[k]
    <3>1. CASE k = 0
      BY <3>1, <1>4
    <3>2. CASE k # 0
      <4>1. k \in 1 .. n
        BY <3>2, <1>1
      <4>2. G(f)[k] = f[k - 1] * 10 + DigitValue(s[k])
        BY <3>2, Zenon
      <4> QED BY <4>1, <4>2, <1>5, Zenon
    <3> QED BY <3>1, <3>2
  <2>2. f = [k \in 0 .. n |-> f[k]] /\ G(f) = [k \in 0 .. n |-> G(f)[k]]
    BY <1>4
  <2> HIDE DEF G
  <2> QED BY <2>1, <2>2, Zenon
<1>7. walk = G(walk)
  <2> HIDE DEF G
  <2> QED BY <1>6, Zenon DEF walk
<1> HIDE DEF walk
<1> DEFINE R == {k \in 0 .. n : walk[k] \in Nat}
<1>8. ASSUME NEW k \in 0 .. n
      PROVE  walk[k] = IF k = 0 THEN 0 ELSE walk[k - 1] * 10 + DigitValue(s[k])
  BY <1>7, Zenon
<1>9. 0 \in R
  <2>1. 0 \in 0 .. n
    BY <1>1
  <2> QED BY <1>8, <2>1
<1>10. ASSUME NEW k \in 1 .. n, k - 1 \in R PROVE k \in R
  <2>1. walk[k - 1] \in Nat /\ k \in 0 .. n /\ k # 0
    BY <1>1, <1>10
  <2>2. walk[k] = walk[k - 1] * 10 + DigitValue(s[k])
    BY <1>8, <2>1
  <2>3. walk[k] \in Nat
    BY <1>1, <2>1, <2>2
  <2> QED BY <2>1, <2>3
<1>11. \A k \in 0 .. n : k \in R
  <2> HIDE DEF R
  <2> QED BY ONLY <1>1, <1>9, <1>10, WalkKeeps
<1>12. n \in 0 .. n
  BY <1>1
<1> QED BY <1>2, <1>11, <1>12

-----------------------------------------------------------------------------
(* The buffer of snprintk.                                                  *)

\* u is what a buffer of size characters keeps of s and k characters of data.
Keeps(u, s, data, k, size) ==
    LET w == s \o data
    IN  /\ u \in Texts
        /\ Len(u) = IF Len(s) + k < size THEN Len(s) + k ELSE size - 1
        /\ \A i \in 1 .. Len(u) : u[i] = w[i]

LEMMA PutcharKeeps ==
    ASSUME NEW s \in Texts, NEW data \in Texts, NEW size \in Nat, size = call.size, Len(s) < size,
           NEW k \in 1 .. Len(data), NEW u, Keeps(u, s, data, k - 1, size)
    PROVE  Keeps(snprintk_putchar(u, data[k]), s, data, k, size)
<1>1. PICK w, n, c : w = s \o data /\ n = Len(s) /\ c = data[k]
  OBVIOUS
<1>2. /\ u \in Seq(Sym) /\ Len(u) = (IF n + (k - 1) < size THEN n + (k - 1) ELSE size - 1)
      /\ \A i \in 1 .. Len(u) : u[i] = w[i]
  BY <1>1 DEF Keeps, Texts
<1>3. n \in Nat /\ n < size /\ c \in Sym /\ k \in Nat /\ k >= 1
  BY <1>1 DEF Texts
<1>4. w[n + k] = c
  <2>1. s \in Seq(Sym) /\ data \in Seq(Sym)
    BY DEF Texts
  <2>2. n + k \in n + 1 .. n + Len(data)
    BY <1>3, <2>1
  <2>3. n + k \in 1 .. Len(s) + Len(data) /\ ~(n + k <= Len(s)) /\ (n + k) - Len(s) = k
    BY <1>1, <1>3, <2>1
  <2> QED BY <1>1, <2>1, <2>3, ConcatProperties
<1>5. PICK v : v = snprintk_putchar(u, c)
  OBVIOUS
<1>6. v = IF Len(u) >= size - 1 THEN u ELSE Append(u, c)
  BY <1>5 DEF snprintk_putchar
<1>7. /\ v \in Seq(Sym) /\ Len(v) = (IF n + k < size THEN n + k ELSE size - 1)
      /\ \A i \in 1 .. Len(v) : v[i] = w[i]
  <2>1. CASE n + k < size
    <3>1. Len(u) = n + (k - 1) /\ ~(Len(u) >= size - 1) /\ n + (k - 1) \in Nat
      BY <1>2, <1>3, <2>1
    <3>2. v = Append(u, c) /\ Len(v) = n + k
      BY <1>2, <1>3, <1>6, <3>1
    <3>3. v \in Seq(Sym)
      BY <1>2, <1>3, <3>2
    <3>4. ASSUME NEW i \in 1 .. Len(v) PROVE v[i] = w[i]
      <4>1. CASE i = n + k
        BY <1>2, <1>3, <1>4, <3>1, <3>2, <4>1
      <4>2. CASE i # n + k
        <5>1. i \in 1 .. Len(u)
          BY <1>3, <3>1, <3>2, <4>2
        <5>2. v[i] = u[i]
          BY <1>2, <1>3, <3>2, <5>1
        <5> QED BY <1>2, <5>1, <5>2
      <4> QED BY <4>1, <4>2
    <3> QED BY <2>1, <3>2, <3>3, <3>4
  <2>2. CASE ~(n + k < size)
    <3>1. Len(u) = size - 1
      <4>1. PICK b : b = Len(u)
        OBVIOUS
      <4>2. b = IF n + (k - 1) < size THEN n + (k - 1) ELSE size - 1
        BY <1>2, <4>1, Zenon
      <4>3. size \in Nat
        OBVIOUS
      <4>4. b = size - 1
        BY ONLY <1>3, <2>2, <4>2, <4>3
      <4> QED BY <4>1, <4>4
    <3>2. v = u
      BY <1>3, <1>6, <3>1
    <3> QED BY <1>2, <2>2, <3>1, <3>2
  <2> QED BY <2>1, <2>2
<1> QED BY <1>1, <1>5, <1>7 DEF Keeps, Texts

\* snprintk_print keeps what fits.
LEMMA PrintKeeps ==
    ASSUME NEW s \in Texts, NEW data \in Texts, NEW size \in Nat, size = call.size, Len(s) < size
    PROVE  Keeps(snprintk_print(s, data), s, data, Len(data), size)
<1> DEFINE n == Len(data)
           G(f) == [k \in 0 .. n |-> IF k = 0 THEN s ELSE snprintk_putchar(f[k - 1], data[k])]
           step == [a \in Texts |-> [k \in 1 .. n |-> snprintk_putchar(a, data[k])]]
           walk == CHOOSE f : f = G(f)
<1>1. n \in Nat /\ \A k \in 1 .. n : data[k] \in Sym
  BY DEF Texts
<1>2. snprintk_print(s, data) = walk[n]
  BY Zenon DEF snprintk_print
<1>12. \A k \in 1 .. n : k \in 1 .. Len(data)
  OBVIOUS
<1>13. n = Len(data)
  OBVIOUS
<1> HIDE DEF n
<1>3. step \in [Texts -> [1 .. n -> Texts]]
  <2>1. ASSUME NEW a \in Texts, NEW k \in 1 .. n PROVE snprintk_putchar(a, data[k]) \in Texts
    <3>1. data[k] \in Sym
      BY <1>1
    <3>2. Append(a, data[k]) \in Texts
      BY <3>1 DEF Texts
    <3> QED BY <3>2 DEF snprintk_putchar
  <2> QED BY <2>1
<1>4. PICK f : /\ f \in [0 .. n -> Texts] /\ f[0] = s
               /\ \A k \in 1 .. n : f[k] = step[f[k - 1]][k]
  <2> HIDE DEF step
  <2>1. PICK m, st, T : m = n /\ st = step /\ T = Texts
    OBVIOUS
  <2>2. m \in Nat /\ s \in T /\ st \in [T -> [1 .. m -> T]]
    BY <2>1, <1>1, <1>3
  <2>3. PICK f : IsWalk(f, m, T, s, st)
    BY ONLY <2>2, WalkExists
  <2>4. f \in [0 .. m -> T] /\ f[0] = s /\ \A k \in 1 .. m : f[k] = st[f[k - 1]][k]
    BY <2>3, Zenon DEF IsWalk
  <2>5. f \in [0 .. n -> Texts] /\ f[0] = s /\ \A k \in 1 .. n : f[k] = step[f[k - 1]][k]
    BY <2>1, <2>4, Zenon
  <2> QED BY <2>5, Zenon
<1>5. ASSUME NEW k \in 1 .. n PROVE f[k] = snprintk_putchar(f[k - 1], data[k])
  <2>1. k - 1 \in 0 .. n
    BY <1>1
  <2>2. f[k - 1] \in Texts
    BY <2>1, <1>4
  <2>3. step[f[k - 1]][k] = snprintk_putchar(f[k - 1], data[k])
    BY <2>2
  <2> QED BY <1>4, <2>3
<1>6. f = G(f)
  <2>1. ASSUME NEW k \in 0 .. n PROVE f[k] = G(f)[k]
    <3>1. CASE k = 0
      BY <3>1, <1>4
    <3>2. CASE k # 0
      <4>1. k \in 1 .. n
        BY <3>2, <1>1
      <4>2. G(f)[k] = snprintk_putchar(f[k - 1], data[k])
        BY <3>2, Zenon
      <4> QED BY <4>1, <4>2, <1>5, Zenon
    <3> QED BY <3>1, <3>2
  <2>2. f = [k \in 0 .. n |-> f[k]] /\ G(f) = [k \in 0 .. n |-> G(f)[k]]
    BY <1>4
  <2> HIDE DEF G
  <2> QED BY <2>1, <2>2, Zenon
<1>7. walk = G(walk)
  <2> HIDE DEF G
  <2> QED BY <1>6, Zenon DEF walk
<1> HIDE DEF walk
<1>8. ASSUME NEW k \in 0 .. n
      PROVE  walk[k] = IF k = 0 THEN s ELSE snprintk_putchar(walk[k - 1], data[k])
  BY <1>7, Zenon
<1> DEFINE R == {k \in 0 .. n : Keeps(walk[k], s, data, k, size)}
<1>9. 0 \in R
  <2>1. 0 \in 0 .. n
    BY <1>1
  <2>2. walk[0] = s
    BY <1>8, <2>1
  <2>3. s \in Seq(Sym) /\ data \in Seq(Sym)
    BY DEF Texts
  <2>4. \A i \in 1 .. Len(s) : (s \o data)[i] = s[i]
    BY <2>3
  <2>5. Len(s) + 0 = Len(s) /\ Len(s) + 0 < size
    BY <2>3
  <2>6. Keeps(s, s, data, 0, size)
    BY <2>4, <2>5 DEF Keeps
  <2> QED BY <2>1, <2>2, <2>6
<1>10. ASSUME NEW k \in 1 .. n, k - 1 \in R PROVE k \in R
  <2>1. Keeps(walk[k - 1], s, data, k - 1, size) /\ k \in 0 .. n /\ k # 0
    BY <1>1, <1>10
  <2>2. walk[k] = snprintk_putchar(walk[k - 1], data[k])
    BY <1>8, <2>1
  <2>3. PICK u : u = walk[k - 1]
    OBVIOUS
  <2>4. k \in 1 .. Len(data) /\ Keeps(u, s, data, k - 1, size)
    BY <1>12, <2>1, <2>3
  <2>5. Keeps(snprintk_putchar(u, data[k]), s, data, k, size)
    BY <2>4, PutcharKeeps
  <2> QED BY <2>1, <2>2, <2>3, <2>5
<1>11. \A k \in 0 .. n : k \in R
  <2> HIDE DEF R
  <2> QED BY ONLY <1>1, <1>9, <1>10, WalkKeeps
<1>14. n \in R
  <2>1. n \in 0 .. n
    BY <1>1
  <2> HIDE DEF R
  <2> QED BY <2>1, <1>11
<1> QED BY <1>2, <1>13, <1>14

-----------------------------------------------------------------------------
(* Directives.                                                              *)

Args == [word : 0 .. WordMod - 1, char : STRING, str : Seq(STRING)]

\* The reference, directive by directive.
LEMMA ValueIs ==
    ASSUME NEW fn, NEW w, NEW pad, NEW a
    PROVE  /\ Value(fn, <<"c">>, w, pad, a) = <<a.char>>
           /\ Value(fn, <<"s">>, w, pad, a) = a.str
           /\ Value(fn, <<"p">>, w, pad, a) = Field(<<"0", "x">>, Numeral(a.word, 16, Lower), 0, pad)
           /\ \A c \in {"d", "i"} :
                 Value(fn, <<c>>, w, pad, a) =
                    Field(IF Signed(a.word) < 0 THEN <<"-">> ELSE << >>,
                          Numeral(IF Signed(a.word) < 0 THEN -Signed(a.word) ELSE Signed(a.word), 10, Lower),
                          IF fn = "printk" THEN w ELSE 0, pad)
           /\ Value(fn, <<"u">>, w, pad, a) = Field(<< >>, Numeral(a.word, 10, Lower), w, pad)
           /\ Value(fn, <<"l", "u">>, w, pad, a) = Field(<< >>, Numeral(a.word, 10, Lower), w, pad)
           /\ \A d \in {<<"x">>, <<"l", "x">>} :
                 Value(fn, d, w, pad, a) =
                    Field(<< >>, Numeral(a.word, 16, Lower), IF fn = "printk" THEN w ELSE 0, pad)
           /\ \A d \in {<<"X">>, <<"l", "X">>} :
                 Value(fn, d, w, pad, a) =
                    Field(<< >>, Numeral(a.word, 16, Upper), IF fn = "printk" THEN w ELSE 0, pad)
<1>1. Value(fn, <<"c">>, w, pad, a) = <<a.char>>
  BY DEF Value
<1>2. Value(fn, <<"s">>, w, pad, a) = a.str
  BY DEF Value
<1>3. Value(fn, <<"p">>, w, pad, a) = Field(<<"0", "x">>, Numeral(a.word, 16, Lower), 0, pad)
  BY DEF Value
<1>4. ASSUME NEW c \in {"d", "i"}
      PROVE  Value(fn, <<c>>, w, pad, a) =
                    Field(IF Signed(a.word) < 0 THEN <<"-">> ELSE << >>,
                          Numeral(IF Signed(a.word) < 0 THEN -Signed(a.word) ELSE Signed(a.word), 10, Lower),
                          IF fn = "printk" THEN w ELSE 0, pad)
  BY <1>4 DEF Value
<1>5. Value(fn, <<"u">>, w, pad, a) = Field(<< >>, Numeral(a.word, 10, Lower), w, pad)
  BY DEF Value
<1>6. Value(fn, <<"l", "u">>, w, pad, a) = Field(<< >>, Numeral(a.word, 10, Lower), w, pad)
  BY DEF Value
<1>7. ASSUME NEW d \in {<<"x">>, <<"l", "x">>}
      PROVE  Value(fn, d, w, pad, a) =
                    Field(<< >>, Numeral(a.word, 16, Lower), IF fn = "printk" THEN w ELSE 0, pad)
  BY <1>7 DEF Value
<1>8. ASSUME NEW d \in {<<"X">>, <<"l", "X">>}
      PROVE  Value(fn, d, w, pad, a) =
                    Field(<< >>, Numeral(a.word, 16, Upper), IF fn = "printk" THEN w ELSE 0, pad)
  BY <1>8 DEF Value
<1> QED BY <1>1, <1>2, <1>3, <1>4, <1>5, <1>6, <1>7, <1>8

\* What all directives need.
LEMMA PartsAre ==
    ASSUME NEW a \in Args, NEW w \in Int, NEW pad \in Sym
    PROVE  /\ a.word \in Nat /\ a.word \in 0 .. WordMod - 1
           /\ <<a.char>> \in Texts /\ a.str \in Texts
           /\ <<"0", "x">> \o utoa_custom(a.word, 16, Lower) =
                 Field(<<"0", "x">>, Numeral(a.word, 16, Lower), 0, pad)
           /\ <<"0", "x">> \o utoa_custom(a.word, 16, Lower) \in Texts
           /\ \A b \in {10, 16}, ds \in {Lower, Upper} :
                 /\ utoa_padded_custom(a.word, b, ds, w, pad) = Field(<< >>, Numeral(a.word, b, ds), w, pad)
                 /\ utoa_padded_custom(a.word, b, ds, w, pad) \in Texts
                 /\ utoa_custom(a.word, b, ds) = Field(<< >>, Numeral(a.word, b, ds), 0, pad)
                 /\ utoa_custom(a.word, b, ds) \in Texts
<1>1. a.word \in Nat /\ a.word \in 0 .. WordMod - 1 /\ a.char \in STRING /\ a.str \in Seq(STRING)
  BY FormatAssumption DEF Args
<1>2. <<a.char>> \in Texts
  <2>1. a.char \in Sym
    BY <1>1 DEF Sym
  <2> QED BY <2>1 DEF Texts
<1>3. a.str \in Texts
  <2>1. PICK t : t = a.str
    OBVIOUS
  <2>2. t \in Seq(STRING)
    BY <1>1, <2>1
  <2>3. Len(t) \in Nat /\ t = [i \in 1 .. Len(t) |-> t[i]] /\ \A i \in 1 .. Len(t) : t[i] \in STRING
    BY <2>2
  <2>4. \A x \in STRING : x \in Sym
    BY DEF Sym
  <2>5. \A i \in 1 .. Len(t) : t[i] \in Sym
    BY <2>3, <2>4
  <2>6. t \in Seq(Sym)
    BY <2>3, <2>5
  <2> QED BY <2>1, <2>6 DEF Texts
<1>4. PICK v, zx : v = a.word /\ zx = <<"0", "x">>
  OBVIOUS
<1>5. /\ zx \o utoa_custom(v, 16, Lower) = Field(zx, Numeral(v, 16, Lower), 0, pad)
      /\ zx \o utoa_custom(v, 16, Lower) \in Texts
  <2>1. v \in Nat /\ zx \in Texts /\ IsAlphabet(16, Lower)
    BY <1>1, <1>4, NoSign, Alphabets
  <2> QED BY <2>1, PlainMeans
<1>6. ASSUME NEW b \in {10, 16}, NEW ds \in {Lower, Upper}
      PROVE  /\ utoa_padded_custom(v, b, ds, w, pad) = Field(<< >>, Numeral(v, b, ds), w, pad)
             /\ utoa_padded_custom(v, b, ds, w, pad) \in Texts
             /\ utoa_custom(v, b, ds) = Field(<< >>, Numeral(v, b, ds), 0, pad)
             /\ utoa_custom(v, b, ds) \in Texts
  <2>1. IsAlphabet(b, ds)
    BY <1>6, Alphabets
  <2>2. v \in Nat
    BY <1>1, <1>4
  <2> QED BY <2>1, <2>2, UnsignedMeans
<1> QED BY <1>1, <1>2, <1>3, <1>4, <1>5, <1>6, Zenon

LEMMA SignedAre ==
    ASSUME NEW a \in Args, NEW w \in Int, NEW pad \in Sym, NEW c \in {"d", "i"}
    PROVE  /\ itoa(a.word, w, pad) = Value("printk", <<c>>, w, pad, a)
           /\ itoa(a.word, w, pad) \in Texts
           /\ itoaPlain(a.word) = Value("snprintk", <<c>>, w, pad, a)
           /\ itoaPlain(a.word) \in Texts
<1>1. PICK v : v = a.word
  OBVIOUS
<1>2. v \in 0 .. WordMod - 1
  BY <1>1 DEF Args
<1>3. PICK sign, t : /\ sign = (IF Signed(v) < 0 THEN <<"-">> ELSE << >>)
                     /\ t = Numeral(IF Signed(v) < 0 THEN -Signed(v) ELSE Signed(v), 10, Lower)
  OBVIOUS
<1>4. /\ itoa(v, w, pad) = Field(sign, t, w, pad) /\ itoa(v, w, pad) \in Texts
      /\ itoaPlain(v) = Field(sign, t, 0, pad) /\ itoaPlain(v) \in Texts
  BY <1>2, <1>3, SignedMeans, Zenon
<1>5. ASSUME NEW fn
      PROVE  Value(fn, <<c>>, w, pad, a) = Field(sign, t, IF fn = "printk" THEN w ELSE 0, pad)
  BY <1>1, <1>3, ValueIs
<1>6. Value("printk", <<c>>, w, pad, a) = Field(sign, t, w, pad)
  BY <1>5
<1>7. Value("snprintk", <<c>>, w, pad, a) = Field(sign, t, 0, pad)
  <2>1. "snprintk" # "printk"
    OBVIOUS
  <2> QED BY <1>5, <2>1, Zenon
<1> QED BY <1>1, <1>4, <1>6, <1>7, Zenon

\* The directive that letter c and the letter l behind it make.
Named(c, l) == IF c = "l" THEN <<"l", l>> ELSE <<c>>

LEMMA PrintkTextMeans ==
    ASSUME NEW a \in Args, NEW w \in Int, w = FieldWidth, NEW pad \in Sym, pad = PadChar,
           NEW c, NEW l, printkKnows(c, l)
    PROVE  /\ printkText(c, l, a) = Value("printk", Named(c, l), w, pad, a)
           /\ printkText(c, l, a) \in Texts
<1> HIDE DEF PadChar, FieldWidth
<1>1. CASE c = "c"
  <2>1. printkText(c, l, a) = <<a.char>> /\ Named(c, l) = <<"c">>
    BY <1>1 DEF printkText, Named
  <2>2. Value("printk", <<"c">>, w, pad, a) = <<a.char>>
    BY ValueIs
  <2>3. <<a.char>> \in Texts
    BY PartsAre
  <2> QED BY <2>1, <2>2, <2>3, Zenon
<1>2. CASE c = "s"
  <2>1. printkText(c, l, a) = a.str /\ Named(c, l) = <<"s">>
    BY <1>2 DEF printkText, Named
  <2>2. Value("printk", <<"s">>, w, pad, a) = a.str
    BY ValueIs
  <2>3. a.str \in Texts
    BY PartsAre
  <2> QED BY <2>1, <2>2, <2>3, Zenon
<1>3. CASE c \in {"d", "i"}
  <2>1. printkText(c, l, a) = itoa(a.word, w, pad)
    BY <1>3 DEF printkText
  <2>2. Named(c, l) = <<c>>
    BY <1>3 DEF Named
  <2>3. itoa(a.word, w, pad) = Value("printk", <<c>>, w, pad, a) /\ itoa(a.word, w, pad) \in Texts
    BY <1>3, SignedAre
  <2> QED BY <2>1, <2>2, <2>3, Zenon
<1>4. CASE c = "u"
  <2>1. printkText(c, l, a) = utoa_padded_custom(a.word, 10, Lower, w, pad) /\ Named(c, l) = <<"u">>
    BY <1>4 DEF printkText, Named
  <2>2. Value("printk", <<"u">>, w, pad, a) = Field(<< >>, Numeral(a.word, 10, Lower), w, pad)
    BY ValueIs
  <2>3. /\ utoa_padded_custom(a.word, 10, Lower, w, pad) = Field(<< >>, Numeral(a.word, 10, Lower), w, pad)
        /\ utoa_padded_custom(a.word, 10, Lower, w, pad) \in Texts
    BY PartsAre
  <2> QED BY <2>1, <2>2, <2>3, Zenon
<1>5. CASE c = "x"
  <2>1. printkText(c, l, a) = utoa_padded_custom(a.word, 16, Lower, w, pad) /\ Named(c, l) = <<"x">>
    BY <1>5 DEF printkText, Named
  <2>2. Value("printk", <<"x">>, w, pad, a) = Field(<< >>, Numeral(a.word, 16, Lower), w, pad)
    BY ValueIs
  <2>3. /\ utoa_padded_custom(a.word, 16, Lower, w, pad) = Field(<< >>, Numeral(a.word, 16, Lower), w, pad)
        /\ utoa_padded_custom(a.word, 16, Lower, w, pad) \in Texts
    BY PartsAre
  <2> QED BY <2>1, <2>2, <2>3, Zenon
<1>6. CASE c = "X"
  <2>1. printkText(c, l, a) = utoa_padded_custom(a.word, 16, Upper, w, pad) /\ Named(c, l) = <<"X">>
    BY <1>6 DEF printkText, Named
  <2>2. Value("printk", <<"X">>, w, pad, a) = Field(<< >>, Numeral(a.word, 16, Upper), w, pad)
    BY ValueIs
  <2>3. /\ utoa_padded_custom(a.word, 16, Upper, w, pad) = Field(<< >>, Numeral(a.word, 16, Upper), w, pad)
        /\ utoa_padded_custom(a.word, 16, Upper, w, pad) \in Texts
    BY PartsAre
  <2> QED BY <2>1, <2>2, <2>3, Zenon
<1>7. CASE c = "p"
  <2>1. printkText(c, l, a) = <<"0", "x">> \o utoa_custom(a.word, 16, Lower) /\ Named(c, l) = <<"p">>
    BY <1>7 DEF printkText, Named, ultoa_custom
  <2>2. Value("printk", <<"p">>, w, pad, a) = Field(<<"0", "x">>, Numeral(a.word, 16, Lower), 0, pad)
    BY ValueIs
  <2>3. /\ <<"0", "x">> \o utoa_custom(a.word, 16, Lower) =
              Field(<<"0", "x">>, Numeral(a.word, 16, Lower), 0, pad)
        /\ <<"0", "x">> \o utoa_custom(a.word, 16, Lower) \in Texts
    BY PartsAre
  <2> QED BY <2>1, <2>2, <2>3, Zenon
<1>8. CASE c = "l" /\ l = "u"
  <2>1. printkText(c, l, a) = utoa_padded_custom(a.word, 10, Lower, w, pad) /\ Named(c, l) = <<"l", "u">>
    BY <1>8 DEF printkText, Named, ultoa_padded_custom
  <2>2. Value("printk", <<"l", "u">>, w, pad, a) = Field(<< >>, Numeral(a.word, 10, Lower), w, pad)
    BY ValueIs
  <2>3. /\ utoa_padded_custom(a.word, 10, Lower, w, pad) = Field(<< >>, Numeral(a.word, 10, Lower), w, pad)
        /\ utoa_padded_custom(a.word, 10, Lower, w, pad) \in Texts
    BY PartsAre
  <2> QED BY <2>1, <2>2, <2>3, Zenon
<1>9. CASE c = "l" /\ l = "x"
  <2>1. printkText(c, l, a) = utoa_padded_custom(a.word, 16, Lower, w, pad) /\ Named(c, l) = <<"l", "x">>
    BY <1>9 DEF printkText, Named, ultoa_padded_custom
  <2>2. Value("printk", <<"l", "x">>, w, pad, a) = Field(<< >>, Numeral(a.word, 16, Lower), w, pad)
    BY ValueIs
  <2>3. /\ utoa_padded_custom(a.word, 16, Lower, w, pad) = Field(<< >>, Numeral(a.word, 16, Lower), w, pad)
        /\ utoa_padded_custom(a.word, 16, Lower, w, pad) \in Texts
    BY PartsAre
  <2> QED BY <2>1, <2>2, <2>3, Zenon
<1>10. CASE c = "l" /\ l = "X"
  <2>1. printkText(c, l, a) = utoa_padded_custom(a.word, 16, Upper, w, pad) /\ Named(c, l) = <<"l", "X">>
    BY <1>10 DEF printkText, Named, ultoa_padded_custom
  <2>2. Value("printk", <<"l", "X">>, w, pad, a) = Field(<< >>, Numeral(a.word, 16, Upper), w, pad)
    BY ValueIs
  <2>3. /\ utoa_padded_custom(a.word, 16, Upper, w, pad) = Field(<< >>, Numeral(a.word, 16, Upper), w, pad)
        /\ utoa_padded_custom(a.word, 16, Upper, w, pad) \in Texts
    BY PartsAre
  <2> QED BY <2>1, <2>2, <2>3, Zenon
<1> QED BY <1>1, <1>2, <1>3, <1>4, <1>5, <1>6, <1>7, <1>8, <1>9, <1>10 DEF printkKnows

LEMMA SnprintkTextMeans ==
    ASSUME NEW a \in Args, NEW w \in Int, w = FieldWidth, NEW pad \in Sym, pad = PadChar,
           NEW c, NEW l, snprintkKnows(c, l)
    PROVE  /\ snprintkText(c, l, a) = Value("snprintk", Named(c, l), w, pad, a)
           /\ snprintkText(c, l, a) \in Texts
<1> HIDE DEF PadChar, FieldWidth
<1>0. "snprintk" # "printk"
  OBVIOUS
<1>1. CASE c = "c"
  <2>1. snprintkText(c, l, a) = <<a.char>> /\ Named(c, l) = <<"c">>
    BY <1>1 DEF snprintkText, Named
  <2>2. Value("snprintk", <<"c">>, w, pad, a) = <<a.char>>
    BY ValueIs
  <2>3. <<a.char>> \in Texts
    BY PartsAre
  <2> QED BY <2>1, <2>2, <2>3, Zenon
<1>2. CASE c = "s"
  <2>1. snprintkText(c, l, a) = a.str /\ Named(c, l) = <<"s">>
    BY <1>2 DEF snprintkText, Named
  <2>2. Value("snprintk", <<"s">>, w, pad, a) = a.str
    BY ValueIs
  <2>3. a.str \in Texts
    BY PartsAre
  <2> QED BY <2>1, <2>2, <2>3, Zenon
<1>3. CASE c \in {"d", "i"}
  <2>1. snprintkText(c, l, a) = itoaPlain(a.word)
    BY <1>3 DEF snprintkText
  <2>2. Named(c, l) = <<c>>
    BY <1>3 DEF Named
  <2>3. itoaPlain(a.word) = Value("snprintk", <<c>>, w, pad, a) /\ itoaPlain(a.word) \in Texts
    BY <1>3, SignedAre
  <2> QED BY <2>1, <2>2, <2>3, Zenon
<1>4. CASE c = "u"
  <2>1. snprintkText(c, l, a) = utoa_padded_custom(a.word, 10, Lower, w, pad) /\ Named(c, l) = <<"u">>
    BY <1>4 DEF snprintkText, Named, utoa_padded
  <2>2. Value("snprintk", <<"u">>, w, pad, a) = Field(<< >>, Numeral(a.word, 10, Lower), w, pad)
    BY ValueIs
  <2>3. /\ utoa_padded_custom(a.word, 10, Lower, w, pad) = Field(<< >>, Numeral(a.word, 10, Lower), w, pad)
        /\ utoa_padded_custom(a.word, 10, Lower, w, pad) \in Texts
    BY PartsAre
  <2> QED BY <2>1, <2>2, <2>3, Zenon
<1>5. CASE c = "x"
  <2>1. snprintkText(c, l, a) = utoa_custom(a.word, 16, Lower) /\ Named(c, l) = <<"x">>
    BY <1>5 DEF snprintkText, Named, utoa
  <2>2. Value("snprintk", <<"x">>, w, pad, a) = Field(<< >>, Numeral(a.word, 16, Lower), 0, pad)
    BY ValueIs
  <2> QED BY <2>1, <2>2, PartsAre, Zenon
<1>7. CASE c = "p"
  <2>1. snprintkText(c, l, a) = <<"0", "x">> \o utoa_custom(a.word, 16, Lower) /\ Named(c, l) = <<"p">>
    BY <1>7 DEF snprintkText, Named, utoa
  <2>2. Value("snprintk", <<"p">>, w, pad, a) = Field(<<"0", "x">>, Numeral(a.word, 16, Lower), 0, pad)
    BY ValueIs
  <2>3. /\ <<"0", "x">> \o utoa_custom(a.word, 16, Lower) = Field(<<"0", "x">>, Numeral(a.word, 16, Lower), 0, pad)
        /\ <<"0", "x">> \o utoa_custom(a.word, 16, Lower) \in Texts
    BY PartsAre
  <2> QED BY <2>1, <2>2, <2>3, Zenon
<1>8. CASE c = "l" /\ l = "u"
  <2>1. snprintkText(c, l, a) = utoa_padded_custom(a.word, 10, Lower, w, pad) /\ Named(c, l) = <<"l", "u">>
    BY <1>8 DEF snprintkText, Named, utoa_padded
  <2>2. Value("snprintk", <<"l", "u">>, w, pad, a) = Field(<< >>, Numeral(a.word, 10, Lower), w, pad)
    BY ValueIs
  <2>3. /\ utoa_padded_custom(a.word, 10, Lower, w, pad) = Field(<< >>, Numeral(a.word, 10, Lower), w, pad)
        /\ utoa_padded_custom(a.word, 10, Lower, w, pad) \in Texts
    BY PartsAre
  <2> QED BY <2>1, <2>2, <2>3, Zenon
<1> QED BY <1>1, <1>2, <1>3, <1>4, <1>5, <1>7, <1>8 DEF snprintkKnows

\* The text of a directive is what the reference says.
LEMMA TextMeans ==
    ASSUME NEW a \in Args, NEW w \in Int, w = FieldWidth, NEW pad \in Sym, pad = PadChar,
           NEW c, NEW l, Knows(c, l), NEW fn \in {"printk", "snprintk"}, call.fn = fn
    PROVE  /\ Text(c, l, a) = Value(fn, Named(c, l), w, pad, a)
           /\ Text(c, l, a) \in Texts
<1> HIDE DEF PadChar, FieldWidth
<1>0. "snprintk" # "printk"
  OBVIOUS
<1>1. CASE fn = "printk"
  <2>1. Text(c, l, a) = printkText(c, l, a) /\ printkKnows(c, l)
    BY <1>1 DEF Text, Knows
  <2> QED BY <1>1, <2>1, PrintkTextMeans
<1>2. CASE fn = "snprintk"
  <2>1. Text(c, l, a) = snprintkText(c, l, a) /\ snprintkKnows(c, l)
    BY <1>0, <1>2, Zenon DEF Text, Knows
  <2> QED BY <1>2, <2>1, SnprintkTextMeans
<1> QED BY <1>1, <1>2

-----------------------------------------------------------------------------
(* Positions in a format.                                                   *)

\* A format has no NUL inside.
IsFormat(f) == f \in Seq(STRING \ {"nul"})

LEMMA ChIs ==
    ASSUME NEW f, IsFormat(f), f = call.format, NEW i \in Nat \ {0}
    PROVE  /\ i <= Len(f) => Ch(i) = f[i] /\ f[i] # "nul" /\ f[i] \in Sym
           /\ i > Len(f) => Ch(i) = "nul"
<1>1. f \in Seq(STRING \ {"nul"}) /\ Len(f) \in Nat
  BY DEF IsFormat
<1>2. CASE i <= Len(f)
  <2>1. i \in 1 .. Len(f)
    BY <1>1, <1>2
  <2>2. f[i] \in STRING \ {"nul"}
    BY <1>1, <2>1
  <2>3. Ch(i) = f[i]
    BY <1>2 DEF Ch
  <2>4. \A x \in STRING : x \in Sym
    BY DEF Sym
  <2>5. f[i] # "nul" /\ f[i] \in STRING
    BY <2>2
  <2>6. f[i] \in Sym
    BY <2>4, <2>5
  <2>7. ~(i > Len(f))
    BY <1>1, <1>2
  <2> QED BY <2>3, <2>5, <2>6, <2>7
<1>3. CASE i > Len(f)
  BY <1>1, <1>3 DEF Ch
<1> QED BY <1>1, <1>2, <1>3

LEMMA PieceIs ==
    ASSUME NEW S, NEW f \in Seq(S), NEW j \in 1 .. Len(f)
    PROVE  /\ SubSeq(f, j, j) = <<f[j]>>
           /\ j + 1 <= Len(f) => SubSeq(f, j, j + 1) = <<f[j], f[j + 1]>>
<1>1. PICK t : t = SubSeq(f, j, j)
  OBVIOUS
<1>2. t \in Seq(S) /\ Len(t) = 1 /\ t[1] = f[j]
  BY <1>1, SubSeqProperties
<1>3. t = <<t[1]>>
  BY <1>2
<1>4. ASSUME j + 1 <= Len(f) PROVE SubSeq(f, j, j + 1) = <<f[j], f[j + 1]>>
  <2>1. PICK u : u = SubSeq(f, j, j + 1)
    OBVIOUS
  <2>2. u \in Seq(S) /\ Len(u) = 2 /\ u[1] = f[j] /\ u[2] = f[j + 1]
    BY <1>4, <2>1, SubSeqProperties
  <2>3. u = <<u[1], u[2]>>
    BY <2>2
  <2> QED BY <2>1, <2>2, <2>3
<1> QED BY <1>1, <1>2, <1>3, <1>4

LEMMA NulIsNoDigit == ~IsDigit("nul")
  BY DEF IsDigit, Lower

\* Where the digits behind k end.
EndsDigits(f, k, j) ==
    (\A i \in k + 1 .. j - 1 : IsDigit(f[i])) /\ (j <= Len(f) => ~IsDigit(f[j]))

LEMMA BehindIs ==
    ASSUME NEW f, IsFormat(f), NEW k \in 1 .. Len(f)
    PROVE  /\ Behind(f, k) \in k + 1 .. Len(f) + 1 /\ EndsDigits(f, k, Behind(f, k))
           /\ \A j \in k + 1 .. Len(f) + 1 : EndsDigits(f, k, j) => j = Behind(f, k)
<1>1. Len(f) \in Nat /\ k \in Nat
  BY DEF IsFormat
<1> DEFINE S == {j \in k + 1 .. Len(f) + 1 : j <= Len(f) => ~IsDigit(f[j])}
<1>2. S \in SUBSET Nat /\ S # {}
  <2>1. Len(f) + 1 \in S
    BY <1>1
  <2> QED BY <1>1, <2>1
<1>3. PICK n \in S : \A j \in S : n <= j
  <2> HIDE DEF S
  <2> QED BY <1>2, Smallest
<1>4. n \in k + 1 .. Len(f) + 1 /\ EndsDigits(f, k, n)
  <2>1. n \in k + 1 .. Len(f) + 1 /\ (n <= Len(f) => ~IsDigit(f[n]))
    OBVIOUS
  <2>2. ASSUME NEW i \in k + 1 .. n - 1 PROVE IsDigit(f[i])
    <3>1. i \in k + 1 .. Len(f) + 1 /\ ~(n <= i) /\ i <= Len(f)
      BY <1>1, <2>1, <2>2
    <3>2. i \notin S
      BY <1>3, <3>1
    <3> QED BY <3>1, <3>2
  <2> QED BY <2>1, <2>2 DEF EndsDigits
<1>5. ASSUME NEW i \in k + 1 .. Len(f) + 1, NEW j \in k + 1 .. Len(f) + 1,
             EndsDigits(f, k, i), EndsDigits(f, k, j), i < j
      PROVE  FALSE
  <2>1. i \in k + 1 .. j - 1 /\ i <= Len(f)
    BY <1>1, <1>5
  <2> QED BY <1>5, <2>1 DEF EndsDigits
<1>6. Behind(f, k) = CHOOSE j \in k + 1 .. Len(f) + 1 : EndsDigits(f, k, j)
  BY Zenon DEF Behind, EndsDigits
<1>7. Behind(f, k) \in k + 1 .. Len(f) + 1 /\ EndsDigits(f, k, Behind(f, k))
  BY <1>4, <1>6, Zenon
<1>8. ASSUME NEW j \in k + 1 .. Len(f) + 1, EndsDigits(f, k, j) PROVE j = Behind(f, k)
  <2>1. PICK b : b = Behind(f, k)
    OBVIOUS
  <2>2. b \in k + 1 .. Len(f) + 1 /\ EndsDigits(f, k, b)
    BY <1>7, <2>1
  <2>3. ~(b < j) /\ ~(j < b)
    BY <1>5, <1>8, <2>2
  <2>4. b = j
    BY <1>1, <2>2, <2>3
  <2> QED BY <2>1, <2>4
<1> QED BY <1>7, <1>8

\* The letter of a directive stands where the reference looks for it.
LEMMA LetterIs ==
    ASSUME NEW f, IsFormat(f), f = call.format, NEW k \in 1 .. Len(f), k = at
    PROVE  Letter = Behind(f, k)
<1>1. Len(f) \in Nat /\ k \in Nat
  BY DEF IsFormat
<1> DEFINE P(j) == ~IsDigit(Ch(j)) /\ \A i \in at + 1 .. j - 1 : IsDigit(Ch(i))
<1>2. ASSUME NEW j \in k + 1 .. Len(f) + 1 PROVE P(j) <=> EndsDigits(f, k, j)
  <2>1. j \in Nat \ {0}
    BY <1>1
  <2>2. IsDigit(Ch(j)) <=> j <= Len(f) /\ IsDigit(f[j])
    <3>1. CASE j <= Len(f)
      <4>1. Ch(j) = f[j]
        BY <2>1, <3>1, ChIs
      <4> QED BY <3>1, <4>1
    <3>2. CASE j > Len(f)
      <4>1. Ch(j) = "nul"
        BY <2>1, <3>2, ChIs
      <4> QED BY <1>1, <3>2, <4>1, NulIsNoDigit
    <3> QED BY <1>1, <3>1, <3>2
  <2>3. ASSUME NEW i \in k + 1 .. j - 1 PROVE Ch(i) = f[i]
    <3>1. i \in Nat \ {0} /\ i <= Len(f)
      BY <1>1, <1>2
    <3> QED BY <3>1, ChIs
  <2> QED BY <2>2, <2>3 DEF EndsDigits
<1>3. Letter = CHOOSE j \in at + 1 .. Len(call.format) + 1 : P(j)
  BY Zenon DEF Letter
<1>4. Letter = CHOOSE j \in k + 1 .. Len(f) + 1 : P(j)
  BY <1>3
<1>5. Letter \in k + 1 .. Len(f) + 1 /\ P(Letter)
  <2>1. Behind(f, k) \in k + 1 .. Len(f) + 1 /\ P(Behind(f, k))
    <3> HIDE DEF P
    <3> QED BY <1>2, BehindIs
  <2> HIDE DEF P
  <2> QED BY <1>4, <2>1, Zenon
<1>6. EndsDigits(f, k, Letter)
  <2> HIDE DEF P
  <2> QED BY <1>2, <1>5
<1> QED BY <1>5, <1>6, BehindIs

\* The directive at j and its length.
Finds(fn, f, j, c, l) ==
    Found(fn, f, j) = {Named(c, l)} /\ Len(Named(c, l)) = IF c = "l" THEN 2 ELSE 1

\* Which directives stand at j.
LEMMA FoundIs ==
    ASSUME NEW f, IsFormat(f), f = call.format, NEW j \in 1 .. Len(f) + 1,
           NEW fn \in {"printk", "snprintk"}, fn = call.fn,
           NEW c, NEW l, c = Ch(j), l = Ch(j + 1)
    PROVE  /\ Knows(c, l) => Finds(fn, f, j, c, l)
           /\ ~Knows(c, l) => Found(fn, f, j) = {}
<1>1. Len(f) \in Nat /\ j \in Nat \ {0} /\ j + 1 \in Nat \ {0} /\ f \in Seq(STRING)
  <2>1. f \in Seq(STRING \ {"nul"}) /\ Len(f) \in Nat
    BY DEF IsFormat
  <2> QED BY <2>1
<1> DEFINE At(d) == j + Len(d) <= Len(f) + 1 /\ SubSeq(f, j, j + Len(d) - 1) = d
<1>2. ASSUME NEW x, x # "nul" PROVE At(<<x>>) <=> c = x
  <2>1. Len(<<x>>) = 1 /\ j + 1 - 1 = j
    BY <1>1
  <2>2. CASE j <= Len(f)
    <3>1. c = f[j]
      BY <1>1, <2>2, ChIs
    <3>2. SubSeq(f, j, j) = <<f[j]>>
      BY <1>1, <2>2, PieceIs
    <3>3. <<f[j]>> = <<x>> <=> f[j] = x
      OBVIOUS
    <3>4. j + 1 <= Len(f) + 1
      BY <1>1, <2>2
    <3> QED BY <2>1, <3>1, <3>2, <3>3, <3>4
  <2>3. CASE ~(j <= Len(f))
    <3>1. c = "nul"
      BY <1>1, <2>3, ChIs
    <3>2. ~(j + 1 <= Len(f) + 1)
      BY <1>1, <2>3
    <3> QED BY <1>2, <2>1, <3>1, <3>2
  <2> QED BY <2>2, <2>3
<1>3. ASSUME NEW y, y # "nul" PROVE At(<<"l", y>>) <=> c = "l" /\ l = y
  <2>1. Len(<<"l", y>>) = 2 /\ j + 2 - 1 = j + 1
    BY <1>1
  <2>2. CASE j + 1 <= Len(f)
    <3>1. c = f[j] /\ l = f[j + 1]
      <4>1. j <= Len(f)
        BY <1>1, <2>2
      <4> QED BY <1>1, <2>2, <4>1, ChIs
    <3>2. SubSeq(f, j, j + 1) = <<f[j], f[j + 1]>>
      BY <1>1, <2>2, PieceIs
    <3>3. <<f[j], f[j + 1]>> = <<"l", y>> <=> f[j] = "l" /\ f[j + 1] = y
      OBVIOUS
    <3>4. j + 2 <= Len(f) + 1
      BY <1>1, <2>2
    <3> QED BY <2>1, <3>1, <3>2, <3>3, <3>4
  <2>3. CASE ~(j + 1 <= Len(f))
    <3>1. l = "nul"
      <4>1. j + 1 > Len(f)
        BY <1>1, <2>3
      <4> QED BY <1>1, <4>1, ChIs
    <3>2. ~(j + 2 <= Len(f) + 1)
      BY <1>1, <2>3
    <3> QED BY <1>3, <2>1, <3>1, <3>2
  <2> QED BY <2>2, <2>3
<1>4. Found(fn, f, j) = {d \in Directives(fn) : At(d)}
  BY DEF Found
<1> HIDE DEF At
<1>5. /\ \A x \in {"c", "s", "d", "i", "u", "x", "p", "X"} : At(<<x>>) <=> c = x
      /\ \A y \in {"u", "x", "X"} : At(<<"l", y>>) <=> c = "l" /\ l = y
  <2>2. \A x \in {"c", "s", "d", "i", "u", "x", "p", "X"} : x # "nul"
    OBVIOUS
  <2>3. \A y \in {"u", "x", "X"} : y \in {"c", "s", "d", "i", "u", "x", "p", "X"}
    OBVIOUS
  <2> QED BY <1>2, <1>3, <2>2, <2>3, Zenon
<1>6. ASSUME NEW d PROVE d \in Found(fn, f, j) <=> Knows(c, l) /\ d = Named(c, l)
  <2>1. CASE fn = "printk"
    <3>1. d \in Found(fn, f, j) <=>
            \/ \E x \in {"c", "s", "d", "i", "u", "x", "p", "X"} : d = <<x>> /\ c = x
            \/ \E y \in {"u", "x", "X"} : d = <<"l", y>> /\ c = "l" /\ l = y
      BY <1>4, <1>5, <2>1 DEF Directives
    <3>2. Knows(c, l) <=> \/ \E x \in {"c", "s", "d", "i", "u", "x", "p", "X"} : c = x
                          \/ \E y \in {"u", "x", "X"} : c = "l" /\ l = y
      BY <2>1 DEF Knows, printkKnows
    <3> QED BY <3>1, <3>2 DEF Named
  <2>2. CASE fn = "snprintk"
    <3>1. d \in Found(fn, f, j) <=>
            \/ \E x \in {"c", "s", "d", "i", "u", "x", "p"} : d = <<x>> /\ c = x
            \/ d = <<"l", "u">> /\ c = "l" /\ l = "u"
      BY <1>4, <1>5, <2>2 DEF Directives
    <3>2. Knows(c, l) <=> \/ \E x \in {"c", "s", "d", "i", "u", "x", "p"} : c = x
                          \/ c = "l" /\ l = "u"
      BY <2>2 DEF Knows, snprintkKnows
    <3> QED BY <3>1, <3>2 DEF Named
  <2> QED BY <2>1, <2>2
<1>7. Len(Named(c, l)) = IF c = "l" THEN 2 ELSE 1
  BY DEF Named
<1>8. Knows(c, l) => Found(fn, f, j) = {Named(c, l)}
  BY <1>6
<1>9. ~Knows(c, l) => Found(fn, f, j) = {}
  BY <1>6
<1> QED BY <1>7, <1>8, <1>9 DEF Finds

-----------------------------------------------------------------------------
(* The meaning of a format.                                                 *)

\* The parts of a directive at k, as the reference finds them.
TheDirective(fn, f, k) == CHOOSE d \in Found(fn, f, Behind(f, k)) : TRUE
TheWidth(f, k) == Decimal(SubSeq(f, k + 1, Behind(f, k) - 1))
ThePad(f, k) == IF Behind(f, k) > k + 1 /\ f[k + 1] = "0" THEN "0" ELSE " "
IsPercent(f, k) == k < Len(f) /\ f[k + 1] = "%"

\* The reference, case by case.
LEMMA FromIs ==
    ASSUME NEW fn, NEW f, NEW args, NEW m, NEW k, NEW used
    PROVE  /\ k > Len(f) => From(fn, f, args, m, k, used) = << >>
           /\ ~(k > Len(f)) /\ f[k] # "%" => From(fn, f, args, m, k, used) = <<f[k]>> \o m[k + 1][used]
           /\ ~(k > Len(f)) /\ f[k] = "%" /\ IsPercent(f, k) =>
                 From(fn, f, args, m, k, used) = <<"%">> \o m[k + 2][used]
           /\ ~(k > Len(f)) /\ f[k] = "%" /\ ~IsPercent(f, k) /\ Found(fn, f, Behind(f, k)) # {} =>
                 From(fn, f, args, m, k, used) =
                    Value(fn, TheDirective(fn, f, k), TheWidth(f, k), ThePad(f, k), args[used + 1])
                      \o m[Behind(f, k) + Len(TheDirective(fn, f, k))][used + 1]
           /\ ~(k > Len(f)) /\ f[k] = "%" /\ ~IsPercent(f, k) /\ Found(fn, f, Behind(f, k)) = {} =>
                 From(fn, f, args, m, k, used) =
                    IF fn = "printk" /\ Behind(f, k) <= Len(f) /\ f[Behind(f, k)] = "l"
                    THEN m[Behind(f, k) + 1][used]
                    ELSE SubSeq(f, k, Len(f))
<1>1. k > Len(f) => From(fn, f, args, m, k, used) = << >>
  BY Zenon DEF From
<1>2. ~(k > Len(f)) /\ f[k] # "%" => From(fn, f, args, m, k, used) = <<f[k]>> \o m[k + 1][used]
  BY Zenon DEF From
<1>3. ~(k > Len(f)) /\ f[k] = "%" /\ IsPercent(f, k) =>
                 From(fn, f, args, m, k, used) = <<"%">> \o m[k + 2][used]
  BY Zenon DEF From, IsPercent
<1>4. ~(k > Len(f)) /\ f[k] = "%" /\ ~IsPercent(f, k) /\ Found(fn, f, Behind(f, k)) # {} =>
                 From(fn, f, args, m, k, used) =
                    Value(fn, TheDirective(fn, f, k), TheWidth(f, k), ThePad(f, k), args[used + 1])
                      \o m[Behind(f, k) + Len(TheDirective(fn, f, k))][used + 1]
  BY Zenon DEF From, IsPercent, TheDirective, TheWidth, ThePad
<1>5. ~(k > Len(f)) /\ f[k] = "%" /\ ~IsPercent(f, k) /\ Found(fn, f, Behind(f, k)) = {} =>
                 From(fn, f, args, m, k, used) =
                    IF fn = "printk" /\ Behind(f, k) <= Len(f) /\ f[Behind(f, k)] = "l"
                    THEN m[Behind(f, k) + 1][used]
                    ELSE SubSeq(f, k, Len(f))
  BY Zenon DEF From, IsPercent
<1> QED BY <1>1, <1>2, <1>3, <1>4, <1>5, Zenon

\* A directive that is found ends in the format.
LEMMA DirectiveEnds ==
    ASSUME NEW fn, NEW f, IsFormat(f), NEW k \in 1 .. Len(f), Found(fn, f, Behind(f, k)) # {}
    PROVE  /\ TheDirective(fn, f, k) \in Directives(fn)
           /\ Len(TheDirective(fn, f, k)) \in {1, 2}
           /\ Behind(f, k) + Len(TheDirective(fn, f, k)) \in k + 2 .. Len(f) + 1
<1>1. PICK d, j : d = TheDirective(fn, f, k) /\ j = Behind(f, k)
  OBVIOUS
<1>2. d \in Found(fn, f, j)
  BY <1>1, Zenon DEF TheDirective
<1>3. d \in Directives(fn) /\ j + Len(d) <= Len(f) + 1
  BY <1>2 DEF Found
<1>4. Len(d) \in {1, 2}
  BY <1>3 DEF Directives
<1>5. j \in k + 1 .. Len(f) + 1 /\ Len(f) \in Nat
  BY <1>1, BehindIs DEF IsFormat
<1>6. j + Len(d) \in k + 2 .. Len(f) + 1
  BY <1>3, <1>4, <1>5
<1> QED BY <1>1, <1>3, <1>4, <1>6

\* A position uses what comes behind it.
LEMMA FromUses ==
    ASSUME NEW fn, NEW f, IsFormat(f), NEW args, NEW m, NEW g, NEW k \in 1 .. Len(f) + 1, NEW used,
           \A i \in k + 1 .. Len(f) + 1 : m[i] = g[i]
    PROVE  From(fn, f, args, m, k, used) = From(fn, f, args, g, k, used)
<1>0. Len(f) \in Nat
  BY DEF IsFormat
<1>1. CASE k > Len(f)
  BY <1>1, FromIs, Zenon
<1>2. CASE ~(k > Len(f)) /\ f[k] # "%"
  <2>1. k + 1 \in k + 1 .. Len(f) + 1
    BY <1>0, <1>2
  <2>7. m[k + 1] = g[k + 1]
    BY <2>1
  <2>8. From(fn, f, args, m, k, used) = <<f[k]>> \o m[k + 1][used]
    BY <1>2, Zenon DEF From
  <2>9. From(fn, f, args, g, k, used) = <<f[k]>> \o g[k + 1][used]
    BY <1>2, Zenon DEF From
  <2> QED BY <2>7, <2>8, <2>9, Zenon
<1>3. CASE ~(k > Len(f)) /\ f[k] = "%" /\ IsPercent(f, k)
  <2>1. k + 2 \in k + 1 .. Len(f) + 1
    BY <1>0, <1>3 DEF IsPercent
  <2>7. m[k + 2] = g[k + 2]
    BY <2>1
  <2>8. From(fn, f, args, m, k, used) = <<"%">> \o m[k + 2][used]
    BY <1>3, Zenon DEF From, IsPercent
  <2>9. From(fn, f, args, g, k, used) = <<"%">> \o g[k + 2][used]
    BY <1>3, Zenon DEF From, IsPercent
  <2> QED BY <2>7, <2>8, <2>9, Zenon
<1>4. CASE ~(k > Len(f)) /\ f[k] = "%" /\ ~IsPercent(f, k) /\ Found(fn, f, Behind(f, k)) # {}
  <2>1. k \in 1 .. Len(f)
    BY <1>0, <1>4
  <2>2. Behind(f, k) + Len(TheDirective(fn, f, k)) \in k + 2 .. Len(f) + 1
    BY <1>4, <2>1, DirectiveEnds
  <2>3. PICK n : n = Behind(f, k) + Len(TheDirective(fn, f, k))
    OBVIOUS
  <2>4. n \in k + 1 .. Len(f) + 1
    BY <1>0, <2>2, <2>3
  <2>5. m[n] = g[n]
    BY <2>4
  <2>8. From(fn, f, args, m, k, used) = 
           Value(fn, TheDirective(fn, f, k), TheWidth(f, k), ThePad(f, k), args[used + 1])
             \o m[n][used + 1]
    BY <1>4, <2>3, Zenon DEF From, IsPercent, TheDirective, TheWidth, ThePad
  <2>9. From(fn, f, args, g, k, used) = 
           Value(fn, TheDirective(fn, f, k), TheWidth(f, k), ThePad(f, k), args[used + 1])
             \o g[n][used + 1]
    BY <1>4, <2>3, Zenon DEF From, IsPercent, TheDirective, TheWidth, ThePad
  <2> QED BY <2>5, <2>8, <2>9, Zenon
<1>5. CASE ~(k > Len(f)) /\ f[k] = "%" /\ ~IsPercent(f, k) /\ Found(fn, f, Behind(f, k)) = {}
  <2>1. k \in 1 .. Len(f)
    BY <1>0, <1>5
  <2>2. Behind(f, k) \in k + 1 .. Len(f) + 1
    BY <2>1, BehindIs
  <2>3. CASE fn = "printk" /\ Behind(f, k) <= Len(f) /\ f[Behind(f, k)] = "l"
    <3>1. Behind(f, k) + 1 \in k + 1 .. Len(f) + 1
      BY <1>0, <2>2, <2>3
    <3>2. m[Behind(f, k) + 1] = g[Behind(f, k) + 1]
      BY <3>1
    <3>3. From(fn, f, args, m, k, used) = m[Behind(f, k) + 1][used]
      BY <1>5, <2>3, Zenon DEF From, IsPercent
    <3>4. From(fn, f, args, g, k, used) = g[Behind(f, k) + 1][used]
      BY <1>5, <2>3, Zenon DEF From, IsPercent
    <3> QED BY <3>2, <3>3, <3>4, Zenon
  <2>4. CASE ~(fn = "printk" /\ Behind(f, k) <= Len(f) /\ f[Behind(f, k)] = "l")
    BY <1>5, <2>4, FromIs, Zenon
  <2> QED BY <2>3, <2>4
<1> QED BY <1>1, <1>2, <1>3, <1>4, <1>5, Zenon

\* The function m of the reference.
Means(fn, f, args) ==
    CHOOSE m : m = [k \in 1 .. Len(f) + 1 |-> [used \in Nat |-> From(fn, f, args, m, k, used)]]

LEMMA MeaningIs ==
    ASSUME NEW fn, NEW f, NEW args
    PROVE  Meaning(fn, f, args) = Means(fn, f, args)[1][0]
  BY Zenon DEF Meaning, Means

LEMMA MeansIs ==
    ASSUME NEW fn, NEW f, IsFormat(f), NEW args, NEW k \in 1 .. Len(f) + 1, NEW used \in Nat
    PROVE  Means(fn, f, args)[k][used] = From(fn, f, args, Means(fn, f, args), k, used)
<1>0. Len(f) \in Nat
  BY DEF IsFormat
<1> DEFINE row(m, i) == [u \in Nat |-> From(fn, f, args, m, i, u)]
           G(m) == [i \in 1 .. Len(f) + 1 |-> row(m, i)]
           Good(n, m) == \A i \in 1 .. Len(f) + 1 : i > Len(f) + 1 - n => m[i] = row(m, i)
           Set == {n \in Nat : n <= Len(f) + 1 =>
                     \E m : m = [i \in 1 .. Len(f) + 1 |-> m[i]] /\ Good(n, m)}
<1>1. ASSUME NEW m, NEW g, NEW i \in 1 .. Len(f) + 1, \A j \in i + 1 .. Len(f) + 1 : m[j] = g[j]
      PROVE  row(m, i) = row(g, i)
  <2>1. ASSUME NEW u \in Nat PROVE From(fn, f, args, m, i, u) = From(fn, f, args, g, i, u)
    BY <1>1, FromUses
  <2> QED BY <2>1, Zenon
<1> HIDE DEF row
<1>2. 0 \in Set
  <2> DEFINE z == [i \in 1 .. Len(f) + 1 |-> 0]
  <2>1. \A i \in 1 .. Len(f) + 1 : ~(i > Len(f) + 1 - 0)
    BY <1>0
  <2>2. z = [i \in 1 .. Len(f) + 1 |-> z[i]]
    OBVIOUS
  <2>3. Good(0, z)
    BY <2>1
  <2> QED BY <2>2, <2>3
<1>3. ASSUME NEW n \in Set PROVE n + 1 \in Set
  <2>0. n \in Nat /\ n + 1 \in Nat
    BY <1>3
  <2> SUFFICES ASSUME n + 1 <= Len(f) + 1
               PROVE  \E m : m = [i \in 1 .. Len(f) + 1 |-> m[i]] /\ Good(n + 1, m)
    BY <2>0, Zenon
  <2>1. PICK m : m = [i \in 1 .. Len(f) + 1 |-> m[i]] /\ Good(n, m)
    <3>1. n <= Len(f) + 1
      BY <1>0, <2>0
    <3> HIDE DEF Good
    <3> QED BY <1>3, <3>1, Zenon
  <2>2. PICK p : p = Len(f) + 1 - n
    OBVIOUS
  <2>3. p \in 1 .. Len(f) + 1
    BY <1>0, <2>0, <2>2
  <2> DEFINE g == [i \in 1 .. Len(f) + 1 |-> IF i = p THEN row(m, p) ELSE m[i]]
  <2>4. g = [i \in 1 .. Len(f) + 1 |-> g[i]]
    BY Zenon
  <2>5. \A j \in 1 .. Len(f) + 1 : j # p => g[j] = m[j]
    BY Zenon
  <2>6. g[p] = row(m, p)
    BY <2>3, Zenon
  <2> HIDE DEF g
  <2>7. ASSUME NEW i \in 1 .. Len(f) + 1, i > Len(f) + 1 - (n + 1) PROVE g[i] = row(g, i)
    <3>1. i >= p /\ \A j \in i + 1 .. Len(f) + 1 : j \in 1 .. Len(f) + 1 /\ j # p
      BY <1>0, <2>0, <2>2, <2>3, <2>7
    <3>2. \A j \in i + 1 .. Len(f) + 1 : m[j] = g[j]
      BY <2>5, <3>1
    <3>3. row(m, i) = row(g, i)
      BY <1>1, <3>2
    <3>4. g[i] = row(m, i)
      <4>1. CASE i = p
        BY <2>6, <4>1
      <4>2. CASE i # p
        <5>1. i > Len(f) + 1 - n
          BY <1>0, <2>0, <2>2, <3>1, <4>2
        <5> QED BY <2>1, <2>5, <4>2, <5>1
      <4> QED BY <4>1, <4>2
    <3> QED BY <3>3, <3>4
  <2>8. Good(n + 1, g)
    BY <2>7
  <2> HIDE DEF Good
  <2> QED BY <2>4, <2>8
<1>4. Set \in SUBSET Nat
  OBVIOUS
<1> HIDE DEF Set
<1>5. Len(f) + 1 \in Set
  BY <1>0, <1>2, <1>3, <1>4, SetInduction
<1>6. PICK m : m = [i \in 1 .. Len(f) + 1 |-> m[i]] /\ Good(Len(f) + 1, m)
  <2>1. Len(f) + 1 <= Len(f) + 1
    BY <1>0
  <2> HIDE DEF Good
  <2> QED BY <1>5, <2>1, Zenon DEF Set
<1>7. \A i \in 1 .. Len(f) + 1 : m[i] = row(m, i)
  <2>1. \A i \in 1 .. Len(f) + 1 : i > Len(f) + 1 - (Len(f) + 1)
    BY <1>0
  <2> QED BY <1>6, <2>1
<1>8. m = G(m)
  BY <1>6, <1>7, Zenon
<1>9. PICK w : w = Means(fn, f, args)
  OBVIOUS
<1>10. w = G(w)
  <2>1. w = CHOOSE x : x = G(x)
    BY <1>9, Zenon DEF Means, row
  <2> HIDE DEF G
  <2> QED BY <1>8, <2>1, Zenon
<1>11. w[k] = row(w, k)
  BY <1>10, Zenon
<1>12. w[k][used] = From(fn, f, args, w, k, used)
  BY <1>11, Zenon DEF row
<1> QED BY <1>9, <1>12

LEMMA ValueTyped ==
    ASSUME NEW fn \in {"printk", "snprintk"}, NEW d \in Directives(fn), NEW a \in Args, NEW w \in Int,
           NEW pad \in Sym
    PROVE  Value(fn, d, w, pad, a) \in Texts
<1>1. CASE d \in {<<"c">>, <<"s">>}
  <2>1. CASE d = <<"c">>
    <3>1. Value(fn, <<"c">>, w, pad, a) = <<a.char>>
      BY ValueIs
    <3>2. <<a.char>> \in Texts
      BY PartsAre
    <3> QED BY <2>1, <3>1, <3>2
  <2>2. CASE d = <<"s">>
    <3>1. Value(fn, <<"s">>, w, pad, a) = a.str
      BY ValueIs
    <3>2. a.str \in Texts
      BY PartsAre
    <3> QED BY <2>2, <3>1, <3>2
  <2> QED BY <1>1, <2>1, <2>2
<1>2. CASE d = <<"p">>
  <2>1. Value(fn, <<"p">>, w, pad, a) = Field(<<"0", "x">>, Numeral(a.word, 16, Lower), 0, pad)
    BY ValueIs
  <2>2. Field(<<"0", "x">>, Numeral(a.word, 16, Lower), 0, pad) \in Texts
    BY PartsAre
  <2> QED BY <1>2, <2>1, <2>2
<1>3. ASSUME NEW c \in {"d", "i"}, d = <<c>> PROVE Value(fn, d, w, pad, a) \in Texts
  BY <1>3, SignedAre
<1>4. ASSUME NEW v \in {w, 0}, NEW b \in {10, 16}, NEW ds \in {Lower, Upper}
      PROVE  Field(<< >>, Numeral(a.word, b, ds), v, pad) \in Texts
  <2>1. /\ utoa_padded_custom(a.word, b, ds, w, pad) = Field(<< >>, Numeral(a.word, b, ds), w, pad)
        /\ utoa_padded_custom(a.word, b, ds, w, pad) \in Texts
        /\ utoa_custom(a.word, b, ds) = Field(<< >>, Numeral(a.word, b, ds), 0, pad)
        /\ utoa_custom(a.word, b, ds) \in Texts
    <3>1. \A e \in {10, 16}, es \in {Lower, Upper} :
             /\ utoa_padded_custom(a.word, e, es, w, pad) = Field(<< >>, Numeral(a.word, e, es), w, pad)
             /\ utoa_padded_custom(a.word, e, es, w, pad) \in Texts
             /\ utoa_custom(a.word, e, es) = Field(<< >>, Numeral(a.word, e, es), 0, pad)
             /\ utoa_custom(a.word, e, es) \in Texts
      BY PartsAre, Zenon
    <3> QED BY <1>4, <3>1, Zenon
  <2>2. CASE v = w
    BY <2>1, <2>2, Zenon
  <2>3. CASE v = 0
    BY <2>1, <2>3, Zenon
  <2> QED BY <1>4, <2>2, <2>3
<1>5. CASE d \in {<<"u">>, <<"l", "u">>}
  <2>1. Value(fn, d, w, pad, a) = Field(<< >>, Numeral(a.word, 10, Lower), w, pad)
    BY <1>5, ValueIs
  <2> QED BY <2>1, <1>4
<1>6. CASE d \in {<<"x">>, <<"l", "x">>}
  <2>1. Value(fn, d, w, pad, a) = Field(<< >>, Numeral(a.word, 16, Lower), IF fn = "printk" THEN w ELSE 0, pad)
    BY <1>6, ValueIs
  <2> QED BY <2>1, <1>4
<1>7. CASE d \in {<<"X">>, <<"l", "X">>}
  <2>1. Value(fn, d, w, pad, a) = Field(<< >>, Numeral(a.word, 16, Upper), IF fn = "printk" THEN w ELSE 0, pad)
    BY <1>7, ValueIs
  <2> QED BY <2>1, <1>4
<1>8. \/ d \in {<<"c">>, <<"s">>} \/ d = <<"p">> \/ (\E c \in {"d", "i"} : d = <<c>>)
      \/ d \in {<<"u">>, <<"l", "u">>} \/ d \in {<<"x">>, <<"l", "x">>} \/ d \in {<<"X">>, <<"l", "X">>}
  BY DEF Directives
<1> QED BY <1>1, <1>2, <1>3, <1>5, <1>6, <1>7, <1>8

\* The width and the pad character that the reference finds.
LEMMA WidthIs ==
    ASSUME NEW f, IsFormat(f), NEW k \in 1 .. Len(f)
    PROVE  TheWidth(f, k) \in Nat /\ ThePad(f, k) \in Sym
<1>1. PICK j : j = Behind(f, k)
  OBVIOUS
<1>2. j \in k + 1 .. Len(f) + 1 /\ EndsDigits(f, k, j)
  BY <1>1, BehindIs
<1>3. f \in Seq(STRING \ {"nul"}) /\ Len(f) \in Nat
  BY DEF IsFormat
<1>4. \A i \in k + 1 .. j - 1 : i \in 1 .. Len(f)
  BY <1>2, <1>3
<1>5. \A i \in k + 1 .. j - 1 : f[i] \in STRING \ {"nul"}
  BY <1>3, <1>4
<1>6. PICK s, p, q : s = SubSeq(f, k + 1, j - 1) /\ p = k + 1 /\ q = j - 1
  OBVIOUS
<1>7. p \in Int /\ q \in Int /\ \A i \in p .. q : f[i] \in STRING \ {"nul"}
  BY <1>2, <1>3, <1>5, <1>6
<1>8. PICK T : T = STRING \ {"nul"}
  OBVIOUS
<1>9. /\ SubSeq(f, p, q) \in Seq(T) /\ Len(SubSeq(f, p, q)) = (IF p <= q THEN q - p + 1 ELSE 0)
      /\ \A i \in 1 .. q - p + 1 : SubSeq(f, p, q)[i] = f[p + i - 1]
  <2>1. \A i \in p .. q : f[i] \in T
    BY <1>7, <1>8
  <2>2. p \in Int /\ q \in Int
    BY <1>7
  <2> QED BY ONLY <2>1, <2>2, SubSeqProperties
<1>10. /\ Len(s) \in Nat /\ Len(s) = (IF p <= q THEN q - p + 1 ELSE 0)
       /\ \A i \in 1 .. q - p + 1 : s[i] = f[p + i - 1]
  BY <1>6, <1>7, <1>9
<1>11. ASSUME NEW i \in 1 .. Len(s) PROVE IsDigit(s[i])
  <2>1. i \in 1 .. q - p + 1 /\ p + i - 1 \in p .. q
    BY <1>7, <1>10
  <2>2. IsDigit(f[p + i - 1])
    BY <1>2, <1>6, <2>1 DEF EndsDigits
  <2> QED BY <1>10, <2>1, <2>2
<1>12. Decimal(s) \in Nat
  BY <1>10, <1>11, DecimalIs
<1>13. TheWidth(f, k) \in Nat
  BY <1>1, <1>6, <1>12 DEF TheWidth
<1>14. ThePad(f, k) \in Sym
  BY Zenon DEF ThePad, Sym
<1> QED BY <1>13, <1>14

\* Arguments enough for a format.
Enough(f, args) == IsFormat(f) /\ args \in Seq(Args) /\ Len(f) <= 2 * Len(args)

\* A directive behind used arguments has an argument.
LEMMA DirectiveTakes ==
    ASSUME NEW fn \in {"printk", "snprintk"}, NEW f, NEW args, Enough(f, args),
           NEW k \in 1 .. Len(f), Found(fn, f, Behind(f, k)) # {}, NEW used \in Nat, 2 * used <= k - 1
    PROVE  /\ args[used + 1] \in Args
           /\ Value(fn, TheDirective(fn, f, k), TheWidth(f, k), ThePad(f, k), args[used + 1]) \in Texts
           /\ 2 * (used + 1) <= (Behind(f, k) + Len(TheDirective(fn, f, k))) - 1
<1>0. IsFormat(f) /\ args \in Seq(Args) /\ Len(f) <= 2 * Len(args) /\ Len(f) \in Nat /\ Len(args) \in Nat
  BY DEF Enough, IsFormat
<1>1. PICK n, d : n = Behind(f, k) + Len(TheDirective(fn, f, k)) /\ d = TheDirective(fn, f, k)
  OBVIOUS
<1>2. n \in k + 2 .. Len(f) + 1 /\ d \in Directives(fn)
  BY <1>0, <1>1, DirectiveEnds
<1>3. used + 1 \in 1 .. Len(args) /\ 2 * (used + 1) <= n - 1
  BY <1>0, <1>2
<1>4. args[used + 1] \in Args
  BY <1>0, <1>3
<1>5. TheWidth(f, k) \in Int /\ ThePad(f, k) \in Sym
  BY <1>0, WidthIs
<1>6. Value(fn, d, TheWidth(f, k), ThePad(f, k), args[used + 1]) \in Texts
  BY <1>2, <1>4, <1>5, ValueTyped
<1> QED BY <1>1, <1>3, <1>4, <1>6

LEMMA PieceTyped ==
    ASSUME NEW f, IsFormat(f), NEW i \in Nat \ {0}, NEW j \in Nat, j <= Len(f)
    PROVE  SubSeq(f, i, j) \in Texts /\ Len(SubSeq(f, i, j)) = IF i <= j THEN j - i + 1 ELSE 0
<1>1. f \in Seq(STRING \ {"nul"}) /\ Len(f) \in Nat
  BY DEF IsFormat
<1>2. \A n \in i .. j : n \in 1 .. Len(f)
  BY <1>1
<1>3. \A x \in STRING : x \in Sym
  BY DEF Sym
<1>4. \A n \in i .. j : f[n] \in Sym
  <2>1. \A n \in i .. j : f[n] \in STRING
    BY <1>1, <1>2
  <2> QED BY <1>3, <2>1
<1>5. i \in Int /\ j \in Int
  OBVIOUS
<1>6. SubSeq(f, i, j) \in Seq(Sym) /\ Len(SubSeq(f, i, j)) = IF i <= j THEN j - i + 1 ELSE 0
  BY ONLY <1>4, <1>5, SubSeqProperties
<1> QED BY <1>6 DEF Texts

LEMMA JoinTyped ==
    ASSUME NEW s \in Texts, NEW t \in Texts
    PROVE  s \o t \in Texts
  BY ConcatProperties DEF Texts

LEMMA LetterTyped ==
    ASSUME NEW f, IsFormat(f), NEW k \in 1 .. Len(f)
    PROVE  <<f[k]>> \in Texts /\ <<"%">> \in Texts
<1>1. f \in Seq(STRING \ {"nul"})
  BY DEF IsFormat
<1>2. f[k] \in STRING
  BY <1>1
<1>3. f[k] \in Sym
  BY <1>2 DEF Sym
<1>4. "%" \in Sym
  BY Zenon DEF Sym
<1> QED BY <1>3, <1>4 DEF Texts

\* Meanings are texts.
LEMMA MeansTyped ==
    ASSUME NEW fn \in {"printk", "snprintk"}, NEW f, NEW args, Enough(f, args),
           NEW k \in 1 .. Len(f) + 1, NEW used \in Nat, 2 * used <= k - 1
    PROVE  Means(fn, f, args)[k][used] \in Texts
<1>0. IsFormat(f) /\ Len(f) \in Nat
  BY DEF Enough, IsFormat
<1>1. PICK m : m = Means(fn, f, args)
  OBVIOUS
<1>2. ASSUME NEW i \in 1 .. Len(f) + 1, NEW u \in Nat PROVE m[i][u] = From(fn, f, args, m, i, u)
  BY <1>0, <1>1, MeansIs
<1> DEFINE Good(i) == \A u \in Nat : 2 * u <= i - 1 => m[i][u] \in Texts
           Set == {n \in Nat : \A i \in 1 .. Len(f) + 1 : i >= Len(f) + 1 - n => Good(i)}
<1>3. ASSUME NEW i \in 1 .. Len(f) + 1, \A j \in i + 1 .. Len(f) + 1 : Good(j),
             NEW u \in Nat, 2 * u <= i - 1
      PROVE  m[i][u] \in Texts
  <2>0. PICK x : x = From(fn, f, args, m, i, u)
    OBVIOUS
  <2>1. CASE i > Len(f)
    <3>1. x = << >>
      BY <2>0, <2>1, Zenon DEF From
    <3>2. << >> \in Texts
      BY NoSign, Zenon
    <3>3. m[i][u] = x
      BY <1>2, <2>0, Zenon
    <3> QED BY <3>1, <3>2, <3>3, Zenon
  <2>2. CASE ~(i > Len(f)) /\ f[i] # "%"
    <3>1. i \in 1 .. Len(f) /\ i + 1 \in i + 1 .. Len(f) + 1 /\ 2 * u <= (i + 1) - 1
      BY <1>0, <1>3, <2>2
    <3>2. x = <<f[i]>> \o m[i + 1][u]
      BY <2>0, <2>2, Zenon DEF From
    <3>3. m[i + 1][u] \in Texts
      BY <1>3, <3>1
    <3>4. <<f[i]>> \in Texts
      BY <1>0, <3>1, LetterTyped
    <3>5. x \in Texts
      BY <3>2, <3>3, <3>4, JoinTyped
    <3> QED BY <1>2, <2>0, <3>5
  <2>3. CASE ~(i > Len(f)) /\ f[i] = "%" /\ IsPercent(f, i)
    <3>1. i \in 1 .. Len(f) /\ i + 2 \in i + 1 .. Len(f) + 1 /\ 2 * u <= (i + 2) - 1
      BY <1>0, <1>3, <2>3 DEF IsPercent
    <3>2. x = <<"%">> \o m[i + 2][u]
      BY <2>0, <2>3, Zenon DEF From, IsPercent
    <3>3. m[i + 2][u] \in Texts
      BY <1>3, <3>1
    <3>4. <<"%">> \in Texts
      BY <1>0, <3>1, LetterTyped
    <3>5. x \in Texts
      BY <3>2, <3>3, <3>4, JoinTyped
    <3> QED BY <1>2, <2>0, <3>5
  <2>4. CASE ~(i > Len(f)) /\ f[i] = "%" /\ ~IsPercent(f, i) /\ Found(fn, f, Behind(f, i)) # {}
    <3>1. i \in 1 .. Len(f)
      BY <1>0, <2>4
    <3>2. PICK n, t, v : /\ n = Behind(f, i) + Len(TheDirective(fn, f, i)) /\ v = u + 1
                         /\ t = Value(fn, TheDirective(fn, f, i), TheWidth(f, i), ThePad(f, i), args[u + 1])
      OBVIOUS
    <3>3. x = t \o m[n][v]
      BY <2>0, <2>4, <3>2, Zenon DEF From, IsPercent, TheDirective, TheWidth, ThePad
    <3>4. t \in Texts /\ 2 * v <= n - 1 /\ v \in Nat
      BY <1>3, <2>4, <3>1, <3>2, DirectiveTakes
    <3>5. n \in i + 2 .. Len(f) + 1
      BY <1>0, <2>4, <3>1, <3>2, DirectiveEnds
    <3>6. n \in i + 1 .. Len(f) + 1
      BY <3>5
    <3>7. m[n][v] \in Texts
      BY <1>3, <3>4, <3>6
    <3>8. x \in Texts
      BY <3>3, <3>4, <3>7, JoinTyped
    <3> QED BY <1>2, <2>0, <3>8
  <2>5. CASE ~(i > Len(f)) /\ f[i] = "%" /\ ~IsPercent(f, i) /\ Found(fn, f, Behind(f, i)) = {}
    <3>1. i \in 1 .. Len(f)
      BY <1>0, <2>5
    <3>2. PICK j : j = Behind(f, i)
      OBVIOUS
    <3>3. j \in i + 1 .. Len(f) + 1
      BY <1>0, <3>1, <3>2, BehindIs
    <3>4. CASE fn = "printk" /\ j <= Len(f) /\ f[j] = "l"
      <4>1. x = m[j + 1][u]
        BY <2>0, <2>5, <3>2, <3>4, Zenon DEF From, IsPercent
      <4>2. j + 1 \in i + 1 .. Len(f) + 1 /\ 2 * u <= (j + 1) - 1
        BY <1>0, <1>3, <3>3, <3>4
      <4>3. m[j + 1][u] \in Texts
        BY <1>3, <4>2
      <4> QED BY <1>2, <2>0, <4>1, <4>3
    <3>5. CASE ~(fn = "printk" /\ j <= Len(f) /\ f[j] = "l")
      <4>1. x = SubSeq(f, i, Len(f))
        BY <2>0, <2>5, <3>2, <3>5, Zenon DEF From, IsPercent
      <4>2. x \in Texts
        BY <1>0, <3>1, <4>1, PieceTyped
      <4> QED BY <1>2, <2>0, <4>2
    <3> QED BY <3>4, <3>5
  <2> QED BY <2>1, <2>2, <2>3, <2>4, <2>5, Zenon
<1>4. ASSUME NEW i \in 1 .. Len(f) + 1, \A j \in i + 1 .. Len(f) + 1 : Good(j) PROVE Good(i)
  BY <1>3, <1>4
<1> HIDE DEF Good
<1>5. 0 \in Set
  <2>1. ASSUME NEW i \in 1 .. Len(f) + 1, i >= Len(f) + 1 - 0 PROVE Good(i)
    <3>1. i + 1 .. Len(f) + 1 = {}
      BY <1>0, <2>1
    <3> QED BY <1>4, <3>1
  <2> QED BY <2>1
<1>6. ASSUME NEW n \in Set PROVE n + 1 \in Set
  <2>1. n \in Nat /\ n + 1 \in Nat /\ \A i \in 1 .. Len(f) + 1 : i >= Len(f) + 1 - n => Good(i)
    BY <1>6
  <2>2. ASSUME NEW i \in 1 .. Len(f) + 1, i >= Len(f) + 1 - (n + 1) PROVE Good(i)
    <3>1. ASSUME NEW j \in i + 1 .. Len(f) + 1 PROVE Good(j)
      <4>1. j \in 1 .. Len(f) + 1 /\ j >= Len(f) + 1 - n
        BY <1>0, <2>1, <2>2
      <4> QED BY <2>1, <4>1
    <3> QED BY <1>4, <3>1
  <2> QED BY <2>1, <2>2
<1>7. Set \in SUBSET Nat
  OBVIOUS
<1> HIDE DEF Set
<1>8. Len(f) + 1 \in Set
  BY <1>0, <1>5, <1>6, <1>7, SetInduction
<1>9. Good(k)
  <2>1. k >= Len(f) + 1 - (Len(f) + 1)
    BY <1>0
  <2> QED BY <1>8, <2>1 DEF Set
<1> QED BY <1>1, <1>9 DEF Good

\* A piece is its first character and the rest.
LEMMA PieceSplit ==
    ASSUME NEW f, IsFormat(f), NEW q \in Nat \ {0}, NEW to \in Nat, q <= to, to <= Len(f)
    PROVE  SubSeq(f, q, to) = <<f[q]>> \o SubSeq(f, q + 1, to)
<1>0. f \in Seq(STRING \ {"nul"}) /\ Len(f) \in Nat /\ q \in 1 .. Len(f) /\ q + 1 \in Nat \ {0}
  BY DEF IsFormat
<1>1. PICK s, t, c : s = SubSeq(f, q, to) /\ t = SubSeq(f, q + 1, to) /\ c = <<f[q]>>
  OBVIOUS
<1>2. s \in Seq(Sym) /\ Len(s) = to - q + 1
  BY <1>0, <1>1, PieceTyped DEF Texts
<1>3. t \in Seq(Sym) /\ Len(t) = to - q
  <2>1. t \in Texts /\ Len(t) = IF q + 1 <= to THEN to - (q + 1) + 1 ELSE 0
    BY <1>0, <1>1, PieceTyped
  <2> QED BY <2>1 DEF Texts
<1>4. c \in Seq(Sym) /\ Len(c) = 1 /\ c[1] = f[q]
  BY <1>0, <1>1, LetterTyped DEF Texts
<1>5. \A i \in 1 .. to - q + 1 : s[i] = f[q + i - 1]
  <2>1. SubSeq(f, q, to) = [i \in 1 .. (1 + to - q) |-> f[q + i - 1]]
    BY <1>0
  <2> QED BY <1>1, <2>1
<1>6. \A i \in 1 .. to - q : t[i] = f[q + i]
  <2>1. SubSeq(f, q + 1, to) = [i \in 1 .. (1 + to - (q + 1)) |-> f[(q + 1) + i - 1]]
    BY <1>0
  <2>2. \A i \in 1 .. to - q : i \in 1 .. (1 + to - (q + 1)) /\ (q + 1) + i - 1 = q + i
    OBVIOUS
  <2> QED BY <1>1, <2>1, <2>2
<1>7. PICK w : w = c \o t
  OBVIOUS
<1>8. /\ w \in Seq(Sym) /\ Len(w) = 1 + (to - q)
      /\ \A i \in 1 .. Len(w) : w[i] = IF i <= 1 THEN c[i] ELSE t[i - 1]
  <2>1. /\ w \in Seq(Sym) /\ Len(w) = Len(c) + Len(t)
        /\ \A i \in 1 .. Len(c) + Len(t) : w[i] = IF i <= Len(c) THEN c[i] ELSE t[i - Len(c)]
    BY <1>3, <1>4, <1>7, ConcatProperties
  <2> QED BY <1>3, <1>4, <2>1
<1>9. ASSUME NEW i \in 1 .. to - q + 1 PROVE w[i] = s[i]
  <2>1. CASE i = 1
    BY <1>4, <1>5, <1>8, <2>1
  <2>2. CASE i # 1
    <3>1. i - 1 \in 1 .. to - q /\ q + (i - 1) = q + i - 1 /\ i \in 1 .. Len(w) /\ ~(i <= 1)
      BY <1>8, <2>2
    <3>2. w[i] = t[i - 1] /\ t[i - 1] = f[q + i - 1] /\ s[i] = f[q + i - 1]
      BY <1>5, <1>6, <1>8, <3>1
    <3> QED BY <3>2
  <2> QED BY <2>1, <2>2
<1>10. w = s
  <2>1. Len(w) = Len(s) /\ Len(w) = to - q + 1
    BY <1>2, <1>8
  <2> QED BY <1>2, <1>8, <1>9, <2>1, SeqEqual
<1> QED BY <1>1, <1>7, <1>10

\* Position k behind used arguments means data and what position n behind more of them means.
Leads(fn, f, args, k, used, data, n, more) ==
    data \o Means(fn, f, args)[n][more] = Means(fn, f, args)[k][used]

\* A run of characters other than '%', behind the directives of used arguments.
IsRun(fn, f, args, used, p, to) ==
    /\ fn \in {"printk", "snprintk"} /\ Enough(f, args) /\ used \in Nat /\ p \in Nat \ {0}
    /\ to \in Nat /\ p <= to + 1 /\ to <= Len(f) /\ 2 * used <= p - 1
    /\ \A j \in p .. to : f[j] # "%"

\* It means itself.
LEMMA RunMeans ==
    ASSUME NEW fn, NEW f, NEW args, NEW used, NEW p, NEW to, IsRun(fn, f, args, used, p, to)
    PROVE  Leads(fn, f, args, p, used, SubSeq(f, p, to), to + 1, used)
<1> SUFFICES ASSUME fn \in {"printk", "snprintk"}, Enough(f, args), used \in Nat, p \in Nat \ {0},
                    to \in Nat, p <= to + 1, to <= Len(f), 2 * used <= p - 1,
                    \A j \in p .. to : f[j] # "%"
             PROVE  SubSeq(f, p, to) \o Means(fn, f, args)[to + 1][used] = Means(fn, f, args)[p][used]
  BY DEF IsRun, Leads
<1>0. IsFormat(f) /\ Len(f) \in Nat
  BY DEF Enough, IsFormat
<1>1. PICK m, z : m = Means(fn, f, args) /\ z = m[to + 1][used]
  OBVIOUS
<1>2. z \in Texts
  <2>1. PICK e : e = to + 1
    OBVIOUS
  <2>2. e \in 1 .. Len(f) + 1 /\ 2 * used <= e - 1
    BY <1>0, <2>1
  <2>3. Means(fn, f, args)[e][used] \in Texts
    BY <2>2, MeansTyped
  <2> QED BY <1>1, <2>1, <2>3
<1> DEFINE Good(q) == SubSeq(f, q, to) \o z = m[q][used]
           Set == {n \in Nat : \A q \in p .. to + 1 : q >= to + 1 - n => Good(q)}
<1>3. Good(to + 1)
  <2>1. SubSeq(f, to + 1, to) = << >>
    BY <1>0, SubSeqEmpty
  <2> QED BY <1>1, <1>2, <2>1, NoSign
<1>4. ASSUME NEW q \in p .. to, Good(q + 1) PROVE Good(q)
  <2>1. q \in 1 .. Len(f) + 1 /\ q \in 1 .. Len(f) /\ f[q] # "%" /\ ~(q > Len(f)) /\ q \in Nat \ {0} /\ q <= to
    BY <1>0, <1>4
  <2>2. m[q][used] = From(fn, f, args, m, q, used)
    BY <1>0, <1>1, <2>1, MeansIs
  <2>3. From(fn, f, args, m, q, used) = <<f[q]>> \o m[q + 1][used]
    BY <2>1, Zenon DEF From
  <2>4. PICK c, s : c = <<f[q]>> /\ s = SubSeq(f, q + 1, to)
    OBVIOUS
  <2>5. c \in Seq(Sym) /\ s \in Seq(Sym) /\ z \in Seq(Sym)
    <3>1. c \in Texts
      BY <1>0, <2>1, <2>4, LetterTyped
    <3>2. q + 1 \in Nat \ {0}
      BY <2>1
    <3>3. s \in Texts
      BY <1>0, <2>4, <3>2, PieceTyped
    <3> QED BY <1>2, <3>1, <3>3 DEF Texts
  <2>6. (c \o s) \o z = c \o (s \o z)
    BY ONLY <2>5, ConcatAssociative, SMT
  <2>7. SubSeq(f, q, to) = c \o s
    BY <1>0, <2>1, <2>4, PieceSplit
  <2>8. s \o z = m[q + 1][used]
    BY <1>4, <2>4
  <2> QED BY <2>2, <2>3, <2>4, <2>6, <2>7, <2>8, Zenon
<1> HIDE DEF Good
<1>5. 0 \in Set
  <2>1. ASSUME NEW q \in p .. to + 1, q >= to + 1 - 0 PROVE Good(q)
    <3>1. q = to + 1
      BY <2>1
    <3> QED BY <1>3, <3>1
  <2> QED BY <2>1
<1>6. ASSUME NEW n \in Set PROVE n + 1 \in Set
  <2>1. n \in Nat /\ n + 1 \in Nat /\ \A q \in p .. to + 1 : q >= to + 1 - n => Good(q)
    BY <1>6
  <2>2. ASSUME NEW q \in p .. to + 1, q >= to + 1 - (n + 1) PROVE Good(q)
    <3>1. CASE q = to + 1
      BY <1>3, <3>1
    <3>2. CASE q # to + 1
      <4>1. q \in p .. to /\ q + 1 \in p .. to + 1 /\ q + 1 >= to + 1 - n
        BY <2>1, <2>2, <3>2
      <4>2. Good(q + 1)
        BY <2>1, <4>1
      <4> QED BY <1>4, <4>1, <4>2
    <3> QED BY <3>1, <3>2
  <2> QED BY <2>1, <2>2
<1>7. Set \in SUBSET Nat
  OBVIOUS
<1> HIDE DEF Set
<1>8. to + 1 \in Set
  BY <1>5, <1>6, <1>7, SetInduction
<1>9. Good(p)
  <2>1. p \in p .. to + 1 /\ p >= to + 1 - (to + 1)
    OBVIOUS
  <2> QED BY <1>8, <2>1 DEF Set
<1> QED BY <1>1, <1>9 DEF Good

\* Where a run ends.
EndsRun(from, k) == Ch(k + 1) \in {"nul", "%"} /\ \A j \in from + 1 .. k : Ch(j) # "%"

LEMMA RunEnds ==
    ASSUME NEW f, IsFormat(f), f = call.format, NEW from \in 1 .. Len(f), NEW to,
           to = CHOOSE k \in from .. Len(f) : EndsRun(from, k)
    PROVE  to \in from .. Len(f) /\ \A j \in from + 1 .. to : f[j] # "%"
<1>0. Len(f) \in Nat
  BY DEF IsFormat
<1> DEFINE S == {k \in from .. Len(f) : Ch(k + 1) \in {"nul", "%"}}
<1>1. S \in SUBSET Nat /\ S # {}
  <2>1. Len(f) + 1 \in Nat \ {0} /\ Len(f) + 1 > Len(f)
    BY <1>0
  <2>2. Ch(Len(f) + 1) = "nul"
    BY <2>1, ChIs
  <2>3. Len(f) \in S
    BY <1>0, <2>2
  <2> QED BY <1>0, <2>3
<1>2. PICK n \in S : \A k \in S : n <= k
  <2> HIDE DEF S
  <2> QED BY <1>1, Smallest
<1>3. n \in from .. Len(f) /\ Ch(n + 1) \in {"nul", "%"}
  OBVIOUS
<1>4. ASSUME NEW j \in from + 1 .. n PROVE Ch(j) # "%"
  <2>1. j - 1 \in from .. Len(f) /\ ~(n <= j - 1) /\ (j - 1) + 1 = j
    BY <1>0, <1>3, <1>4
  <2>2. j - 1 \notin S
    BY <1>2, <2>1
  <2> QED BY <2>1, <2>2
<1>5. EndsRun(from, n)
  BY <1>3, <1>4 DEF EndsRun
<1>6. to \in from .. Len(f) /\ EndsRun(from, to)
  BY <1>3, <1>5, Zenon
<1>7. ASSUME NEW j \in from + 1 .. to PROVE f[j] # "%"
  <2>1. j \in Nat \ {0} /\ j <= Len(f)
    BY <1>0, <1>6
  <2>2. Ch(j) = f[j]
    BY <2>1, ChIs
  <2>3. Ch(j) # "%"
    BY <1>6 DEF EndsRun
  <2> QED BY <2>2, <2>3
<1> QED BY <1>6, <1>7

\* The literal that a round prints.
LEMMA LiteralMeans ==
    ASSUME NEW fn \in {"printk", "snprintk"}, NEW f, NEW args, Enough(f, args), f = call.format,
           NEW k \in 1 .. Len(f), k = at, AtLiteral, NEW used \in Nat, 2 * used <= k - 1,
           NEW from, from = IF Ch(at) = "%" THEN at + 1 ELSE at,
           NEW to, to = CHOOSE i \in from .. Len(f) : EndsRun(from, i)
    PROVE  /\ to \in k .. Len(f) /\ SubSeq(f, from, to) \in Texts
           /\ Leads(fn, f, args, k, used, SubSeq(f, from, to), to + 1, used)
<1>0. IsFormat(f) /\ Len(f) \in Nat /\ k \in Nat \ {0} /\ k + 1 \in Nat \ {0}
  BY DEF Enough, IsFormat
<1>1. Ch(k) = f[k]
  BY <1>0, ChIs
<1>2. CASE f[k] # "%"
  <2>1. from = k
    BY <1>1, <1>2
  <2>2. to \in k .. Len(f) /\ \A j \in k + 1 .. to : f[j] # "%"
    BY <1>0, <2>1, RunEnds
  <2>3. to \in Nat /\ k <= to + 1 /\ to <= Len(f) /\ \A j \in k .. to : f[j] # "%"
    <3>1. \A j \in k .. to : j = k \/ j \in k + 1 .. to
      BY <1>0, <2>2
    <3> QED BY <1>0, <1>2, <2>2, <3>1
  <2>4. Leads(fn, f, args, k, used, SubSeq(f, k, to), to + 1, used)
    <3>1. IsRun(fn, f, args, used, k, to)
      BY <1>0, <2>3 DEF IsRun
    <3> QED BY <3>1, RunMeans, Zenon
  <2>5. SubSeq(f, k, to) \in Texts
    BY <1>0, <2>3, PieceTyped
  <2> QED BY <2>1, <2>2, <2>4, <2>5
<1>3. CASE f[k] = "%"
  <2>1. Ch(k + 1) = "%" /\ from = k + 1
    BY <1>1, <1>3 DEF AtLiteral
  <2>2. k + 1 <= Len(f)
    <3>1. CASE k + 1 > Len(f)
      <4>1. Ch(k + 1) = "nul"
        BY <1>0, <3>1, ChIs
      <4> QED BY <2>1, <4>1
    <3> QED BY <1>0, <3>1
  <2>3. f[k + 1] = "%"
    BY <1>0, <2>1, <2>2, ChIs
  <2>4. from \in 1 .. Len(f) /\ from \in Nat \ {0}
    BY <1>0, <2>1, <2>2
  <2>5. to \in from .. Len(f) /\ \A j \in from + 1 .. to : f[j] # "%"
    BY <1>0, <2>4, RunEnds
  <2>6. PICK q, m, z : q = from + 1 /\ m = Means(fn, f, args) /\ z = m[to + 1][used]
    OBVIOUS
  <2>7. q \in Nat \ {0} /\ to \in Nat /\ q <= to + 1 /\ to <= Len(f) /\ 2 * used <= q - 1 /\ q = k + 2 /\ from <= to
    BY <1>0, <2>1, <2>4, <2>5, <2>6
  <2>8. SubSeq(f, q, to) \o z = m[q][used]
    <3>1. IsRun(fn, f, args, used, q, to)
      BY <2>5, <2>6, <2>7 DEF IsRun
    <3>2. Leads(fn, f, args, q, used, SubSeq(f, q, to), to + 1, used)
      BY <3>1, RunMeans, Zenon
    <3> QED BY <2>6, <3>2, Zenon DEF Leads
  <2>9. m[k][used] = <<"%">> \o m[k + 2][used]
    <3>1. k \in 1 .. Len(f) + 1 /\ ~(k > Len(f)) /\ IsPercent(f, k)
      BY <1>0, <2>2, <2>3 DEF IsPercent
    <3>2. m[k][used] = From(fn, f, args, m, k, used)
      BY <1>0, <2>6, <3>1, MeansIs
    <3>3. From(fn, f, args, m, k, used) = <<"%">> \o m[k + 2][used]
      BY <1>3, <3>1, Zenon DEF From, IsPercent
    <3> QED BY <3>2, <3>3
  <2>10. PICK c, s : c = <<"%">> /\ s = SubSeq(f, q, to)
    OBVIOUS
  <2>11. c \in Seq(Sym) /\ s \in Seq(Sym) /\ z \in Seq(Sym)
    <3>1. c \in Texts
      BY <1>0, <2>10, LetterTyped
    <3>2. s \in Texts
      BY <1>0, <2>7, <2>10, PieceTyped
    <3>3. z \in Texts
      <4>1. PICK e : e = to + 1
        OBVIOUS
      <4>2. e \in 1 .. Len(f) + 1 /\ 2 * used <= e - 1
        BY <1>0, <2>7, <4>1
      <4>3. Means(fn, f, args)[e][used] \in Texts
        BY <4>2, MeansTyped
      <4> QED BY <2>6, <4>1, <4>3
    <3> QED BY <3>1, <3>2, <3>3 DEF Texts
  <2>12. (c \o s) \o z = c \o (s \o z)
    BY ONLY <2>11, ConcatAssociative, SMT
  <2>13. SubSeq(f, from, to) = <<f[from]>> \o SubSeq(f, from + 1, to)
    <3>1. IsFormat(f) /\ from \in Nat \ {0} /\ to \in Nat /\ from <= to /\ to <= Len(f)
      BY <1>0, <2>4, <2>7
    <3> QED BY ONLY <3>1, PieceSplit
  <2>14. SubSeq(f, from, to) = c \o s
    BY <2>1, <2>3, <2>6, <2>10, <2>13
  <2>15. SubSeq(f, from, to) \o z = m[k][used]
    BY <2>7, <2>8, <2>9, <2>10, <2>12, <2>14, Zenon
  <2>16. SubSeq(f, from, to) \in Texts
    BY <1>0, <2>4, <2>7, PieceTyped
  <2>17. to \in k .. Len(f)
    BY <1>0, <2>1, <2>5
  <2> QED BY <2>6, <2>15, <2>16, <2>17, Zenon DEF Leads
<1> QED BY <1>2, <1>3

\* A round is at a directive.
AtDirective(fn, f, args, k, used) ==
    /\ fn \in {"printk", "snprintk"} /\ fn = call.fn /\ Enough(f, args) /\ f = call.format
    /\ k \in 1 .. Len(f) /\ k = at /\ used \in Nat /\ 2 * used <= k - 1 /\ ~AtLiteral

LEMMA DirectiveParts ==
    ASSUME NEW fn, NEW f, NEW args, NEW k, NEW used, AtDirective(fn, f, args, k, used)
    PROVE  /\ f[k] = "%" /\ ~IsPercent(f, k) /\ ~(k > Len(f))
           /\ Letter = Behind(f, k) /\ Letter \in k + 1 .. Len(f) + 1
           /\ FieldWidth = TheWidth(f, k) /\ PadChar = ThePad(f, k)
           /\ Means(fn, f, args)[k][used] = From(fn, f, args, Means(fn, f, args), k, used)
<1>0. /\ IsFormat(f) /\ Len(f) \in Nat /\ f = call.format /\ k \in 1 .. Len(f) /\ k = at
      /\ k \in Nat \ {0} /\ k + 1 \in Nat \ {0} /\ used \in Nat /\ ~AtLiteral /\ ~(k > Len(f))
  BY DEF AtDirective, Enough, IsFormat
<1>1. Ch(k) = "%" /\ Ch(k + 1) # "%"
  BY <1>0 DEF AtLiteral
<1>2. f[k] = "%"
  BY <1>0, <1>1, ChIs
<1>3. ~IsPercent(f, k)
  <2>1. ASSUME k < Len(f), f[k + 1] = "%" PROVE FALSE
    <3>1. k + 1 <= Len(f)
      BY <1>0, <2>1
    <3>2. Ch(k + 1) = f[k + 1]
      BY <1>0, <3>1, ChIs
    <3> QED BY <1>1, <2>1, <3>2
  <2> QED BY <2>1 DEF IsPercent
<1>4. Letter = Behind(f, k)
  BY <1>0, LetterIs
<1>5. PICK j : j = Behind(f, k)
  OBVIOUS
<1>6. j \in k + 1 .. Len(f) + 1 /\ EndsDigits(f, k, j)
  BY <1>0, <1>5, BehindIs
<1>7. FieldWidth = TheWidth(f, k)
  BY <1>0, <1>4 DEF FieldWidth, TheWidth
<1>8. Ch(k + 1) = "0" <=> j > k + 1 /\ f[k + 1] = "0"
  <2>1. CASE k + 1 <= Len(f)
    <3>1. Ch(k + 1) = f[k + 1]
      BY <1>0, <2>1, ChIs
    <3>2. ASSUME f[k + 1] = "0" PROVE j > k + 1
      <4>1. IsDigit("0")
        BY DEF IsDigit, Lower
      <4>2. j # k + 1
        BY <1>6, <2>1, <3>2, <4>1 DEF EndsDigits
      <4> QED BY <1>0, <1>6, <4>2
    <3> QED BY <3>1, <3>2
  <2>2. CASE k + 1 > Len(f)
    <3>1. Ch(k + 1) = "nul"
      BY <1>0, <2>2, ChIs
    <3>2. ~(j > k + 1)
      BY <1>0, <1>6, <2>2
    <3> QED BY <3>1, <3>2
  <2> QED BY <1>0, <2>1, <2>2
<1>9. PadChar = ThePad(f, k)
  BY <1>0, <1>5, <1>8 DEF PadChar, ThePad
<1>10. Means(fn, f, args)[k][used] = From(fn, f, args, Means(fn, f, args), k, used)
  <2>1. k \in 1 .. Len(f) + 1
    BY <1>0
  <2> QED BY <1>0, <2>1, MeansIs
<1> QED BY <1>0, <1>2, <1>3, <1>4, <1>5, <1>6, <1>7, <1>9, <1>10

\* The text of a known directive.
LEMMA DirectiveMeans ==
    ASSUME NEW fn, NEW f, NEW args, NEW k, NEW used, AtDirective(fn, f, args, k, used),
           NEW c, NEW l, c = Ch(Letter), l = Ch(Letter + 1), Knows(c, l),
           NEW data, data = Text(c, l, args[used + 1]),
           NEW n, n = Letter + (IF c = "l" THEN 2 ELSE 1)
    PROVE  /\ data \in Texts /\ n \in k .. Len(f) + 1 /\ 2 * (used + 1) <= n - 1
           /\ Leads(fn, f, args, k, used, data, n, used + 1)
<1>0. /\ fn \in {"printk", "snprintk"} /\ fn = call.fn /\ Enough(f, args) /\ IsFormat(f)
      /\ f = call.format /\ k \in 1 .. Len(f) /\ used \in Nat /\ 2 * used <= k - 1 /\ Len(f) \in Nat
  BY DEF AtDirective, Enough, IsFormat
<1>1. /\ f[k] = "%" /\ ~IsPercent(f, k) /\ ~(k > Len(f))
      /\ Letter = Behind(f, k) /\ Letter \in k + 1 .. Len(f) + 1
      /\ FieldWidth = TheWidth(f, k) /\ PadChar = ThePad(f, k)
      /\ Means(fn, f, args)[k][used] = From(fn, f, args, Means(fn, f, args), k, used)
  BY DirectiveParts
<1>2. PICK j, d : j = Behind(f, k) /\ d = Named(c, l)
  OBVIOUS
<1>3. c = Ch(j) /\ l = Ch(j + 1) /\ j \in 1 .. Len(f) + 1
  BY <1>0, <1>1, <1>2
<1>4. Found(fn, f, j) = {d} /\ Len(d) = IF c = "l" THEN 2 ELSE 1
  <2>1. Found(fn, f, j) = {Named(c, l)} /\ Len(Named(c, l)) = IF c = "l" THEN 2 ELSE 1
    <3>1. Finds(fn, f, j, c, l)
      BY <1>0, <1>3, FoundIs
    <3> QED BY <3>1 DEF Finds
  <2> QED BY <1>2, <2>1
<1>5. TheDirective(fn, f, k) = d /\ Found(fn, f, Behind(f, k)) # {}
  <2>1. (CHOOSE e \in {d} : TRUE) = d
    OBVIOUS
  <2> QED BY <1>2, <1>4, <2>1 DEF TheDirective
<1>6. n = j + Len(d)
  BY <1>1, <1>2, <1>4
<1>7. n \in k + 2 .. Len(f) + 1
  <2>1. Behind(f, k) + Len(TheDirective(fn, f, k)) \in k + 2 .. Len(f) + 1
    BY <1>0, <1>5, DirectiveEnds
  <2> QED BY <1>2, <1>5, <1>6, <2>1
<1>8. args[used + 1] \in Args /\ 2 * (used + 1) <= n - 1
  BY <1>0, <1>2, <1>5, <1>6, DirectiveTakes
<1>9. PICK a, w, pad : a = args[used + 1] /\ w = TheWidth(f, k) /\ pad = ThePad(f, k)
  OBVIOUS
<1>10. a \in Args /\ w \in Int /\ pad \in Sym /\ w = FieldWidth /\ pad = PadChar
  BY <1>0, <1>1, <1>8, <1>9, WidthIs
<1>11. data = Value(fn, d, w, pad, a) /\ data \in Texts
  BY <1>0, <1>2, <1>9, <1>10, TextMeans
<1>12. PICK m, more : m = Means(fn, f, args) /\ more = used + 1
  OBVIOUS
<1>13. From(fn, f, args, m, k, used) = data \o m[n][more]
  BY <1>1, <1>2, <1>5, <1>6, <1>9, <1>11, <1>12, Zenon
     DEF From, IsPercent, TheDirective, TheWidth, ThePad
<1>14. Leads(fn, f, args, k, used, data, n, used + 1)
  BY <1>1, <1>12, <1>13, Zenon DEF Leads
<1>15. n \in k .. Len(f) + 1
  BY <1>0, <1>7
<1> QED BY <1>8, <1>11, <1>14, <1>15

\* What is left of a directive that is not known.
LEMMA UnknownMeans ==
    ASSUME NEW fn, NEW f, NEW args, NEW k, NEW used, AtDirective(fn, f, args, k, used),
           NEW c, NEW l, c = Ch(Letter), l = Ch(Letter + 1), ~Knows(c, l)
    PROVE  /\ ~(fn = "printk" /\ c = "l") =>
                 /\ Rest(at) \in Texts /\ 2 * used <= (Len(f) + 1) - 1
                 /\ Leads(fn, f, args, k, used, Rest(at), Len(f) + 1, used)
           /\ fn = "printk" /\ c = "l" =>
                 /\ Letter + 1 \in k .. Len(f) + 1 /\ 2 * used <= (Letter + 1) - 1
                 /\ Leads(fn, f, args, k, used, << >>, Letter + 1, used)
<1>0. /\ fn \in {"printk", "snprintk"} /\ fn = call.fn /\ Enough(f, args) /\ IsFormat(f)
      /\ f = call.format /\ k \in 1 .. Len(f) /\ used \in Nat /\ 2 * used <= k - 1 /\ Len(f) \in Nat
      /\ k = at
  BY DEF AtDirective, Enough, IsFormat
<1>1. /\ f[k] = "%" /\ ~IsPercent(f, k) /\ ~(k > Len(f))
      /\ Letter = Behind(f, k) /\ Letter \in k + 1 .. Len(f) + 1
      /\ Means(fn, f, args)[k][used] = From(fn, f, args, Means(fn, f, args), k, used)
  BY DirectiveParts
<1>2. PICK j, m : j = Behind(f, k) /\ m = Means(fn, f, args)
  OBVIOUS
<1>3. c = Ch(j) /\ l = Ch(j + 1) /\ j \in 1 .. Len(f) + 1 /\ j \in Nat \ {0}
  BY <1>0, <1>1, <1>2
<1>4. Found(fn, f, j) = {}
  BY <1>0, <1>3, FoundIs
<1>5. c = "l" <=> j <= Len(f) /\ f[j] = "l"
  <2>1. CASE j <= Len(f)
    BY <1>0, <1>3, <2>1, ChIs
  <2>2. CASE j > Len(f)
    <3>1. c = "nul"
      BY <1>0, <1>3, <2>2, ChIs
    <3> QED BY <1>0, <1>3, <2>2, <3>1
  <2> QED BY <1>0, <1>3, <2>1, <2>2
<1>6. ASSUME fn = "printk", c = "l"
      PROVE  /\ Letter + 1 \in k .. Len(f) + 1 /\ 2 * used <= (Letter + 1) - 1
             /\ Leads(fn, f, args, k, used, << >>, Letter + 1, used)
  <2>1. From(fn, f, args, m, k, used) = m[j + 1][used]
    BY <1>1, <1>2, <1>4, <1>5, <1>6, Zenon DEF From, IsPercent
  <2>2. PICK e : e = j + 1
    OBVIOUS
  <2>3. e \in k .. Len(f) + 1 /\ 2 * used <= e - 1 /\ e \in 1 .. Len(f) + 1 /\ e = Letter + 1
    BY <1>0, <1>1, <1>2, <1>5, <1>6, <2>2
  <2>4. Means(fn, f, args)[e][used] \in Texts
    BY <1>0, <2>3, MeansTyped
  <2>5. << >> \o m[e][used] = m[e][used]
    BY <1>2, <2>4, NoSign
  <2>6. m[k][used] = m[e][used]
    BY <1>1, <1>2, <2>1, <2>2
  <2>7. Leads(fn, f, args, k, used, << >>, e, used)
    BY <1>2, <2>5, <2>6, Zenon DEF Leads
  <2> QED BY <2>3, <2>7
<1>7. ASSUME ~(fn = "printk" /\ c = "l")
      PROVE  /\ Rest(at) \in Texts /\ 2 * used <= (Len(f) + 1) - 1
             /\ Leads(fn, f, args, k, used, Rest(at), Len(f) + 1, used)
  <2>1. From(fn, f, args, m, k, used) = SubSeq(f, k, Len(f))
    BY <1>1, <1>2, <1>4, <1>5, <1>7, Zenon DEF From, IsPercent
  <2>2. PICK e, s : e = Len(f) + 1 /\ s = Rest(at)
    OBVIOUS
  <2>3. e > Len(f) /\ e \in 1 .. Len(f) + 1 /\ 2 * used <= e - 1
    BY <1>0, <2>2
  <2>4. s = SubSeq(f, k, Len(f))
    BY <1>0, <2>2 DEF Rest
  <2>5. s \in Texts
    BY <1>0, <2>4, PieceTyped
  <2>6. m[e][used] = << >>
    <3>1. m[e][used] = From(fn, f, args, m, e, used)
      BY <1>0, <1>2, <2>3, MeansIs
    <3>2. From(fn, f, args, m, e, used) = << >>
      BY <2>3, Zenon DEF From
    <3> QED BY <3>1, <3>2
  <2>7. s \o << >> = s
    BY <2>5 DEF Texts
  <2>8. m[k][used] = s
    BY <1>1, <1>2, <2>1, <2>4
  <2>9. Leads(fn, f, args, k, used, s, e, used)
    BY <1>2, <2>6, <2>7, <2>8, Zenon DEF Leads
  <2> QED BY <2>2, <2>3, <2>5, <2>9
<1> QED BY <1>6, <1>7

-----------------------------------------------------------------------------
(* The calls.                                                               *)

\* An int counts the characters of the output.
Fits == Len(Meaning(call.fn, call.format, call.args)) <= IntMax

\* What a call that is over has left: r is its result, o its output, n the NUL.
Finished(fn, whole, size, o, n, r) ==
    /\ fn = "printk" => o = whole /\ r = Len(o)
    /\ fn = "snprintk" /\ size > 0 =>
          /\ n = Len(o) /\ n < size
          /\ IF Len(whole) < size THEN o = whole /\ r = Len(whole)
             ELSE o = SubSeq(whole, 1, size - 1) /\ r = -1

\* The output so far and the meaning of the rest are the meaning of the format.
PrintInv ==
    /\ call \in Calls /\ Fits
    /\ at \in 1 .. Len(call.format) + 1 /\ arg \in Nat /\ 2 * arg <= at - 1
    /\ out \in Texts
    /\ call.fn = "snprintk" => Len(out) < call.size \/ (out = << >> /\ call.size = 0)
    /\ ret = Pending => Leads(call.fn, call.format, call.args, 1, 0, out, at, arg)
    /\ ret # Pending =>
          Finished(call.fn, Meaning(call.fn, call.format, call.args), call.size, out, nul, ret)

LEMMA CallIs ==
    ASSUME call \in Calls
    PROVE  /\ call.fn \in {"printk", "snprintk"} /\ call.size \in Nat
           /\ Enough(call.format, call.args)
<1>1. /\ call.fn \in {"printk", "snprintk"} /\ call.format \in Formats /\ call.args \in ArgLists
      /\ call.size \in {0} \cup BufSizes
  BY DEF Calls
<1>2. call.size \in Nat
  <2>1. BufSizes \subseteq Nat
    BY FormatAssumption
  <2>2. CASE call.size = 0
    BY <2>2
  <2>3. CASE call.size \in BufSizes
    BY <2>1, <2>3
  <2> QED BY <1>1, <2>2, <2>3
<1>3. IsFormat(call.format)
  BY <1>1, FormatAssumption DEF IsFormat
<1>4. call.args \in Seq(Args)
  BY <1>1, FormatAssumption DEF Args
<1>5. Len(call.format) <= 2 * Len(call.args)
  BY <1>1, FormatAssumption
<1> QED BY <1>1, <1>2, <1>3, <1>4, <1>5 DEF Enough

IsJoin(x, s, t) == x = s \o t

\* The beginning of a text that the buffer keeps.
LEMMA KeptPart ==
    ASSUME NEW s \in Texts, NEW data \in Texts, NEW z \in Texts, NEW size \in Nat, NEW u,
           Len(s) < size, Keeps(u, s, data, Len(data), size),
           NEW w, IsJoin(w, s, data), NEW whole, IsJoin(whole, w, z)
    PROVE  /\ Len(u) < size /\ u \in Texts
           /\ Len(u) = Len(s) + Len(data) => u = w
           /\ Len(u) # Len(s) + Len(data) =>
                 Len(u) = size - 1 /\ u = SubSeq(whole, 1, size - 1) /\ ~(Len(whole) < size)
<1>1. s \in Seq(Sym) /\ data \in Seq(Sym) /\ z \in Seq(Sym) /\ Len(s) \in Nat /\ Len(data) \in Nat
      /\ Len(z) \in Nat
  BY DEF Texts
<1>2. w = s \o data
  BY DEF IsJoin
<1>3. w \in Seq(Sym) /\ Len(w) = Len(s) + Len(data)
  BY <1>1, <1>2, ConcatProperties
<1>4. /\ whole \in Seq(Sym) /\ Len(whole) = Len(w) + Len(z)
      /\ \A i \in 1 .. Len(w) : whole[i] = w[i]
  <2>1. whole = w \o z
    BY DEF IsJoin
  <2>2. /\ w \o z \in Seq(Sym) /\ Len(w \o z) = Len(w) + Len(z)
        /\ \A i \in 1 .. Len(w) + Len(z) : (w \o z)[i] = IF i <= Len(w) THEN w[i] ELSE z[i - Len(w)]
    <3>1. w \in Seq(Sym) /\ z \in Seq(Sym)
      BY <1>1, <1>3
    <3> QED BY ONLY <3>1, ConcatProperties
  <2>3. Len(w) \in Nat
    BY <1>3
  <2>4. \A i \in 1 .. Len(w) : i \in 1 .. Len(w) + Len(z) /\ i <= Len(w)
    BY <1>1, <2>3
  <2> QED BY <2>1, <2>2, <2>4
<1>5. /\ u \in Seq(Sym)
      /\ Len(u) = (IF Len(s) + Len(data) < size THEN Len(s) + Len(data) ELSE size - 1)
      /\ \A i \in 1 .. Len(u) : u[i] = w[i]
  BY <1>2 DEF Keeps, Texts
<1>6. Len(u) \in Nat /\ Len(w) \in Nat
  BY <1>3, <1>5
<1>7. Len(u) < size
  BY <1>1, <1>5
<1>8. ASSUME Len(u) = Len(s) + Len(data) PROVE u = w
  <2>1. Len(u) = Len(w)
    BY <1>3, <1>8
  <2> QED BY <1>3, <1>5, <2>1, SeqEqual
<1>9. ASSUME Len(u) # Len(s) + Len(data)
      PROVE  Len(u) = size - 1 /\ u = SubSeq(whole, 1, size - 1) /\ ~(Len(whole) < size)
  <2>1. Len(u) = size - 1 /\ size - 1 <= Len(w) /\ ~(Len(whole) < size) /\ size - 1 \in Nat
    BY <1>1, <1>3, <1>4, <1>5, <1>6, <1>9
  <2>2. PICK n, v : n = size - 1 /\ v = SubSeq(whole, 1, n)
    OBVIOUS
  <2>3. n \in Nat /\ n <= Len(w) /\ n <= Len(whole) /\ Len(u) = n
    BY <1>1, <1>4, <1>6, <2>1, <2>2
  <2>4. \A i \in 1 .. n : i \in 1 .. Len(w) /\ i \in 1 .. Len(whole)
    BY <1>6, <2>3
  <2>5. \A i \in 1 .. n : whole[i] = w[i]
    BY <1>4, <2>4
  <2>6. v = [i \in 1 .. n |-> whole[i]]
    <3>1. SubSeq(whole, 1, n) = [i \in 1 .. (1 + n - 1) |-> whole[1 + i - 1]]
      BY <1>4, <2>3
    <3>2. 1 + n - 1 = n /\ \A i \in 1 .. n : 1 + i - 1 = i
      BY <2>3
    <3> QED BY <2>2, <3>1, <3>2
  <2>7. u = [i \in 1 .. n |-> u[i]]
    BY <1>5, <2>3
  <2>8. \A i \in 1 .. n : u[i] = whole[i]
    BY <1>5, <2>3, <2>5
  <2>9. u = v
    BY <2>6, <2>7, <2>8
  <2> QED BY <2>1, <2>2, <2>9
<1> QED BY <1>2, <1>5, <1>7, <1>8, <1>9 DEF Texts

\* Printing what the position means keeps the invariant.
LEMMA EmitStep ==
    ASSUME PrintInv, ret = Pending, Running, NEW data \in Texts, NEW n, NEW used \in Nat,
           n \in at .. Len(call.format) + 1, 2 * (arg + used) <= n - 1,
           Leads(call.fn, call.format, call.args, at, arg, data, n, arg + used),
           Emit(data, n, used)
    PROVE  PrintInv'
<1>1. PICK fn, f, args, size, o, k, u, more :
        /\ fn = call.fn /\ f = call.format /\ args = call.args /\ size = call.size
        /\ o = out /\ k = at /\ u = arg /\ more = arg + used
  OBVIOUS
<1>2. /\ fn \in {"printk", "snprintk"} /\ size \in Nat /\ Enough(f, args)
      /\ Len(f) \in Nat /\ k \in 1 .. Len(f) + 1 /\ u \in Nat /\ more \in Nat /\ o \in Texts
      /\ 2 * u <= k - 1 /\ n \in k .. Len(f) + 1 /\ n \in 1 .. Len(f) + 1 /\ 2 * more <= n - 1
      /\ fn = "snprintk" => Len(o) < size
  <2>1. fn \in {"printk", "snprintk"} /\ size \in Nat /\ Enough(f, args)
    BY <1>1, CallIs DEF PrintInv
  <2>2. Len(f) \in Nat
    BY <2>1 DEF Enough, IsFormat
  <2>3. /\ k \in 1 .. Len(f) + 1 /\ u \in Nat /\ o \in Texts /\ 2 * u <= k - 1
        /\ n \in k .. Len(f) + 1 /\ 2 * more <= n - 1 /\ more = u + used
    BY <1>1 DEF PrintInv
  <2>4. fn = "snprintk" => Len(o) < size
    BY <1>1 DEF PrintInv, Running
  <2> QED BY <2>1, <2>2, <2>3, <2>4
<1>3. PICK m, z, whole : /\ m = Means(fn, f, args) /\ z = m[n][more]
                         /\ whole = Meaning(fn, f, args)
  OBVIOUS
<1>4. z \in Texts
  BY <1>2, <1>3, MeansTyped
<1>5. PICK w : w = o \o data
  OBVIOUS
<1>6. whole = w \o z
  <2>1. data \o z = m[k][u]
    BY <1>1, <1>3, Zenon DEF Leads
  <2>2. Leads(call.fn, call.format, call.args, 1, 0, out, at, arg)
    BY DEF PrintInv
  <2>3. o \o m[k][u] = m[1][0]
    BY <1>1, <1>3, <2>2, Zenon DEF Leads
  <2>4. whole = m[1][0]
    BY <1>3, MeaningIs
  <2>5. o \in Seq(Sym) /\ data \in Seq(Sym) /\ z \in Seq(Sym)
    BY <1>2, <1>4 DEF Texts
  <2>6. (o \o data) \o z = o \o (data \o z)
    BY ONLY <2>5, ConcatAssociative, SMT
  <2> QED BY <1>5, <2>1, <2>3, <2>4, <2>6, Zenon
<1>7. /\ Len(o) \in Nat /\ Len(data) \in Nat /\ Len(z) \in Nat /\ w \in Texts
      /\ Len(w) = Len(o) + Len(data) /\ Len(whole) = Len(w) + Len(z)
  <2>1. o \in Seq(Sym) /\ data \in Seq(Sym) /\ z \in Seq(Sym)
    BY <1>2, <1>4 DEF Texts
  <2>2. w \in Seq(Sym) /\ Len(w) = Len(o) + Len(data)
    BY <1>5, <2>1, ConcatProperties
  <2>3. Len(w \o z) = Len(w) + Len(z)
    BY ONLY <2>1, <2>2, ConcatProperties
  <2> QED BY <1>6, <2>1, <2>2, <2>3 DEF Texts
<1>8. IntMax \in Int
  <2>1. WordMod \in Nat
    BY FormatAssumption
  <2> QED BY <2>1 DEF IntMax
<1>9. Len(whole) <= IntMax /\ Len(data) <= IntMax - Len(o)
  <2>1. Len(whole) <= IntMax
    BY <1>1, <1>3 DEF PrintInv, Fits
  <2> QED BY <1>7, <1>8, <2>1
<1>10. PICK s : s = Printed(data)
  OBVIOUS
<1>11. /\ call' = call /\ out' = s
       /\ IF Len(s) = Len(o) + Len(data)
          THEN at' = n /\ arg' = more /\ ret' = ret
          ELSE at' = k /\ arg' = u /\ ret' = -1 /\ nul' = IF fn = "printk" THEN nul ELSE Len(s)
  <2>1. Len(data) <= IntMax - Len(out) /\ ~(Len(data) > IntMax - Len(out))
    <3>1. Len(data) <= IntMax - Len(o) /\ ~(Len(data) > IntMax - Len(o))
      BY ONLY <1>7, <1>8, <1>9
    <3> QED BY <1>1, <3>1, Zenon
  <2>2. /\ call' = call /\ out' = Printed(data)
        /\ IF Len(Printed(data)) = Len(out) + Len(data)
           THEN at' = n /\ arg' = arg + used /\ ret' = ret
           ELSE /\ at' = at /\ arg' = arg /\ ret' = -1
                /\ nul' = IF call.fn = "printk" THEN nul ELSE Len(Printed(data))
    BY <2>1, Zenon DEF Emit
  <2> QED BY <1>1, <1>10, <2>2, Zenon
<1>12. Fits'
  BY <1>11 DEF PrintInv, Fits
<1>13. call'.fn = fn /\ call'.format = f /\ call'.args = args /\ call'.size = size /\ call' \in Calls
  BY <1>1, <1>11 DEF PrintInv
<1>14. ASSUME s = w, fn = "snprintk" => Len(s) < size PROVE PrintInv'
  <2>1. at' = n /\ arg' = more /\ ret' = Pending /\ out' = w
    BY <1>7, <1>11, <1>14
  <2>2. w \o m[n][more] = m[1][0]
    <3>1. whole = m[1][0]
      BY <1>3, MeaningIs
    <3> QED BY <1>3, <1>6, <3>1
  <2>3. Leads(fn, f, args, 1, 0, w, n, more)
    BY <1>3, <2>2, Zenon DEF Leads
  <2>4. Leads(call'.fn, call'.format, call'.args, 1, 0, out', at', arg')
    BY <1>13, <2>1, <2>3
  <2>5. /\ at' \in 1 .. Len(call'.format) + 1 /\ arg' \in Nat /\ 2 * arg' <= at' - 1 /\ out' \in Texts
        /\ call'.fn = "snprintk" => Len(out') < call'.size
    BY <1>2, <1>7, <1>13, <1>14, <2>1
  <2> QED BY <1>12, <1>13, <2>1, <2>4, <2>5 DEF PrintInv
<1>15. CASE fn = "printk"
  <2>1. s = w
    BY <1>1, <1>5, <1>10, <1>15 DEF Printed
  <2>2. fn # "snprintk"
    BY <1>15
  <2> QED BY <1>14, <2>1, <2>2
<1>16. CASE fn = "snprintk"
  <2>1. s = snprintk_print(o, data)
    BY <1>1, <1>10, <1>16 DEF Printed
  <2>2. Len(o) < size
    BY <1>2, <1>16
  <2>3. Keeps(s, o, data, Len(data), size)
    BY <1>1, <1>2, <2>1, <2>2, PrintKeeps
  <2>4. IsJoin(w, o, data) /\ IsJoin(whole, w, z)
    BY <1>5, <1>6 DEF IsJoin
  <2>5. /\ Len(s) < size /\ s \in Texts
        /\ Len(s) = Len(o) + Len(data) => s = w
        /\ Len(s) # Len(o) + Len(data) =>
              Len(s) = size - 1 /\ s = SubSeq(whole, 1, size - 1) /\ ~(Len(whole) < size)
    BY <1>2, <1>4, <2>2, <2>3, <2>4, KeptPart
  <2>6. CASE Len(s) = Len(o) + Len(data)
    BY <1>5, <1>14, <2>5, <2>6
  <2>7. CASE Len(s) # Len(o) + Len(data)
    <3>1. at' = k /\ arg' = u /\ ret' = -1 /\ nul' = Len(s) /\ out' = s
      BY <1>11, <1>16, <2>7
    <3>2. Finished(fn, whole, size, s, Len(s), -1)
      BY <1>16, <2>5, <2>7 DEF Finished
    <3>3. Finished(call'.fn, Meaning(call'.fn, call'.format, call'.args), call'.size, out', nul', ret')
      BY <1>3, <1>13, <3>1, <3>2
    <3>4. ret' # Pending
      BY <3>1 DEF Pending
    <3>5. /\ at' \in 1 .. Len(call'.format) + 1 /\ arg' \in Nat /\ 2 * arg' <= at' - 1 /\ out' \in Texts
          /\ Len(out') < call'.size
      BY <1>2, <1>13, <2>5, <3>1
    <3> QED BY <1>12, <1>13, <3>3, <3>4, <3>5 DEF PrintInv
  <2> QED BY <2>6, <2>7
<1> QED BY <1>2, <1>15, <1>16

LEMMA PrintInvInit == PrintInit /\ Fits => PrintInv
<1> SUFFICES ASSUME PrintInit, Fits PROVE PrintInv
  OBVIOUS
<1>1. call \in Calls /\ at = 1 /\ arg = 0 /\ out = << >> /\ ret = Pending
  BY DEF PrintInit
<1>2. PICK fn, f, args : fn = call.fn /\ f = call.format /\ args = call.args
  OBVIOUS
<1>3. fn \in {"printk", "snprintk"} /\ call.size \in Nat /\ Enough(f, args)
  BY <1>1, <1>2, CallIs
<1>4. Len(f) \in Nat
  BY <1>3 DEF Enough, IsFormat
<1>5. PICK one, zero : one = 1 /\ zero = 0
  OBVIOUS
<1>6. one \in 1 .. Len(f) + 1 /\ zero \in Nat /\ 2 * zero <= one - 1
  BY <1>4, <1>5
<1>7. Means(fn, f, args)[one][zero] \in Texts
  BY <1>3, <1>6, MeansTyped
<1>8. Leads(fn, f, args, 1, 0, << >>, 1, 0)
  BY <1>5, <1>7, NoSign DEF Leads
<1>9. Leads(call.fn, call.format, call.args, 1, 0, out, at, arg)
  BY <1>1, <1>2, <1>8
<1>10. at \in 1 .. Len(call.format) + 1 /\ arg \in Nat /\ 2 * arg <= at - 1 /\ out \in Texts
  BY <1>1, <1>2, <1>4, NoSign
<1>11. call.fn = "snprintk" => Len(out) < call.size \/ (out = << >> /\ call.size = 0)
  BY <1>1, <1>3, NoSign
<1> QED BY <1>1, <1>9, <1>10, <1>11 DEF PrintInv

LEMMA PrintInvNext == PrintInv /\ [PrintNext]_printVars => PrintInv'
<1> SUFFICES ASSUME PrintInv, [PrintNext]_printVars PROVE PrintInv'
  OBVIOUS
<1>1. PICK fn, f, args, k, u :
        fn = call.fn /\ f = call.format /\ args = call.args /\ k = at /\ u = arg
  OBVIOUS
<1>2. /\ fn \in {"printk", "snprintk"} /\ call.size \in Nat /\ Enough(f, args) /\ Len(f) \in Nat
      /\ IsFormat(f) /\ k \in 1 .. Len(f) + 1 /\ u \in Nat /\ 2 * u <= k - 1
  <2>1. fn \in {"printk", "snprintk"} /\ call.size \in Nat /\ Enough(f, args)
    BY <1>1, CallIs DEF PrintInv
  <2>2. Len(f) \in Nat /\ IsFormat(f)
    BY <2>1 DEF Enough, IsFormat
  <2>3. k \in 1 .. Len(f) + 1 /\ u \in Nat /\ 2 * u <= k - 1
    BY <1>1 DEF PrintInv
  <2> QED BY <2>1, <2>2, <2>3
<1>3. ASSUME InFormat PROVE ret = Pending /\ Running /\ k \in 1 .. Len(f)
  BY <1>1, <1>2, <1>3 DEF InFormat, Running
<1>4. ASSUME InFormat, NEW data \in Texts, NEW n, NEW used \in {0, 1}, NEW more, more = u + used,
             n \in k .. Len(f) + 1, 2 * more <= n - 1, Leads(fn, f, args, k, u, data, n, more),
             Emit(data, n, used)
      PROVE  PrintInv'
  <2>1. /\ ret = Pending /\ Running /\ used \in Nat /\ n \in at .. Len(call.format) + 1
        /\ 2 * (arg + used) <= n - 1
    BY <1>1, <1>3, <1>4
  <2>2. Leads(call.fn, call.format, call.args, at, arg, data, n, arg + used)
    BY <1>1, <1>4
  <2> QED BY <1>4, <2>1, <2>2, EmitStep
<1>5. u + 0 = u
  BY <1>2
<1>6. ASSUME InFormat, ~AtLiteral PROVE AtDirective(fn, f, args, k, u)
  BY <1>1, <1>2, <1>3, <1>6 DEF AtDirective
<1>7. CASE PrintLiteral
  <2>1. PICK from : from = IF Ch(at) = "%" THEN at + 1 ELSE at
    OBVIOUS
  <2>2. PICK to : to = CHOOSE i \in from .. Len(f) : EndsRun(from, i)
    OBVIOUS
  <2>3. InFormat /\ AtLiteral /\ Emit(SubSeq(f, from, to), to + 1, 0)
    BY <1>1, <1>7, <2>1, <2>2, Zenon DEF PrintLiteral, EndsRun
  <2>4. k \in 1 .. Len(f)
    BY <1>3, <2>3
  <2>5. /\ to \in k .. Len(f) /\ SubSeq(f, from, to) \in Texts
        /\ Leads(fn, f, args, k, u, SubSeq(f, from, to), to + 1, u)
    BY <1>1, <1>2, <2>1, <2>2, <2>3, <2>4, LiteralMeans
  <2>6. PICK data, n : data = SubSeq(f, from, to) /\ n = to + 1
    OBVIOUS
  <2>7. n \in k .. Len(f) + 1 /\ 2 * u <= n - 1
    BY <1>2, <2>5, <2>6
  <2> QED BY <1>4, <1>5, <2>3, <2>5, <2>6, <2>7
<1>8. CASE PrintDirective
  <2>1. PICK c, l : c = Ch(Letter) /\ l = Ch(Letter + 1)
    OBVIOUS
  <2>2. PICK data, n : data = Text(c, l, args[u + 1]) /\ n = Letter + (IF c = "l" THEN 2 ELSE 1)
    OBVIOUS
  <2>3. InFormat /\ ~AtLiteral /\ Knows(c, l) /\ Emit(data, n, 1)
    BY <1>1, <1>8, <2>1, <2>2, Zenon DEF PrintDirective
  <2>4. AtDirective(fn, f, args, k, u)
    BY <1>6, <2>3
  <2>5. /\ data \in Texts /\ n \in k .. Len(f) + 1 /\ 2 * (u + 1) <= n - 1
        /\ Leads(fn, f, args, k, u, data, n, u + 1)
    BY <2>1, <2>2, <2>3, <2>4, DirectiveMeans
  <2> QED BY <1>4, <2>3, <2>5
<1>9. CASE SkipLong
  <2>1. PICK c, l : c = Ch(Letter) /\ l = Ch(Letter + 1)
    OBVIOUS
  <2>2. InFormat /\ ~AtLiteral /\ fn = "printk" /\ c = "l" /\ ~Knows(c, l) /\ Emit(<< >>, Letter + 1, 0)
    BY <1>1, <1>9, <2>1, Zenon DEF SkipLong
  <2>3. AtDirective(fn, f, args, k, u)
    BY <1>6, <2>2
  <2>4. PICK data, n : data = << >> /\ n = Letter + 1
    OBVIOUS
  <2>5. n \in k .. Len(f) + 1 /\ 2 * u <= n - 1 /\ Leads(fn, f, args, k, u, data, n, u)
    BY <2>1, <2>2, <2>3, <2>4, UnknownMeans
  <2>6. data \in Texts /\ Emit(data, n, 0)
    BY <2>2, <2>4, NoSign
  <2> QED BY <1>4, <1>5, <2>2, <2>5, <2>6
<1>10. CASE PrintUnknown
  <2>1. PICK c, l : c = Ch(Letter) /\ l = Ch(Letter + 1)
    OBVIOUS
  <2>2. /\ InFormat /\ ~AtLiteral /\ ~(fn = "printk" /\ c = "l") /\ ~Knows(c, l)
        /\ Emit(Rest(at), Len(f) + 1, 0)
    BY <1>1, <1>10, <2>1, Zenon DEF PrintUnknown
  <2>3. AtDirective(fn, f, args, k, u)
    BY <1>6, <2>2
  <2>4. PICK data, n : data = Rest(at) /\ n = Len(f) + 1
    OBVIOUS
  <2>5. data \in Texts /\ 2 * u <= n - 1 /\ Leads(fn, f, args, k, u, data, n, u)
    BY <2>1, <2>2, <2>3, <2>4, UnknownMeans
  <2>6. n \in k .. Len(f) + 1 /\ Emit(data, n, 0)
    BY <1>2, <2>2, <2>4
  <2> QED BY <1>4, <1>5, <2>2, <2>5, <2>6
<1>11. CASE RefuseEmpty
  <2>1. /\ call.fn = "snprintk" /\ call.size = 0 /\ ret' = -1 /\ call' = call /\ at' = at /\ arg' = arg
        /\ out' = out /\ nul' = nul
    BY <1>11 DEF RefuseEmpty
  <2>2. ret' # Pending
    BY <2>1 DEF Pending
  <2>3. Finished(call.fn, Meaning(call.fn, call.format, call.args), call.size, out, nul, -1)
    BY <2>1 DEF Finished
  <2>4. Finished(call'.fn, Meaning(call'.fn, call'.format, call'.args), call'.size, out', nul', ret')
    BY <2>1, <2>3
  <2>5. Fits'
    BY <2>1 DEF PrintInv, Fits
  <2> QED BY <2>1, <2>2, <2>4, <2>5 DEF PrintInv
<1>12. CASE Return
  <2>1. /\ Running /\ at > Len(f) /\ ret' = Len(out) /\ call' = call /\ at' = at /\ arg' = arg /\ out' = out
        /\ nul' = IF fn = "snprintk" THEN Len(out) ELSE nul
    BY <1>1, <1>12 DEF Return
  <2>2. PICK o, m, whole : o = out /\ m = Means(fn, f, args) /\ whole = Meaning(fn, f, args)
    OBVIOUS
  <2>3. o \in Seq(Sym) /\ Len(o) \in Nat
    BY <2>2 DEF PrintInv, Texts
  <2>4. m[k][u] = << >>
    <3>1. m[k][u] = From(fn, f, args, m, k, u)
      BY <1>2, <2>2, MeansIs
    <3>2. k > Len(f)
      BY <1>1, <2>1
    <3>3. From(fn, f, args, m, k, u) = << >>
      BY <3>2, Zenon DEF From
    <3> QED BY <3>1, <3>3
  <2>5. o = whole
    <3>1. Leads(call.fn, call.format, call.args, 1, 0, out, at, arg)
      BY <2>1 DEF PrintInv, Running
    <3>2. o \o m[k][u] = m[1][0]
      BY <1>1, <2>2, <3>1, Zenon DEF Leads
    <3>3. whole = m[1][0]
      BY <2>2, MeaningIs
    <3>4. o \o << >> = o
      BY <2>3
    <3> QED BY <2>4, <3>2, <3>3, <3>4
  <2>6. fn = "snprintk" => Len(o) < call.size /\ call.size > 0
    BY <1>1, <1>2, <2>1, <2>2, <2>3 DEF PrintInv, Running
  <2>7. Finished(fn, whole, call.size, o, nul', Len(o))
    BY <2>1, <2>2, <2>5, <2>6 DEF Finished
  <2>8. Finished(call'.fn, Meaning(call'.fn, call'.format, call'.args), call'.size, out', nul', ret')
    BY <1>1, <2>1, <2>2, <2>7
  <2>9. ret' # Pending
    BY <2>1, <2>2, <2>3 DEF Pending
  <2>10. Fits'
    BY <2>1 DEF PrintInv, Fits
  <2> QED BY <2>1, <2>8, <2>9, <2>10 DEF PrintInv
<1>13. CASE UNCHANGED printVars
  BY <1>13 DEF PrintInv, Fits, printVars
<1> QED BY <1>7, <1>8, <1>9, <1>10, <1>11, <1>12, <1>13 DEF PrintNext

\* While an int counts its output, printk (printk.c) prints the meaning of its
\* format, for every format whose fields fit in its 64 bytes and every list of
\* arguments, and returns its length.
THEOREM PrintkHolds == PrintSpec /\ Fits => []PrintkMeansFormat
<1>1. PrintInv => PrintkMeansFormat
  BY DEF PrintInv, PrintkMeansFormat, Finished
<1> QED BY <1>1, PrintInvInit, PrintInvNext, PTL DEF PrintSpec

\* Then also snprintk (snprintk.c) stays in its buffer, whatever its size, stores the
\* beginning of the meaning that fits in it with a NUL behind, and tells by its
\* result whether that is all.
THEOREM SnprintkHolds == PrintSpec /\ Fits => []SnprintkFillsBuffer
<1>1. PrintInv => SnprintkFillsBuffer
  BY DEF PrintInv, SnprintkFillsBuffer, Finished
<1> QED BY <1>1, PrintInvInit, PrintInvNext, PTL DEF PrintSpec
=============================================================================
