----------------------------- MODULE ShellProofs -----------------------------
(***************************************************************************)
(* Proofs about the terminal, the shell's line editor, the line editor of     *)
(* newlib, the words that the shell makes of a line and the first stack of a  *)
(* new program, for a screen, buffers, texts and stacks of any size.          *)
(***************************************************************************)
EXTENDS Shell, SequenceTheorems, WellFoundedInduction, TLAPS

-----------------------------------------------------------------------------
(* Functions that go along a sequence.                                        *)

\* The least element of a set of naturals.
LEMMA Smallest ==
    ASSUME NEW S \in SUBSET Nat, S # {}
    PROVE  \E m \in S : \A k \in S : m <= k
  <1>1. PICK m \in S : \A k \in S : ~(<<k, m>> \in OpToRel(<, Nat))
    BY WFMin, NatLessThanWellFounded, Zenon
  <1>2. \A k \in S : ~(k < m) BY <1>1, Zenon DEF OpToRel
  <1> QED BY <1>2

\* Induction on a set: what holds at 0 and goes on, holds everywhere.
LEMMA SetInduction ==
    ASSUME NEW S \in SUBSET Nat, 0 \in S, \A n \in S : n + 1 \in S
    PROVE  \A n \in Nat : n \in S
<1> SUFFICES ASSUME Nat \ S # {} PROVE FALSE
  OBVIOUS
<1>1. PICK m \in Nat \ S : \A k \in Nat \ S : m <= k
  BY Smallest
<1>2. m # 0 /\ m - 1 \in Nat /\ ~(m <= m - 1)
  OBVIOUS
<1>3. m - 1 \in S
  BY <1>1, <1>2
<1>4. (m - 1) + 1 = m
  OBVIOUS
<1> QED BY <1>3, <1>4

\* A step that stays in S gives a function on 0 .. n.
IsWalk(f, n, S, start, step) ==
    f \in [0 .. n -> S] /\ f[0] = start /\ \A k \in 1 .. n : f[k] = step[f[k - 1]][k]

LEMMA WalkExists ==
    ASSUME NEW n \in Nat, NEW S, NEW start \in S, NEW step \in [S -> [1 .. n -> S]]
    PROVE  \E f : IsWalk(f, n, S, start, step)
<1> DEFINE Good(m, f) == f[0] = start /\ \A k \in 1 .. m : f[k] = step[f[k - 1]][k]
           M == {m \in Nat : m <= n => \E f \in [0 .. m -> S] : Good(m, f)}
<1>1. 0 \in M
  <2> DEFINE f == [k \in 0 .. 0 |-> start]
  <2>1. f \in [0 .. 0 -> S] /\ Good(0, f)
    OBVIOUS
  <2> QED BY <2>1
<1>2. ASSUME NEW m \in M PROVE m + 1 \in M
  <2>0. m \in Nat /\ m + 1 \in Nat
    BY <1>2
  <2> SUFFICES ASSUME m + 1 <= n PROVE \E f \in [0 .. m + 1 -> S] : Good(m + 1, f)
    BY <2>0, Zenon
  <2>1. m \in Nat /\ m <= n /\ m + 1 \in 1 .. n
    BY <1>2
  <2>2. PICK f \in [0 .. m -> S] : Good(m, f)
    BY <1>2, <2>1
  <2> DEFINE g == [k \in 0 .. m + 1 |-> IF k = m + 1 THEN step[f[m]][m + 1] ELSE f[k]]
  <2>3. f[m] \in S /\ step[f[m]][m + 1] \in S
    BY <2>1
  <2>4. g \in [0 .. m + 1 -> S]
    BY <2>1, <2>3
  <2>5. ASSUME NEW k \in 1 .. m + 1 PROVE g[k] = step[g[k - 1]][k]
    <3>1. CASE k = m + 1
      BY <3>1, <2>1
    <3>2. CASE k # m + 1
      <4>1. k \in 1 .. m /\ k - 1 \in 0 .. m /\ k - 1 # m + 1 /\ k - 1 \in 0 .. m + 1
        BY <3>2, <2>1
      <4> QED BY <4>1, <3>2, <2>2
    <3> QED BY <3>1, <3>2
  <2>6. g[0] = start
    BY <2>1, <2>2
  <2> QED BY <2>4, <2>5, <2>6
<1>3. M \in SUBSET Nat
  OBVIOUS
<1> HIDE DEF M
<1>4. n \in M
  BY <1>1, <1>2, <1>3, SetInduction
<1>5. PICK f \in [0 .. n -> S] : Good(n, f)
  BY <1>4 DEF M
<1>6. IsWalk(f, n, S, start, step)
  BY <1>5 DEF IsWalk
<1> QED BY <1>6

\* A relation that holds at the start of two such functions and that the
\* steps keep holds all along them.  With one function, it is its type.
LEMMA WalkKeeps ==
    ASSUME NEW n \in Nat, NEW R,
           0 \in R, \A k \in 1 .. n : k - 1 \in R => k \in R
    PROVE  \A k \in 0 .. n : k \in R
<1> DEFINE M == {m \in Nat : m <= n => m \in R}
<1>1. 0 \in M
  OBVIOUS
<1>2. ASSUME NEW m \in M PROVE m + 1 \in M
  <2> SUFFICES ASSUME m + 1 <= n PROVE m + 1 \in R
    BY <1>2
  <2>1. m \in Nat /\ m <= n /\ m + 1 \in 1 .. n /\ (m + 1) - 1 = m
    BY <1>2
  <2> QED BY <1>2, <2>1
<1>3. M \in SUBSET Nat
  OBVIOUS
<1> HIDE DEF M
<1>4. \A m \in Nat : m \in M
  BY <1>1, <1>2, <1>3, SetInduction
<1> QED BY <1>4 DEF M

-----------------------------------------------------------------------------
(* The terminal and the page.                                                 *)

\* The provers do not know that literals are strings.
Char == STRING \cup {" ", "nl", "cr", "bs", "nul", "tab", ">", "/", "old"}
Row == [Columns -> Char]
Screen == [row : Rows, column : 0 .. Width, cells : [Rows -> Row]]
PageSet == {p \in [lines : Seq(Row), column : 0 .. Width] : Len(p.lines) # 0}

LEMMA Letters == {" ", "nl", "cr", "bs", "nul", "tab", ">", "/", "old"} \subseteq Char
  BY DEF Char

LEMMA BlankProps == BlankRow \in Row
  BY Letters DEF BlankRow, Row

\* The screen shows the page, and both are of their types.
Agree(t, p) == t \in Screen /\ p \in PageSet /\ Shows(t, p)

\* What Shows says.
LEMMA ShowsIs ==
    ASSUME NEW t \in Screen, NEW p \in PageSet
    PROVE  LET n == Len(p.lines) IN
           Shows(t, p) <=>
             /\ t.column = p.column
             /\ n <= Height => t.row = n - 1
             /\ n > Height => t.row = Height - 1
             /\ \A y \in Rows : y <= t.row => t.cells[y] = p.lines[n - t.row + y]
             /\ \A y \in Rows : y > t.row => t.cells[y] = BlankRow
<1> DEFINE n == Len(p.lines)
           first == IF n > Height THEN n - Height ELSE 0
<1>1. n \in Nat /\ Height \in Nat \ {0} /\ t.row \in Rows /\ Rows \subseteq Int /\ t.row \in Int
  BY ScreenAssumption DEF PageSet, Screen, Rows
<1>2. ASSUME NEW r \in Int
      PROVE  (r = n - first - 1) <=> (n <= Height => r = n - 1) /\ (n > Height => r = Height - 1)
  <2> HIDE DEF n
  <2> QED BY <1>1
<1>3. ASSUME t.row = n - first - 1, NEW y \in Rows
      PROVE  first + y + 1 = n - t.row + y
  <2>1. y \in Int /\ first \in Int
    BY <1>1
  <2> HIDE DEF n, first
  <2> QED BY <1>1, <1>3, <2>1
<1>4. Shows(t, p) <=>
        /\ t.column = p.column /\ t.row = n - first - 1
        /\ \A y \in Rows : t.cells[y] = IF y <= t.row THEN p.lines[first + y + 1] ELSE BlankRow
  BY Zenon DEF Shows, n, first
<1> HIDE DEF n, first
<1>5. ASSUME t.row = n - first - 1
      PROVE  (\A y \in Rows : t.cells[y] = IF y <= t.row THEN p.lines[first + y + 1] ELSE BlankRow)
             <=> /\ \A y \in Rows : y <= t.row => t.cells[y] = p.lines[n - t.row + y]
                 /\ \A y \in Rows : y > t.row => t.cells[y] = BlankRow
  BY <1>1, <1>3, <1>5
<1>6. (t.row = n - first - 1) <=> (n <= Height => t.row = n - 1) /\ (n > Height => t.row = Height - 1)
  BY <1>1, <1>2
<1> QED BY <1>4, <1>5, <1>6 DEF n

\* The sizes of a screen and a page that agree.
LEMMA AgreeFacts ==
    ASSUME NEW t, NEW p, Agree(t, p)
    PROVE  /\ t \in Screen /\ p \in PageSet /\ Height \in Nat \ {0} /\ Width \in Nat \ {0}
           /\ t.row \in Nat /\ t.row < Height /\ t.row \in Rows /\ t.cells \in [Rows -> Row]
           /\ p.lines \in Seq(Row) /\ Len(p.lines) \in Nat \ {0}
           /\ t.column = p.column /\ t.column \in 0 .. Width /\ t.column \in Nat
           /\ Len(p.lines) <= Height => t.row = Len(p.lines) - 1
           /\ Len(p.lines) > Height => t.row = Height - 1
           /\ \A y \in Rows : y <= t.row => t.cells[y] = p.lines[Len(p.lines) - t.row + y]
           /\ \A y \in Rows : y > t.row => t.cells[y] = BlankRow
<1>1. t \in Screen /\ p \in PageSet /\ Height \in Nat \ {0} /\ Width \in Nat \ {0}
  BY ScreenAssumption DEF Agree
<1>2. t.row \in Rows /\ t.cells \in [Rows -> Row] /\ t.column \in 0 .. Width
      /\ p.lines \in Seq(Row) /\ Len(p.lines) # 0
  BY <1>1 DEF Screen, PageSet
<1>3. t.row \in Nat /\ t.row < Height /\ t.column \in Nat
  BY <1>1, <1>2 DEF Rows
<1>4. Len(p.lines) \in Nat \ {0}
  BY <1>2
<1> QED BY <1>1, <1>2, <1>3, <1>4, ShowsIs DEF Agree

\* A new line, with and without scrolling.
LEMMA NewlineAgrees ==
    ASSUME NEW t, NEW p, Agree(t, p)
    PROVE  Agree(terminal_newline(t), NewLine(p)) /\ terminal_newline(t).column = 0
<1> DEFINE u == terminal_newline(t)
           q == NewLine(p)
           n == Len(p.lines)
<1>0. /\ t \in Screen /\ p \in PageSet /\ Height \in Nat \ {0} /\ Width \in Nat \ {0}
      /\ t.row \in Nat /\ t.row < Height /\ t.row \in Rows /\ t.cells \in [Rows -> Row]
      /\ p.lines \in Seq(Row) /\ n \in Nat \ {0}
      /\ n <= Height => t.row = n - 1
      /\ n > Height => t.row = Height - 1
      /\ \A y \in Rows : y <= t.row => t.cells[y] = p.lines[n - t.row + y]
      /\ \A y \in Rows : y > t.row => t.cells[y] = BlankRow
  BY AgreeFacts
<1>1. /\ q.lines = Append(p.lines, BlankRow) /\ q.column = 0 /\ q.lines \in Seq(Row)
      /\ Len(q.lines) = n + 1 /\ q.lines[n + 1] = BlankRow
      /\ \A i \in 1 .. n : q.lines[i] = p.lines[i]
  BY <1>0, BlankProps DEF NewLine
<1>2. q \in PageSet
  BY <1>0, <1>1 DEF NewLine, PageSet
<1>3. /\ u \in Screen /\ u.column = 0
      /\ \A y \in Rows : y <= u.row => u.cells[y] = q.lines[(n + 1) - u.row + y]
      /\ \A y \in Rows : y > u.row => u.cells[y] = BlankRow
      /\ n + 1 <= Height => u.row = n
      /\ n + 1 > Height => u.row = Height - 1
  <2>1. CASE t.row + 1 = Height
    <3>1. u = [t EXCEPT !.column = 0, !.cells = terminal_scroll(t.cells)]
      BY <2>1 DEF terminal_newline
    <3>2. terminal_scroll(t.cells) \in [Rows -> Row]
      BY <1>0, BlankProps DEF terminal_scroll, Rows
    <3>20. 0 \in 0 .. Width
      BY <1>0
    <3> HIDE DEF u, q
    <3>3. u.row = t.row /\ u.column = 0 /\ u.cells = terminal_scroll(t.cells) /\ u \in Screen
      BY <3>1, <3>2, <3>20, <1>0 DEF Screen
    <3>4. n >= Height
      BY <1>0, <2>1
    <3>5. ASSUME NEW y \in Rows, y <= u.row PROVE u.cells[y] = q.lines[(n + 1) - u.row + y]
      <4>1. y \in Nat /\ y < Height
        BY <1>0 DEF Rows
      <4>2. CASE y + 1 = Height
        <5>1. u.cells[y] = BlankRow /\ (n + 1) - u.row + y = n + 1
          BY <4>1, <4>2, <3>3, <1>0, <2>1 DEF terminal_scroll
        <5> QED BY <5>1, <1>1
      <4>3. CASE y + 1 # Height
        <5>1. u.cells[y] = t.cells[y + 1] /\ y + 1 \in Rows /\ y + 1 <= t.row
          BY <4>1, <4>3, <3>3, <1>0, <2>1 DEF terminal_scroll, Rows
        <5>2. t.cells[y + 1] = p.lines[n - t.row + (y + 1)]
          BY <5>1, <1>0
        <5>3. n - t.row + (y + 1) = (n + 1) - u.row + y /\ (n + 1) - u.row + y \in 1 .. n
          <6> HIDE DEF n
          <6>1. t.row = Height - 1 /\ u.row = Height - 1
            BY <1>0, <2>1, <3>3
          <6>2. y < Height - 1 /\ Height \in Nat /\ n \in Nat
            BY <1>0, <4>1, <4>3
          <6> QED BY <6>1, <6>2, <4>1, <3>4
        <5> QED BY <5>1, <5>2, <5>3, <1>1
      <4> QED BY <4>2, <4>3
    <3>6. ASSUME NEW y \in Rows PROVE ~(y > u.row)
      BY <1>0, <3>3, <2>1 DEF Rows
    <3> HIDE DEF u, q
    <3> QED BY <3>3, <3>4, <3>5, <3>6, <2>1, <1>0
  <2>2. CASE t.row + 1 # Height
    <3>1. u = [t EXCEPT !.column = 0, !.row = t.row + 1]
      BY <2>2 DEF terminal_newline
    <3>2. t.row + 1 \in Rows /\ 0 \in 0 .. Width
      BY <2>2, <1>0 DEF Rows
    <3>3. u.row = t.row + 1 /\ u.column = 0 /\ u.cells = t.cells /\ u \in Screen
      BY <3>1, <3>2, <1>0 DEF Screen
    <3>4. n < Height /\ t.row = n - 1 /\ u.row = n
      BY <1>0, <2>2, <3>3
    <3>5. ASSUME NEW y \in Rows, y <= u.row PROVE u.cells[y] = q.lines[(n + 1) - u.row + y]
      <4>1. y \in Nat /\ y <= n /\ (n + 1) - u.row + y = y + 1
        BY <1>0, <3>4, <3>5 DEF Rows
      <4>2. CASE y = n
        <5>1. y > t.row
          BY <4>1, <4>2, <1>0, <3>4
        <5> QED BY <5>1, <4>1, <4>2, <1>0, <1>1, <3>3
      <4>3. CASE y # n
        <5>1. y <= t.row /\ n - t.row + y = y + 1 /\ y + 1 \in 1 .. n
          BY <4>1, <4>3, <1>0, <3>4
        <5> QED BY <5>1, <4>1, <1>0, <1>1, <3>3
      <4> QED BY <4>2, <4>3
    <3>6. ASSUME NEW y \in Rows, y > u.row PROVE u.cells[y] = BlankRow
      <4>1. y > t.row
        BY <3>6, <3>3, <1>0 DEF Rows
      <4> QED BY <4>1, <3>3, <1>0
    <3> HIDE DEF u, q
    <3> QED BY <3>3, <3>4, <3>5, <3>6, <1>0
  <2> QED BY <2>1, <2>2
<1> HIDE DEF u, q
<1>4. (n + 1) - 1 = n
  BY <1>0
<1>5. Shows(u, q)
  BY <1>1, <1>2, <1>3, <1>4, ShowsIs
<1> QED BY <1>2, <1>3, <1>5 DEF Agree, u, q

\* A character in the current row.
LEMMA PutAgrees ==
    ASSUME NEW t, NEW p, Agree(t, p), NEW c \in Char, NEW x \in Columns
    PROVE  /\ Agree(terminal_putentryat(t, c, x), SetChar(p, c, x))
           /\ terminal_putentryat(t, c, x).column = t.column
           /\ terminal_putentryat(t, c, x).row = t.row
           /\ terminal_putentryat(t, c, x).cells[t.row] = [t.cells[t.row] EXCEPT ![x] = c]
<1> DEFINE u == terminal_putentryat(t, c, x)
           q == SetChar(p, c, x)
           n == Len(p.lines)
           row == [t.cells[t.row] EXCEPT ![x] = c]
<1>0. /\ t \in Screen /\ p \in PageSet /\ Height \in Nat \ {0} /\ Width \in Nat \ {0}
      /\ t.row \in Nat /\ t.row < Height /\ t.row \in Rows /\ t.cells \in [Rows -> Row]
      /\ p.lines \in Seq(Row) /\ n \in Nat \ {0} /\ t.column = p.column
      /\ n <= Height => t.row = n - 1
      /\ n > Height => t.row = Height - 1
      /\ \A y \in Rows : y <= t.row => t.cells[y] = p.lines[n - t.row + y]
      /\ \A y \in Rows : y > t.row => t.cells[y] = BlankRow
  BY AgreeFacts
<1>1. t.cells[t.row] = p.lines[n]
  <2>1. n - t.row + t.row = n /\ t.row <= t.row
    BY <1>0
  <2> QED BY <2>1, <1>0
<1>2. row \in Row
  BY <1>0 DEF Row
<1>3. u = [t EXCEPT !.cells = [t.cells EXCEPT ![t.row] = row]]
  BY <1>0 DEF terminal_putentryat, Screen
<1>4. q = [p EXCEPT !.lines = [p.lines EXCEPT ![n] = row]]
  BY <1>0, <1>1 DEF SetChar, PageSet
<1> HIDE DEF u, q, row
<1>5. [t.cells EXCEPT ![t.row] = row] \in [Rows -> Row]
  BY <1>0, <1>2
<1>6. /\ u \in Screen /\ u.row = t.row /\ u.column = t.column
      /\ u.cells = [t.cells EXCEPT ![t.row] = row]
  BY <1>0, <1>3, <1>5 DEF Screen
<1>7. [p.lines EXCEPT ![n] = row] \in Seq(Row) /\ Len([p.lines EXCEPT ![n] = row]) = n
  BY <1>0, <1>2
<1>8. /\ q \in PageSet /\ q.column = p.column /\ q.lines = [p.lines EXCEPT ![n] = row]
      /\ Len(q.lines) = n
  BY <1>0, <1>4, <1>7 DEF PageSet
<1>9. ASSUME NEW y \in Rows, y <= u.row PROVE u.cells[y] = q.lines[n - u.row + y]
  <2>1. y \in Nat /\ n >= t.row
    BY <1>0 DEF Rows
  <2>2. CASE y = t.row
    <3>1. n - u.row + y = n
      BY <2>2, <1>0, <1>6
    <3> QED BY <3>1, <2>2, <1>0, <1>6, <1>8
  <2>3. CASE y # t.row
    <3>1. n - u.row + y # n /\ n - u.row + y \in 1 .. n
      BY <2>3, <2>1, <1>0, <1>6, <1>9
    <3> QED BY <3>1, <2>3, <1>0, <1>6, <1>8, <1>9
  <2> QED BY <2>2, <2>3
<1>10. ASSUME NEW y \in Rows, y > u.row PROVE u.cells[y] = BlankRow
  <2>1. y # t.row /\ y > t.row
    BY <1>6, <1>10, <1>0 DEF Rows
  <2> QED BY <2>1, <1>0, <1>6
<1>11. Shows(u, q)
  BY <1>0, <1>6, <1>8, <1>9, <1>10, ShowsIs
<1> QED BY <1>0, <1>6, <1>8, <1>11 DEF Agree, u, q, row

\* A move of the cursor in its row.
LEMMA MoveAgrees ==
    ASSUME NEW t, NEW p, Agree(t, p), NEW x \in 0 .. Width
    PROVE  Agree([t EXCEPT !.column = x], [p EXCEPT !.column = x])
<1> DEFINE u == [t EXCEPT !.column = x]
           q == [p EXCEPT !.column = x]
<1>0. /\ t \in Screen /\ p \in PageSet
      /\ Len(p.lines) <= Height => t.row = Len(p.lines) - 1
      /\ Len(p.lines) > Height => t.row = Height - 1
      /\ \A y \in Rows : y <= t.row => t.cells[y] = p.lines[Len(p.lines) - t.row + y]
      /\ \A y \in Rows : y > t.row => t.cells[y] = BlankRow
  BY AgreeFacts
<1>1. u \in Screen /\ u.row = t.row /\ u.column = x /\ u.cells = t.cells
  BY <1>0 DEF Screen
<1>2. q \in PageSet /\ q.column = x /\ q.lines = p.lines
  BY <1>0 DEF PageSet
<1> HIDE DEF u, q
<1>3. Shows(u, q)
  BY <1>0, <1>1, <1>2, ShowsIs
<1> QED BY <1>1, <1>2, <1>3 DEF Agree, u, q

\* terminal_putchar does on the screen what the character does on the page.
LEMMA PutcharAgrees ==
    ASSUME NEW t, NEW p, Agree(t, p), NEW c \in Char
    PROVE  Agree(terminal_putchar(t, c), PagePut(p, c))
<1>0. /\ Width \in Nat \ {0} /\ t.column = p.column /\ t.column \in 0 .. Width /\ t.column \in Nat
      /\ p \in PageSet
  BY AgreeFacts
<1>1. CASE c = "nl"
  <2>1. terminal_putchar(t, c) = terminal_newline(t) /\ PagePut(p, c) = NewLine(p)
    BY <1>1 DEF terminal_putchar, PagePut
  <2> QED BY <2>1, NewlineAgrees
<1>2. CASE c = "cr"
  <2>1. terminal_putchar(t, c) = [t EXCEPT !.column = 0] /\ PagePut(p, c) = [p EXCEPT !.column = 0]
    BY <1>2 DEF terminal_putchar, PagePut
  <2>2. 0 \in 0 .. Width
    BY <1>0
  <2> QED BY <2>1, <2>2, MoveAgrees
<1>3. CASE c = "bs" /\ t.column = 0
  <2>1. terminal_putchar(t, c) = t /\ PagePut(p, c) = p
    BY <1>0, <1>3 DEF terminal_putchar, PagePut, Backspace
  <2> QED BY <2>1
<1>4. CASE c = "bs" /\ t.column # 0
  <2> DEFINE x == t.column - 1
             u == terminal_putentryat(t, " ", x)
             q == SetChar(p, " ", x)
  <2>1. t.column > 0 /\ p.column > 0 /\ p.column - 1 = x
    BY <1>0, <1>4
  <2>2. terminal_putchar(t, c) = [u EXCEPT !.column = u.column - 1]
    BY <1>4, <2>1 DEF terminal_putchar, Backspace
  <2>3. PagePut(p, c) = [q EXCEPT !.column = q.column - 1]
    BY <1>0, <1>4, <2>1 DEF PagePut
  <2>4. x \in Columns /\ x \in 0 .. Width
    BY <1>0, <1>4 DEF Columns
  <2>40. " " \in Char
    BY Letters
  <2> HIDE DEF u, q, x
  <2>5. Agree(u, q) /\ u.column = t.column
    BY <2>4, <2>40, PutAgrees DEF u, q
  <2>6. u.column - 1 = x /\ q.column - 1 = x
    BY <2>5, AgreeFacts DEF x
  <2>7. Agree([u EXCEPT !.column = x], [q EXCEPT !.column = x])
    BY <2>4, <2>5, MoveAgrees
  <2> QED BY <2>2, <2>3, <2>6, <2>7
<1>5. ASSUME NEW s, NEW r, Agree(s, r), s.column < Width
      PROVE  Agree([terminal_putentryat(s, c, s.column) EXCEPT !.column = s.column + 1],
                   [SetChar(r, c, s.column) EXCEPT !.column = s.column + 1])
  <2>1. s.column \in Nat /\ s.column \in Columns /\ s.column + 1 \in 0 .. Width
    BY <1>0, <1>5, AgreeFacts DEF Columns
  <2>2. Agree(terminal_putentryat(s, c, s.column), SetChar(r, c, s.column))
    BY <2>1, <1>5, PutAgrees
  <2> QED BY <2>1, <2>2, MoveAgrees
<1>6. CASE c \notin {"nl", "cr", "bs"} /\ t.column = Width
  <2> DEFINE s == terminal_newline(t)
             r == NewLine(p)
             u == terminal_putentryat(s, c, s.column)
             q == SetChar(r, c, 0)
  <2>1. terminal_putchar(t, c) = [u EXCEPT !.column = u.column + 1]
    BY <1>6 DEF terminal_putchar
  <2>2. PagePut(p, c) = [q EXCEPT !.column = 1]
    BY <1>0, <1>6 DEF PagePut
  <2> HIDE DEF s, r
  <2>3. Agree(s, r) /\ s.column = 0
    BY NewlineAgrees DEF s, r
  <2>4. s.column < Width /\ s.column \in Columns
    BY <2>3, <1>0 DEF Columns
  <2>5. u.column = 0
    BY <2>3, <2>4, PutAgrees
  <2>6. Agree([u EXCEPT !.column = s.column + 1], [q EXCEPT !.column = s.column + 1])
    BY <2>3, <2>4, <1>5
  <2>7. s.column + 1 = 1 /\ u.column + 1 = 1
    BY <2>3, <2>5
  <2> QED BY <2>1, <2>2, <2>6, <2>7
<1>7. CASE c \notin {"nl", "cr", "bs"} /\ t.column # Width
  <2> DEFINE u == terminal_putentryat(t, c, t.column)
             q == SetChar(p, c, t.column)
  <2>1. t.column < Width /\ t.column \in Columns
    BY <1>0, <1>7 DEF Columns
  <2>2. terminal_putchar(t, c) = [u EXCEPT !.column = u.column + 1]
    BY <1>7 DEF terminal_putchar
  <2>3. PagePut(p, c) = [q EXCEPT !.column = q.column + 1]
    BY <1>0, <1>7, <2>1 DEF PagePut
  <2>4. Agree([u EXCEPT !.column = t.column + 1], [q EXCEPT !.column = t.column + 1])
    BY <2>1, <1>5
  <2>5. Agree(u, q) /\ u.column = t.column
    BY <2>1, PutAgrees
  <2> HIDE DEF u, q
  <2>6. q.column = t.column
    BY <2>5, AgreeFacts
  <2> QED BY <2>2, <2>3, <2>4, <2>5, <2>6
<1> QED BY <1>1, <1>2, <1>3, <1>4, <1>6, <1>7

\* terminal_write goes along its data.
LEMMA WriteWalk ==
    ASSUME NEW t, NEW p, Agree(t, p), NEW data \in Seq(Char)
    PROVE  \E f : /\ f = [k \in 0 .. Len(data) |->
                            IF k = 0 THEN t ELSE terminal_putchar(f[k - 1], data[k])]
                  /\ terminal_write(t, data) = f[Len(data)]
<1> DEFINE n == Len(data)
           S == {s \in Screen : \E r : Agree(s, r)}
           G(f) == [k \in 0 .. n |-> IF k = 0 THEN t ELSE terminal_putchar(f[k - 1], data[k])]
           step == [s \in S |-> [k \in 1 .. n |-> terminal_putchar(s, data[k])]]
           walk == CHOOSE f : f = G(f)
<1>1. n \in Nat /\ \A k \in 1 .. n : data[k] \in Char
  OBVIOUS
<1>2. t \in S
  BY AgreeFacts
<1>3. ASSUME NEW s \in S, NEW c \in Char PROVE terminal_putchar(s, c) \in S
  <2>1. PICK r : Agree(s, r)
    OBVIOUS
  <2>2. Agree(terminal_putchar(s, c), PagePut(r, c))
    BY <2>1, PutcharAgrees
  <2> QED BY <2>2, AgreeFacts
<1> HIDE DEF S, n
<1>4. step \in [S -> [1 .. n -> S]]
  BY <1>1, <1>3
<1>5. PICK f \in [0 .. n -> S] : f[0] = t /\ \A k \in 1 .. n : f[k] = step[f[k - 1]][k]
  <2> HIDE DEF step
  <2>1. PICK m, T, st : m = n /\ T = S /\ st = step
    OBVIOUS
  <2>2. m \in Nat /\ t \in T /\ st \in [T -> [1 .. m -> T]]
    BY <2>1, <1>1, <1>2, <1>4
  <2>3. PICK f : IsWalk(f, m, T, t, st)
    BY ONLY <2>2, WalkExists
  <2> QED BY <2>1, <2>3, Zenon DEF IsWalk
<1>6. ASSUME NEW k \in 1 .. n PROVE f[k] = terminal_putchar(f[k - 1], data[k])
  <2>1. k - 1 \in 0 .. n
    BY <1>1
  <2>2. f[k - 1] \in S
    BY <2>1
  <2> QED BY <2>2, <1>5
<1>7. f = G(f)
  <2>1. ASSUME NEW k \in 0 .. n PROVE f[k] = G(f)[k]
    BY <1>1, <1>5, <1>6
  <2>2. f = [k \in 0 .. n |-> f[k]] /\ G(f) = [k \in 0 .. n |-> G(f)[k]]
    OBVIOUS
  <2> HIDE DEF G
  <2> QED BY <2>1, <2>2, Zenon
<1>8. walk = G(walk)
  BY <1>7, Zenon DEF walk
<1>9. terminal_write(t, data) = walk[n]
  BY Zenon DEF terminal_write, walk, n
<1> QED BY <1>8, <1>9, Zenon DEF n

\* PageWrite, likewise.
LEMMA PageWalk ==
    ASSUME NEW t, NEW p, Agree(t, p), NEW data \in Seq(Char)
    PROVE  \E f : /\ f = [k \in 0 .. Len(data) |->
                            IF k = 0 THEN p ELSE PagePut(f[k - 1], data[k])]
                  /\ PageWrite(p, data) = f[Len(data)]
<1> DEFINE n == Len(data)
           S == {r \in PageSet : \E s : Agree(s, r)}
           G(f) == [k \in 0 .. n |-> IF k = 0 THEN p ELSE PagePut(f[k - 1], data[k])]
           step == [r \in S |-> [k \in 1 .. n |-> PagePut(r, data[k])]]
           walk == CHOOSE f : f = G(f)
<1>1. n \in Nat /\ \A k \in 1 .. n : data[k] \in Char
  OBVIOUS
<1>2. p \in S
  BY AgreeFacts
<1>3. ASSUME NEW r \in S, NEW c \in Char PROVE PagePut(r, c) \in S
  <2>1. PICK s : Agree(s, r)
    OBVIOUS
  <2>2. Agree(terminal_putchar(s, c), PagePut(r, c))
    BY <2>1, PutcharAgrees
  <2> QED BY <2>2, AgreeFacts
<1> HIDE DEF S, n
<1>4. step \in [S -> [1 .. n -> S]]
  BY <1>1, <1>3
<1>5. PICK f \in [0 .. n -> S] : f[0] = p /\ \A k \in 1 .. n : f[k] = step[f[k - 1]][k]
  <2> HIDE DEF step
  <2>1. PICK m, T, st : m = n /\ T = S /\ st = step
    OBVIOUS
  <2>2. m \in Nat /\ p \in T /\ st \in [T -> [1 .. m -> T]]
    BY <2>1, <1>1, <1>2, <1>4
  <2>3. PICK f : IsWalk(f, m, T, p, st)
    BY ONLY <2>2, WalkExists
  <2> QED BY <2>1, <2>3, Zenon DEF IsWalk
<1>6. ASSUME NEW k \in 1 .. n PROVE f[k] = PagePut(f[k - 1], data[k])
  <2>1. k - 1 \in 0 .. n
    BY <1>1
  <2>2. f[k - 1] \in S
    BY <2>1
  <2> QED BY <2>2, <1>5
<1>7. f = G(f)
  <2>1. ASSUME NEW k \in 0 .. n PROVE f[k] = G(f)[k]
    BY <1>1, <1>5, <1>6
  <2>2. f = [k \in 0 .. n |-> f[k]] /\ G(f) = [k \in 0 .. n |-> G(f)[k]]
    OBVIOUS
  <2> HIDE DEF G
  <2> QED BY <2>1, <2>2, Zenon
<1>8. walk = G(walk)
  BY <1>7, Zenon DEF walk
<1>9. PageWrite(p, data) = walk[n]
  BY Zenon DEF PageWrite, walk, n
<1> QED BY <1>8, <1>9, Zenon DEF n

\* Whatever is written, the screen goes on showing the page.
LEMMA WriteAgrees ==
    ASSUME NEW t, NEW p, Agree(t, p), NEW data \in Seq(Char)
    PROVE  Agree(terminal_write(t, data), PageWrite(p, data))
<1> DEFINE n == Len(data)
<1>1. n \in Nat /\ \A k \in 1 .. n : data[k] \in Char
  OBVIOUS
<1>2. PICK f : /\ f = [k \in 0 .. n |-> IF k = 0 THEN t ELSE terminal_putchar(f[k - 1], data[k])]
               /\ terminal_write(t, data) = f[n]
  BY WriteWalk
<1>3. PICK g : /\ g = [k \in 0 .. n |-> IF k = 0 THEN p ELSE PagePut(g[k - 1], data[k])]
               /\ PageWrite(p, data) = g[n]
  BY PageWalk
<1> HIDE DEF n
<1> DEFINE R == {k \in 0 .. n : Agree(f[k], g[k])}
<1>4. 0 \in R
  BY <1>1, <1>2, <1>3
<1>5. ASSUME NEW k \in 1 .. n, k - 1 \in R PROVE k \in R
  <2>1. k \in 0 .. n /\ k # 0
    BY <1>1
  <2>2. f[k] = terminal_putchar(f[k - 1], data[k]) /\ g[k] = PagePut(g[k - 1], data[k])
    BY <2>1, <1>2, <1>3
  <2>3. Agree(f[k - 1], g[k - 1])
    BY <1>5
  <2>4. Agree(f[k], g[k])
    BY <2>2, <2>3, <1>1, PutcharAgrees
  <2> QED BY <2>1, <2>4
<1>6. n \in R
  <2> HIDE DEF R
  <2>1. \A k \in 0 .. n : k \in R
    BY <1>1, <1>4, <1>5, WalkKeeps
  <2> QED BY <2>1, <1>1
<1> QED BY <1>2, <1>3, <1>6

\* One character.
LEMMA WriteOne ==
    ASSUME NEW t, NEW p, Agree(t, p), NEW c \in Char
    PROVE  terminal_write(t, <<c>>) = terminal_putchar(t, c)
<1>1. <<c>> \in Seq(Char) /\ Len(<<c>>) = 1 /\ <<c>>[1] = c
  OBVIOUS
<1>2. PICK d : d = <<c>>
  OBVIOUS
<1>3. d \in Seq(Char) /\ Len(d) = 1 /\ d[1] = c
  BY <1>1, <1>2
<1>4. PICK f : /\ f = [k \in 0 .. Len(d) |-> IF k = 0 THEN t ELSE terminal_putchar(f[k - 1], d[k])]
               /\ terminal_write(t, d) = f[Len(d)]
  BY ONLY <1>3, Agree(t, p), WriteWalk
<1>5. f[0] = t /\ f[1] = terminal_putchar(f[0], c)
  BY <1>3, <1>4
<1> QED BY <1>2, <1>3, <1>4, <1>5

\* A cleared screen shows an empty page.
LEMMA ClearAgrees == Agree(terminal_initialize, EmptyPage)
<1> DEFINE t == terminal_initialize
           p == EmptyPage
<1>1. Height \in Nat \ {0} /\ Width \in Nat \ {0} /\ 0 \in Rows /\ 0 \in 0 .. Width
  BY ScreenAssumption DEF Rows
<1>2. t \in Screen /\ t.row = 0 /\ t.column = 0 /\ \A y \in Rows : t.cells[y] = BlankRow
  BY <1>1, BlankProps DEF terminal_initialize, Screen
<1>3. /\ p \in PageSet /\ p.column = 0 /\ Len(p.lines) = 1 /\ p.lines[1] = BlankRow
  BY <1>1, BlankProps DEF EmptyPage, PageSet
<1> HIDE DEF t, p
<1>4. ASSUME NEW y \in Rows, y <= t.row PROVE t.cells[y] = p.lines[Len(p.lines) - t.row + y]
  <2>1. y = 0
    BY <1>2, <1>4 DEF Rows
  <2> QED BY <2>1, <1>2, <1>3
<1>5. t.column = p.column /\ (Len(p.lines) <= Height => t.row = Len(p.lines) - 1) /\ ~(Len(p.lines) > Height)
  BY <1>1, <1>2, <1>3
<1>6. Shows(t, p)
  BY <1>2, <1>3, <1>4, <1>5, ShowsIs
<1> QED BY <1>2, <1>3, <1>6 DEF Agree, t, p

-----------------------------------------------------------------------------
(* The shell's buffer.                                                        *)

Buffer == [0 .. BufferSize - 1 -> Char]
HasNul(buf, p) == \E e \in p .. BufferSize - 1 : buf[e] = "nul"

\* The first position with a character of S.
LEMMA FirstOfProps ==
    ASSUME NEW buf, NEW p \in Nat, NEW S, \E e \in p .. BufferSize - 1 : buf[e] \in S
    PROVE  /\ FirstOf(buf, p, S) \in p .. BufferSize - 1
           /\ buf[FirstOf(buf, p, S)] \in S
           /\ \A a \in p .. FirstOf(buf, p, S) - 1 : buf[a] \notin S
<1> DEFINE T == {e \in p .. BufferSize - 1 : buf[e] \in S}
<1>0. BufferSize \in Nat
  BY BufferAssumption
<1>1. T \in SUBSET Nat /\ T # {}
  BY <1>0
<1>2. PICK e \in T : \A k \in T : e <= k
  BY <1>1, Smallest
<1>3. \A a \in p .. e - 1 : buf[a] \notin S
  BY <1>0, <1>2
<1>4. e \in p .. BufferSize - 1 /\ buf[e] \in S
  BY <1>2
<1> HIDE DEF T
<1> QED BY <1>3, <1>4, Zenon DEF FirstOf

\* A word begins at p, before the first NUL.
IsStart(buf, p) ==
    p < FirstOf(buf, 0, {"nul"}) /\ ~IsBlank(buf[p]) /\ (p > 0 => IsBlank(buf[p - 1]))

\* WordStarts goes along the buffer.
StartWalk(f, buf) ==
    /\ f \in [0 .. BufferSize -> Seq(0 .. FirstOf(buf, 0, {"nul"}) - 1)] /\ f[0] = << >>
    /\ \A k \in 1 .. BufferSize :
          f[k] = IF IsStart(buf, k - 1) /\ Len(f[k - 1]) < ShellMaxArgs
                 THEN Append(f[k - 1], k - 1) ELSE f[k - 1]
    /\ WordStarts(buf) = f[BufferSize]

LEMMA StartsWalk ==
    ASSUME NEW buf, HasNul(buf, 0)
    PROVE  \E f : StartWalk(f, buf)
<1> DEFINE z == FirstOf(buf, 0, {"nul"})
           P == 0 .. z - 1
           isStart(p) == p < z /\ ~IsBlank(buf[p]) /\ (p > 0 => IsBlank(buf[p - 1]))
           Put(s, p) == IF isStart(p) /\ Len(s) < ShellMaxArgs THEN Append(s, p) ELSE s
           G(f) == [p \in 0 .. BufferSize |-> IF p = 0 THEN << >>
                     ELSE IF isStart(p - 1) /\ Len(f[p - 1]) < ShellMaxArgs
                     THEN Append(f[p - 1], p - 1) ELSE f[p - 1]]
           step == [s \in Seq(P) |-> [p \in 1 .. BufferSize |-> Put(s, p - 1)]]
           walk == CHOOSE f : f = G(f)
<1>0. BufferSize \in Nat /\ z \in Nat
  <2>1. \E e \in 0 .. BufferSize - 1 : buf[e] \in {"nul"}
    BY DEF HasNul
  <2>2. 0 \in Nat /\ BufferSize \in Nat
    BY BufferAssumption
  <2>3. z \in 0 .. BufferSize - 1
    BY <2>1, <2>2, FirstOfProps
  <2> HIDE DEF z
  <2> QED BY <2>2, <2>3
<1> HIDE DEF z
<1>1. ASSUME NEW s \in Seq(P), NEW p \in Nat PROVE Put(s, p) \in Seq(P)
  <2>1. CASE isStart(p) /\ Len(s) < ShellMaxArgs
    <3>1. p \in P
      BY <2>1, <1>0
    <3> HIDE DEF P
    <3> QED BY <2>1, <3>1
  <2>2. CASE ~(isStart(p) /\ Len(s) < ShellMaxArgs)
    BY <2>2
  <2> QED BY <2>1, <2>2
<1> HIDE DEF isStart, P
<1>2. << >> \in Seq(P)
  OBVIOUS
<1>3. step \in [Seq(P) -> [1 .. BufferSize -> Seq(P)]]
  <2>1. \A p \in 1 .. BufferSize : p - 1 \in Nat
    BY <1>0
  <2> HIDE DEF Put
  <2> QED BY <1>1, <2>1
<1>4. PICK f : /\ f \in [0 .. BufferSize -> Seq(P)] /\ f[0] = << >>
               /\ \A k \in 1 .. BufferSize : f[k] = step[f[k - 1]][k]
  <2> HIDE DEF step
  <2>1. PICK T, st, e : T = Seq(P) /\ st = step /\ e = << >>
    OBVIOUS
  <2>2. e \in T /\ st \in [T -> [1 .. BufferSize -> T]]
    BY <2>1, <1>2, <1>3
  <2>3. PICK f : IsWalk(f, BufferSize, T, e, st)
    BY ONLY <2>2, <1>0, WalkExists
  <2> QED BY <2>1, <2>3, Zenon DEF IsWalk
<1>5. ASSUME NEW k \in 1 .. BufferSize PROVE f[k] = Put(f[k - 1], k - 1)
  <2>1. k - 1 \in 0 .. BufferSize
    BY <1>0
  <2>2. f[k - 1] \in Seq(P)
    BY <2>1, <1>4
  <2> HIDE DEF Put
  <2> QED BY <2>2, <1>4
<1>6. f = G(f)
  <2>1. ASSUME NEW k \in 0 .. BufferSize PROVE f[k] = G(f)[k]
    <3>1. CASE k = 0
      BY <3>1, <1>4
    <3>2. CASE k # 0
      <4>1. k \in 1 .. BufferSize
        BY <3>2, <1>0
      <4> QED BY <4>1, <3>2, <1>5
    <3> QED BY <3>1, <3>2
  <2>2. f = [k \in 0 .. BufferSize |-> f[k]] /\ G(f) = [k \in 0 .. BufferSize |-> G(f)[k]]
    BY <1>4
  <2> HIDE DEF G
  <2> QED BY <2>1, <2>2, Zenon
<1>7. walk = G(walk)
  BY <1>6, Zenon DEF walk
<1>8. WordStarts(buf) = walk[BufferSize]
  BY Zenon DEF WordStarts, walk, isStart, z
<1> HIDE DEF walk
<1> DEFINE R == {k \in 0 .. BufferSize : walk[k] \in Seq(P)}
<1>9. 0 \in R
  BY <1>0, <1>2, <1>7
<1>10. ASSUME NEW k \in 1 .. BufferSize, k - 1 \in R PROVE k \in R
  <2>1. k \in 0 .. BufferSize /\ k # 0 /\ k - 1 \in Nat
    BY <1>0
  <2>2. walk[k] = Put(walk[k - 1], k - 1)
    BY <2>1, <1>7
  <2>3. Put(walk[k - 1], k - 1) \in Seq(P)
    BY <2>1, <1>1, <1>10
  <2> QED BY <2>1, <2>2, <2>3
<1>11. \A k \in 0 .. BufferSize : k \in R
  <2> HIDE DEF R
  <2> QED BY <1>0, <1>9, <1>10, WalkKeeps
<1>12. \A k \in 1 .. BufferSize : walk[k] = Put(walk[k - 1], k - 1)
  <2>1. \A k \in 1 .. BufferSize : k \in 0 .. BufferSize /\ k # 0
    BY <1>0
  <2> QED BY <2>1, <1>7
<1>13. walk = [k \in 0 .. BufferSize |-> walk[k]]
  <2>1. PICK w : w = walk
    OBVIOUS
  <2>2. w = G(w)
    BY <2>1, <1>7
  <2>3. w = [k \in 0 .. BufferSize |-> w[k]]
    BY <2>2
  <2> QED BY <2>1, <2>3
<1>14. walk \in [0 .. BufferSize -> Seq(P)]
  BY <1>11, <1>13
<1>15. walk[0] = << >>
  BY <1>0, <1>7
<1>16. \A p : isStart(p) <=> IsStart(buf, p)
  BY Zenon DEF isStart, IsStart, z
<1>17. \A k \in 1 .. BufferSize :
          walk[k] = IF IsStart(buf, k - 1) /\ Len(walk[k - 1]) < ShellMaxArgs
                    THEN Append(walk[k - 1], k - 1) ELSE walk[k - 1]
  BY <1>12, <1>16, Zenon
<1>18. StartWalk(walk, buf)
  BY <1>8, <1>14, <1>15, <1>17, Zenon DEF StartWalk, P, z
<1> QED BY <1>18

\* The words begin before the first NUL.
LEMMA StartsProps ==
    ASSUME NEW buf, HasNul(buf, 0)
    PROVE  WordStarts(buf) \in Seq(0 .. FirstOf(buf, 0, {"nul"}) - 1)
<1>1. PICK f : StartWalk(f, buf)
  BY StartsWalk
<1>2. BufferSize \in 0 .. BufferSize
  BY BufferAssumption
<1> QED BY <1>1, <1>2 DEF StartWalk

\* Splitting the line writes NULs only.
LEMMA ParsedProps ==
    ASSUME NEW buf \in Buffer
    PROVE  /\ Parsed(buf) \in Buffer
           /\ \A e \in 0 .. BufferSize - 1 : buf[e] = "nul" => Parsed(buf)[e] = "nul"
<1> DEFINE ends == {FirstOf(buf, WordStarts(buf)[k], {"nul", " ", "tab"}) :
                       k \in 1 .. Len(WordStarts(buf))}
<1>1. Parsed(buf) = [e \in DOMAIN buf |-> IF e \in ends THEN "nul" ELSE buf[e]]
  BY Zenon DEF Parsed, ends
<1> HIDE DEF ends
<1>2. DOMAIN buf = 0 .. BufferSize - 1 /\ "nul" \in Char
  BY Letters DEF Buffer
<1> QED BY <1>1, <1>2 DEF Buffer

\* A string in the buffer.
LEMMA StringProps ==
    ASSUME NEW buf \in Buffer, NEW p \in Nat, HasNul(buf, p)
    PROVE  BufString(buf, p) \in Seq(Char)
<1> DEFINE z == FirstOf(buf, p, {"nul"})
<1>1. z \in p .. BufferSize - 1
  BY FirstOfProps DEF HasNul
<1>2. BufString(buf, p) = [k \in 1 .. z - p |-> buf[p + k - 1]]
  BY DEF BufString
<1> HIDE DEF z
<1>3. BufferSize \in Nat /\ z - p \in Nat
  BY <1>1, BufferAssumption
<1>4. \A k \in 1 .. z - p : p + k - 1 \in 0 .. BufferSize - 1
  BY <1>1, <1>3
<1>5. \A k \in 1 .. z - p : buf[p + k - 1] \in Char
  BY <1>4 DEF Buffer
<1> QED BY <1>2, <1>3, <1>5

\* The words handed to a command.
LEMMA ArgvProps ==
    ASSUME shell_input_buffer \in Buffer, HasNul(shell_input_buffer, 0)
    PROVE  Argv \in Seq(Seq(Char))
<1> DEFINE starts == WordStarts(shell_input_buffer)
           z == FirstOf(shell_input_buffer, 0, {"nul"})
           buf == Parsed(shell_input_buffer)
<1>0. BufferSize \in Nat
  BY BufferAssumption
<1>1. starts \in Seq(0 .. z - 1)
  BY StartsProps
<1>2. z \in 0 .. BufferSize - 1 /\ shell_input_buffer[z] = "nul"
  <2>1. \E e \in 0 .. BufferSize - 1 : shell_input_buffer[e] \in {"nul"}
    BY DEF HasNul
  <2>2. 0 \in Nat
    OBVIOUS
  <2> QED BY <2>1, <2>2, FirstOfProps
<1>3. buf \in Buffer /\ buf[z] = "nul"
  BY <1>2, ParsedProps
<1>4. Argv = [k \in 1 .. Len(starts) |-> BufString(buf, starts[k])]
  BY Zenon DEF Argv
<1> HIDE DEF starts, z, buf
<1>5. ASSUME NEW k \in 1 .. Len(starts) PROVE BufString(buf, starts[k]) \in Seq(Char)
  <2>1. starts[k] \in 0 .. z - 1
    <3>1. PICK P, s : P = 0 .. z - 1 /\ s = starts
      OBVIOUS
    <3>2. s \in Seq(P) /\ k \in 1 .. Len(s)
      BY <3>1, <1>1, <1>5
    <3>3. s[k] \in P
      BY ONLY <3>2
    <3> QED BY <3>1, <3>3
  <2>2. starts[k] \in Nat /\ z \in starts[k] .. BufferSize - 1
    BY <2>1, <1>0, <1>2
  <2>3. HasNul(buf, starts[k])
    BY <2>2, <1>3 DEF HasNul
  <2> QED BY <2>2, <2>3, <1>3, StringProps
<1>6. Len(starts) \in Nat
  BY <1>1
<1>7. PICK C : C = Seq(Char)
  OBVIOUS
<1>8. \A k \in 1 .. Len(starts) : BufString(buf, starts[k]) \in C
  BY <1>5, <1>7
<1>9. Argv \in Seq(C)
  BY <1>4, <1>6, <1>8
<1> QED BY <1>7, <1>9

\* What echo prints.
LEMMA EchoProps ==
    ASSUME shell_input_buffer \in Buffer, HasNul(shell_input_buffer, 0), Len(Argv) # 0
    PROVE  EchoText \in Seq(Char)
<1>1. PICK args, C : args = Argv /\ C = Seq(Char)
  OBVIOUS
<1>2. args \in Seq(C)
  BY <1>1, ArgvProps
<1> DEFINE n == Len(args) - 1
           blank(i) == IF i < n THEN <<" ">> ELSE << >>
           G(f) == [i \in 0 .. n |-> IF i = 0 THEN << >> ELSE f[i - 1] \o args[i + 1] \o blank(i)]
           step == [s \in C |-> [i \in 1 .. n |-> s \o args[i + 1] \o blank(i)]]
           walk == CHOOSE f : f = G(f)
<1>3. n \in Nat /\ n = Len(args) - 1
  BY <1>1, <1>2
<1>4. EchoText = walk[n] \o <<"nl">>
  BY <1>1, Zenon DEF EchoText
<1> HIDE DEF n
<1>5. ASSUME NEW i \in 1 .. n PROVE args[i + 1] \in Seq(Char)
  <2>1. i + 1 \in 1 .. Len(args)
    BY <1>2, <1>3
  <2> QED BY <2>1, <1>1, <1>2
<1>6. ASSUME NEW i \in 1 .. n PROVE blank(i) \in Seq(Char)
  <2>1. " " \in Char
    BY Letters
  <2>2. PICK c : c = " "
    OBVIOUS
  <2>20. c \in Char
    BY <2>1, <2>2
  <2>3. <<c>> \in Seq(Char) /\ << >> \in Seq(Char)
    BY ONLY <2>20
  <2>4. blank(i) = <<c>> \/ blank(i) = << >>
    BY <2>2
  <2> HIDE DEF blank
  <2> QED BY <2>3, <2>4
<1> HIDE DEF blank
<1>7. ASSUME NEW s \in C, NEW i \in 1 .. n PROVE s \o args[i + 1] \o blank(i) \in C
  BY <1>1, <1>5, <1>6
<1>8. << >> \in C
  BY <1>1
<1>9. step \in [C -> [1 .. n -> C]]
  BY <1>7
<1>10. PICK f : /\ f \in [0 .. n -> C] /\ f[0] = << >>
                /\ \A k \in 1 .. n : f[k] = step[f[k - 1]][k]
  <2> HIDE DEF step
  <2>1. PICK m, st, e : m = n /\ st = step /\ e = << >>
    OBVIOUS
  <2>2. m \in Nat /\ e \in C /\ st \in [C -> [1 .. m -> C]]
    BY <2>1, <1>3, <1>8, <1>9
  <2>3. PICK f : IsWalk(f, m, C, e, st)
    BY ONLY <2>2, WalkExists
  <2>4. f \in [0 .. m -> C] /\ f[0] = e /\ \A k \in 1 .. m : f[k] = st[f[k - 1]][k]
    BY <2>3, Zenon DEF IsWalk
  <2>5. f \in [0 .. n -> C] /\ f[0] = << >> /\ \A k \in 1 .. n : f[k] = step[f[k - 1]][k]
    BY <2>1, <2>4
  <2> QED BY <2>5, Zenon
<1>11. ASSUME NEW k \in 1 .. n PROVE f[k] = f[k - 1] \o args[k + 1] \o blank(k)
  <2>1. k - 1 \in 0 .. n
    BY <1>3
  <2>2. f[k - 1] \in C
    BY <2>1, <1>10
  <2> QED BY <2>2, <1>10
<1>12. f = G(f)
  <2>1. ASSUME NEW k \in 0 .. n PROVE f[k] = G(f)[k]
    <3>1. CASE k = 0
      BY <3>1, <1>10
    <3>2. CASE k # 0
      <4>1. k \in 1 .. n
        BY <3>2, <1>3
      <4> QED BY <4>1, <3>2, <1>11
    <3> QED BY <3>1, <3>2
  <2>2. f = [k \in 0 .. n |-> f[k]] /\ G(f) = [k \in 0 .. n |-> G(f)[k]]
    BY <1>10
  <2> HIDE DEF G
  <2> QED BY <2>1, <2>2, Zenon
<1>13. walk = G(walk)
  BY <1>12, Zenon DEF walk
<1> HIDE DEF walk
<1> DEFINE R == {k \in 0 .. n : walk[k] \in C}
<1>14. 0 \in R
  BY <1>3, <1>8, <1>13
<1>15. ASSUME NEW k \in 1 .. n, k - 1 \in R PROVE k \in R
  <2>1. k \in 0 .. n /\ k # 0
    BY <1>3
  <2>2. walk[k] = walk[k - 1] \o args[k + 1] \o blank(k)
    BY <2>1, <1>13
  <2> QED BY <2>1, <2>2, <1>7, <1>15
<1>16. n \in R
  <2> HIDE DEF R
  <2>1. \A k \in 0 .. n : k \in R
    BY <1>3, <1>14, <1>15, WalkKeeps
  <2> QED BY <2>1, <1>3
<1>17. walk[n] \in Seq(Char) /\ "nl" \in Char
  BY <1>1, <1>16, Letters
<1> QED BY <1>4, <1>17

-----------------------------------------------------------------------------
(* The screen.                                                                *)

BufferInv ==
    /\ shell_input_buffer \in Buffer /\ index \in Nat
    /\ pc = "read" => index < BufferSize - 1
    /\ pc = "run" => HasNul(shell_input_buffer, 0)

ConsoleInv == Agree(tty, page) /\ BufferInv

LEMMA TextProps == \A s \in Texts : s \in Seq(Char)
<1> SUFFICES ASSUME NEW s \in Texts PROVE s \in Seq(Char)
  OBVIOUS
<1>1. s \in Seq(STRING)
  BY BufferAssumption
<1>2. \A c \in STRING : c \in Char
  BY DEF Char
<1>3. PICK St, Ch : St = STRING /\ Ch = Char
  OBVIOUS
<1>4. s \in Seq(St) /\ \A c \in St : c \in Ch
  BY <1>1, <1>2, <1>3
<1>5. s \in Seq(Ch)
  BY ONLY <1>4
<1> QED BY <1>3, <1>5

LEMMA PrintableProps ==
    \A c \in Printable : c \in Char /\ c \notin {"nl", "cr", "bs", "nul"}
  BY BufferAssumption DEF Char

LEMMA OneLetter == ASSUME NEW c \in Char PROVE <<c>> \in Seq(Char)
  OBVIOUS

LEMMA OutputAgrees ==
    ASSUME Agree(tty, page), NEW data \in Seq(Char), Output(data)
    PROVE  Agree(tty', page')
  BY WriteAgrees DEF Output

LEMMA PromptProps == Prompt \in Seq(Char)
<1>1. PICK a, b : a = ">" /\ b = " "
  OBVIOUS
<1>2. a \in Char /\ b \in Char
  BY <1>1, Letters
<1>3. <<a, b>> \in Seq(Char)
  BY ONLY <1>2
<1> QED BY <1>1, <1>3 DEF Prompt

LEMMA ConsoleInit == Init => ConsoleInv
<1> SUFFICES ASSUME Init PROVE ConsoleInv
  OBVIOUS
<1>1. PICK s \in Texts : tty = terminal_write(terminal_initialize, s) /\ page = PageWrite(EmptyPage, s)
  BY DEF Init
<1>2. Agree(tty, page)
  BY <1>1, TextProps, ClearAgrees, WriteAgrees
<1>3. "nul" \in Char
  BY Letters
<1>4. shell_input_buffer \in Buffer /\ index = 0 /\ pc = "prompt"
  BY <1>3 DEF Init, Buffer
<1> QED BY <1>2, <1>4 DEF ConsoleInv, BufferInv

\* The shell's buffer after a key.
LEMMA KeyBuffer ==
    ASSUME BufferInv, pc = "read", NEW c \in Char
    PROVE  /\ [shell_input_buffer EXCEPT ![index] = "nul"] \in Buffer
           /\ HasNul([shell_input_buffer EXCEPT ![index] = "nul"], 0)
           /\ [shell_input_buffer EXCEPT ![index] = c] \in Buffer
           /\ [shell_input_buffer EXCEPT ![index] = c, ![index + 1] = "nul"] \in Buffer
           /\ HasNul([shell_input_buffer EXCEPT ![index] = c, ![index + 1] = "nul"], 0)
<1>1. /\ BufferSize \in Nat /\ index \in 0 .. BufferSize - 1 /\ index + 1 \in 0 .. BufferSize - 1
      /\ shell_input_buffer \in Buffer /\ "nul" \in Char
  <2>1. "nul" \in Char
    BY Letters
  <2>2. BufferSize \in Nat
    BY BufferAssumption
  <2>3. shell_input_buffer \in Buffer /\ index \in Nat /\ index < BufferSize - 1
    BY DEF BufferInv
  <2> QED BY <2>1, <2>2, <2>3
<1>2. PICK buf, z, n, m : buf = shell_input_buffer /\ z = "nul" /\ n = index /\ m = index + 1
  OBVIOUS
<1>3. buf \in [0 .. BufferSize - 1 -> Char] /\ z \in Char /\ n \in 0 .. BufferSize - 1 /\ m \in 0 .. BufferSize - 1
  BY <1>1, <1>2 DEF Buffer
<1>4. /\ [buf EXCEPT ![n] = z] \in [0 .. BufferSize - 1 -> Char] /\ [buf EXCEPT ![n] = z][n] = z
      /\ [buf EXCEPT ![n] = c] \in [0 .. BufferSize - 1 -> Char]
  BY <1>3
<1>5. PICK g : g = [buf EXCEPT ![n] = c]
  OBVIOUS
<1>6. [g EXCEPT ![m] = z] \in [0 .. BufferSize - 1 -> Char] /\ [g EXCEPT ![m] = z][m] = z
  BY <1>3, <1>4, <1>5
<1>7. [buf EXCEPT ![n] = c, ![m] = z] = [g EXCEPT ![m] = z]
  BY <1>3, <1>5
<1> QED BY <1>2, <1>3, <1>4, <1>5, <1>6, <1>7 DEF Buffer, HasNul

\* The steps of the shell's line editor.
LEMMA EditorStep ==
    ASSUME ConsoleInv,
           ShowPrompt \/ ReadEnter \/ ReadBackspace \/ (\E c \in Printable : ReadChar(c))
    PROVE  ConsoleInv'
<1>0. /\ Agree(tty, page) /\ shell_input_buffer \in Buffer /\ index \in Nat
      /\ pc = "read" => index < BufferSize - 1
  BY DEF ConsoleInv, BufferInv
<1>00. BufferSize \in Nat /\ 0 < BufferSize - 1
  BY BufferAssumption
<1>1. CASE ShowPrompt
  <2>1. Agree(tty', page')
    BY <1>0, <1>1, PromptProps, OutputAgrees DEF ShowPrompt
  <2>2. index' = 0 /\ shell_input_buffer' = shell_input_buffer /\ pc' = "read"
    BY <1>1 DEF ShowPrompt
  <2> QED BY <1>0, <1>00, <2>1, <2>2 DEF ConsoleInv, BufferInv, Buffer
<1>2. CASE ReadEnter
  <2>1. <<"nl">> \in Seq(Char)
    BY Letters, OneLetter
  <2>2. Agree(tty', page')
    BY <1>0, <1>2, <2>1, OutputAgrees DEF ReadEnter
  <2>3. /\ pc = "read" /\ shell_input_buffer' = [shell_input_buffer EXCEPT ![index] = "nul"]
        /\ pc' = "run" /\ index' = index
    BY <1>2 DEF ReadEnter
  <2>4. "nul" \in Char
    BY Letters
  <2>5. shell_input_buffer' \in Buffer /\ HasNul(shell_input_buffer', 0)
    BY <2>3, <2>4, KeyBuffer DEF ConsoleInv
  <2> QED BY <1>0, <2>2, <2>3, <2>5 DEF ConsoleInv, BufferInv, Buffer, HasNul
<1>3. CASE ReadBackspace
  <2>1. <<"bs">> \in Seq(Char)
    BY Letters, OneLetter
  <2>2. Agree(tty', page')
    <3>1. CASE index > 0
      BY <1>0, <1>3, <2>1, <3>1, OutputAgrees DEF ReadBackspace
    <3>2. CASE ~(index > 0)
      BY <1>0, <1>3, <3>2 DEF ReadBackspace, screenVars
    <3> QED BY <3>1, <3>2
  <2>3. /\ pc = "read" /\ pc' = pc /\ shell_input_buffer' = shell_input_buffer
        /\ index' = IF index > 0 THEN index - 1 ELSE index
    BY <1>3 DEF ReadBackspace
  <2>4. index' \in Nat /\ index' < BufferSize - 1
    BY <1>0, <1>00, <2>3
  <2> QED BY <1>0, <2>2, <2>3, <2>4 DEF ConsoleInv, BufferInv, Buffer
<1>4. ASSUME NEW c \in Printable, ReadChar(c) PROVE ConsoleInv'
  <2>1. c \in Char /\ <<c>> \in Seq(Char)
    BY PrintableProps, OneLetter
  <2>2. Agree(tty', page')
    BY <1>0, <1>4, <2>1, OutputAgrees DEF ReadChar
  <2>3. pc = "read" /\ index' = index + 1
    BY <1>4 DEF ReadChar
  <2>4. CASE index + 1 < BufferSize - 1
    <3>1. shell_input_buffer' = [shell_input_buffer EXCEPT ![index] = c] /\ pc' = pc
      BY <1>4, <2>4 DEF ReadChar
    <3>2. shell_input_buffer' \in Buffer
      BY <2>1, <2>3, <3>1, KeyBuffer DEF ConsoleInv
    <3>3. index' \in Nat /\ index' < BufferSize - 1 /\ pc' = "read"
      BY <1>0, <2>3, <2>4, <3>1
    <3> QED BY <2>2, <3>2, <3>3 DEF ConsoleInv, BufferInv, Buffer
  <2>5. CASE ~(index + 1 < BufferSize - 1)
    <3>1. /\ shell_input_buffer' = [shell_input_buffer EXCEPT ![index] = c, ![index + 1] = "nul"]
          /\ pc' = "run"
      BY <1>4, <2>5 DEF ReadChar
    <3>2. shell_input_buffer' \in Buffer /\ HasNul(shell_input_buffer', 0)
      BY <2>1, <2>3, <3>1, KeyBuffer DEF ConsoleInv
    <3>3. index' \in Nat
      BY <1>0, <2>3
    <3> QED BY <2>2, <3>1, <3>2, <3>3 DEF ConsoleInv, BufferInv, Buffer, HasNul
  <2> QED BY <2>4, <2>5
<1> QED BY <1>1, <1>2, <1>3, <1>4

\* The shell's loop goes on after a command that left the screen well.
LEMMA DoneStep ==
    ASSUME ConsoleInv, Done, Agree(tty', page')
    PROVE  ConsoleInv'
<1>1. shell_input_buffer' = Parsed(shell_input_buffer) /\ index' = index /\ pc' = "prompt"
  BY DEF Done
<1>2. shell_input_buffer' \in Buffer /\ index' \in Nat
  BY <1>1, ParsedProps DEF ConsoleInv, BufferInv
<1> QED BY <1>1, <1>2 DEF ConsoleInv, BufferInv, Buffer

LEMMA TextAgrees ==
    ASSUME Agree(tty, page), \E s \in Texts : Output(s)
    PROVE  Agree(tty', page')
  BY TextProps, OutputAgrees

LEMMA ExecStep ==
    ASSUME ConsoleInv, NEW path, NEW args, ExecStarts(path, args)
    PROVE  ConsoleInv'
<1>1. /\ shell_input_buffer' = Parsed(shell_input_buffer) /\ index' = index /\ pc' = "child"
      /\ tty' = tty /\ page' = page
  BY DEF ExecStarts, screenVars
<1>2. shell_input_buffer' \in Buffer /\ index' \in Nat
  BY <1>1, ParsedProps DEF ConsoleInv, BufferInv
<1>3. Agree(tty', page')
  BY <1>1 DEF ConsoleInv
<1> QED BY <1>1, <1>2, <1>3 DEF ConsoleInv, BufferInv, Buffer

\* The commands.
LEMMA CommandStep ==
    ASSUME ConsoleInv,
           \/ RunNothing \/ RunText \/ RunClear \/ RunEcho \/ RunExit \/ RunReboot
           \/ RunExec \/ RunProgram
    PROVE  ConsoleInv'
<1>0. Agree(tty, page) /\ shell_input_buffer \in Buffer /\ index \in Nat
  BY DEF ConsoleInv, BufferInv
<1>1. CASE RunNothing
  <2>1. Agree(tty', page')
    BY <1>0, <1>1 DEF RunNothing, screenVars
  <2> QED BY <2>1, <1>1, DoneStep DEF RunNothing
<1>2. CASE RunText
  <2>1. Agree(tty', page')
    BY <1>0, <1>2, TextAgrees DEF RunText
  <2> QED BY <2>1, <1>2, DoneStep DEF RunText
<1>3. CASE RunClear
  <2>1. Agree(tty', page')
    BY <1>3, ClearAgrees DEF RunClear
  <2> QED BY <2>1, <1>3, DoneStep DEF RunClear
<1>4. CASE RunEcho
  <2>1. HasNul(shell_input_buffer, 0)
    BY <1>4 DEF RunEcho, ConsoleInv, BufferInv
  <2>2. Len(Argv) # 0
    BY <1>4 DEF RunEcho, Kind
  <2>3. EchoText \in Seq(Char)
    BY <1>0, <2>1, <2>2, EchoProps
  <2>4. Agree(tty', page')
    BY <1>0, <1>4, <2>3, WriteAgrees DEF RunEcho, Output
  <2> QED BY <2>4, <1>4, DoneStep DEF RunEcho
<1>5. CASE RunExit
  BY <1>0, <1>5 DEF RunExit, screenVars, shellVars, ConsoleInv, BufferInv, Buffer
<1>6. CASE RunReboot
  <2>1. Agree(tty', page')
    BY <1>0, <1>6, TextAgrees DEF RunReboot
  <2> QED BY <1>0, <2>1, <1>6 DEF RunReboot, shellVars, ConsoleInv, BufferInv, Buffer
<1>7. CASE RunExec
  <2>1. CASE Done /\ \E s \in Texts : Output(s)
    BY <1>0, <2>1, TextAgrees, DoneStep
  <2>2. CASE Done /\ UNCHANGED screenVars
    <3>1. Agree(tty', page')
      BY <1>0, <2>2 DEF screenVars
    <3> QED BY <2>2, <3>1, DoneStep
  <2>3. CASE ExecStarts(Argv[2], Tail(Argv))
    <3>1. PICK path, args : path = Argv[2] /\ args = Tail(Argv)
      OBVIOUS
    <3>2. ExecStarts(path, args)
      BY <2>3, <3>1
    <3> QED BY <3>2, ExecStep
  <2> QED BY <1>7, <2>1, <2>2, <2>3 DEF RunExec
<1>8. CASE RunProgram
  <2>1. CASE Done /\ \E s \in Texts : Output(s)
    BY <1>0, <2>1, TextAgrees, DoneStep
  <2>2. CASE ExecStarts(BinPath(Argv[1]), <<BinPath(Argv[1])>> \o Tail(Argv))
    <3>1. PICK path, args : path = BinPath(Argv[1]) /\ args = <<BinPath(Argv[1])>> \o Tail(Argv)
      OBVIOUS
    <3>2. ExecStarts(path, args)
      BY <2>2, <3>1
    <3> QED BY <3>2, ExecStep
  <2> QED BY <1>8, <2>1, <2>2 DEF RunProgram
<1> QED BY <1>1, <1>2, <1>3, <1>4, <1>5, <1>6, <1>7, <1>8

\* The program's steps do not touch the shell's buffer.
ProgramSteps ==
    \/ \E s \in Texts : ChildWrite(s)
    \/ \E len \in ReadLens : ChildRead(len)
    \/ LineEnter \/ LineBackspace \/ (\E c \in Printable : LineChar(c))
    \/ ChildExit

LEMMA ProgramStep ==
    ASSUME ConsoleInv, ProgramSteps
    PROVE  ConsoleInv'
<1>0. Agree(tty, page) /\ shell_input_buffer \in Buffer /\ index \in Nat
  BY DEF ConsoleInv, BufferInv
<1>1. shell_input_buffer' = shell_input_buffer /\ index' = index
  BY DEF ProgramSteps, ChildWrite, ChildRead, LineEnter, LineBackspace, LineChar, ChildExit, shellVars
<1>2. pc' \in {"child", "line", "prompt"}
  BY DEF ProgramSteps, ChildWrite, ChildRead, LineEnter, LineBackspace, LineChar, ChildExit
<1>3. <<"nl">> \in Seq(Char) /\ <<"bs">> \in Seq(Char)
  BY Letters, OneLetter
<1>4. \A c \in Printable : <<c>> \in Seq(Char)
  BY PrintableProps, OneLetter
<1>5. Agree(tty', page')
  <2>1. CASE UNCHANGED screenVars
    BY <1>0, <2>1 DEF screenVars
  <2>2. CASE \E s \in Texts : Output(s)
    BY <1>0, <2>2, TextAgrees
  <2>3. CASE Output(<<"nl">>) \/ Output(<<"bs">>)
    BY <1>0, <1>3, <2>3, OutputAgrees
  <2>4. CASE \E c \in Printable : Output(<<c>>)
    BY <1>0, <1>4, <2>4, OutputAgrees
  <2>5. \/ UNCHANGED screenVars \/ (\E s \in Texts : Output(s))
        \/ Output(<<"nl">>) \/ Output(<<"bs">>) \/ \E c \in Printable : Output(<<c>>)
    BY Zenon DEF ProgramSteps, ChildWrite, ChildRead, LineEnter, LineBackspace, LineChar, ChildExit, screenVars
  <2> QED BY <2>1, <2>2, <2>3, <2>4, <2>5
<1> QED BY <1>0, <1>1, <1>2, <1>5 DEF ConsoleInv, BufferInv, Buffer

\* What makes ScreenShowsPage inductive: the types of screen and page, and that
\* the shell's line ends inside its buffer, so that what echo prints is a text.
THEOREM ConsoleInvariance == Spec => []ConsoleInv
<1>1. ConsoleInv /\ [Next]_vars => ConsoleInv'
  <2> SUFFICES ASSUME ConsoleInv, [Next]_vars PROVE ConsoleInv'
    OBVIOUS
  <2>1. CASE UNCHANGED vars
    BY <2>1 DEF vars, screenVars, shellVars, ConsoleInv, BufferInv, Buffer
  <2>2. CASE Next
    BY <2>2, EditorStep, CommandStep, ProgramStep DEF Next, ProgramSteps
  <2> QED BY <2>1, <2>2
<1> QED BY <1>1, ConsoleInit, PTL DEF Spec

\* For screens of any size and whatever is typed, printed and echoed: wrapping,
\* scrolling and backspace neither lose nor repeat nor leave anything.
THEOREM ScreenHolds == Spec => []ScreenShowsPage
<1>1. ConsoleInv => ScreenShowsPage
  BY DEF ConsoleInv, Agree, ScreenShowsPage
<1> QED BY <1>1, ConsoleInvariance, PTL

-----------------------------------------------------------------------------
(* The lines a program reads.                                                 *)

Keys == Printable \cup {"nl", "bs"}
Edit == [done : Seq(Char), line : Seq(Char)]
NoKeys == [done |-> << >>, line |-> << >>]

\* One key, as Edited takes it.
EditStep(e, c, limit) ==
    CASE c = "nl" -> [done |-> e.done \o e.line \o <<"nl">>, line |-> << >>]
      [] c = "bs" -> [e EXCEPT !.line = SubSeq(@, 1, Len(@) - 1)]
      [] c \in Printable -> IF Len(e.line) < limit THEN [e EXCEPT !.line = Append(@, c)] ELSE e

LEMMA KeysProps == \A c \in Keys : c \in Char
  BY Letters, PrintableProps DEF Keys

LEMMA EditCases ==
    ASSUME NEW e \in Edit, NEW limit
    PROVE  /\ EditStep(e, "nl", limit) = [done |-> e.done \o e.line \o <<"nl">>, line |-> << >>]
           /\ EditStep(e, "bs", limit) =
                 [done |-> e.done, line |-> SubSeq(e.line, 1, Len(e.line) - 1)]
           /\ \A c \in Printable :
                 EditStep(e, c, limit) =
                    [done |-> e.done, line |-> IF Len(e.line) < limit THEN Append(e.line, c) ELSE e.line]
<1>0. e = [done |-> e.done, line |-> e.line]
  BY DEF Edit
<1>1. EditStep(e, "nl", limit) = [done |-> e.done \o e.line \o <<"nl">>, line |-> << >>]
  BY PrintableProps DEF EditStep
<1>2. EditStep(e, "bs", limit) = [e EXCEPT !.line = SubSeq(e.line, 1, Len(e.line) - 1)]
  BY PrintableProps DEF EditStep
<1>3. ASSUME NEW c \in Printable
      PROVE  EditStep(e, c, limit) = IF Len(e.line) < limit THEN [e EXCEPT !.line = Append(e.line, c)] ELSE e
  BY PrintableProps DEF EditStep
<1>4. \A x : [e EXCEPT !.line = x] = [done |-> e.done, line |-> x]
  BY DEF Edit
<1> QED BY <1>0, <1>1, <1>2, <1>3, <1>4

LEMMA EditType ==
    ASSUME NEW e \in Edit, NEW c \in Keys, NEW limit
    PROVE  EditStep(e, c, limit) \in Edit
<1>0. e.done \in Seq(Char) /\ e.line \in Seq(Char) /\ c \in Char
  BY KeysProps DEF Edit
<1>1. CASE c = "nl"
  <2>1. e.done \o e.line \o <<c>> \in Seq(Char) /\ << >> \in Seq(Char)
    BY <1>0
  <2>2. EditStep(e, c, limit) = [done |-> e.done \o e.line \o <<c>>, line |-> << >>]
    BY <1>1, EditCases
  <2> QED BY <2>1, <2>2 DEF Edit
<1>2. CASE c = "bs"
  <2>1. SubSeq(e.line, 1, Len(e.line) - 1) \in Seq(Char)
    BY <1>0
  <2>2. EditStep(e, c, limit) = [done |-> e.done, line |-> SubSeq(e.line, 1, Len(e.line) - 1)]
    BY <1>2, EditCases
  <2> QED BY <1>0, <2>1, <2>2 DEF Edit
<1>3. CASE c \in Printable
  <2>1. Append(e.line, c) \in Seq(Char)
    BY <1>0
  <2>2. EditStep(e, c, limit) =
          [done |-> e.done, line |-> IF Len(e.line) < limit THEN Append(e.line, c) ELSE e.line]
    BY <1>3, EditCases
  <2> QED BY <1>0, <2>1, <2>2 DEF Edit
<1> QED BY <1>1, <1>2, <1>3 DEF Keys

\* Edited goes along the keys.
EditWalk(f, ks, limit) ==
    /\ f \in [0 .. Len(ks) -> Edit] /\ f[0] = NoKeys
    /\ \A k \in 1 .. Len(ks) : f[k] = EditStep(f[k - 1], ks[k], limit)
    /\ Edited(ks, limit) = f[Len(ks)]

LEMMA EditedWalks ==
    ASSUME NEW ks \in Seq(Keys), NEW limit
    PROVE  \E f : EditWalk(f, ks, limit)
<1> DEFINE n == Len(ks)
           G(f) == [k \in 0 .. n |-> IF k = 0 THEN NoKeys ELSE EditStep(f[k - 1], ks[k], limit)]
           step == [e \in Edit |-> [k \in 1 .. n |-> EditStep(e, ks[k], limit)]]
           walk == CHOOSE f : f = G(f)
<1>1. n \in Nat /\ \A k \in 1 .. n : ks[k] \in Keys
  OBVIOUS
<1>2. NoKeys \in Edit
  BY DEF NoKeys, Edit
<1>3. Edited(ks, limit) = walk[n]
  BY Zenon DEF Edited, EditStep, NoKeys
<1> HIDE DEF n
<1>4. step \in [Edit -> [1 .. n -> Edit]]
  BY <1>1, EditType
<1>5. PICK f : /\ f \in [0 .. n -> Edit] /\ f[0] = NoKeys
               /\ \A k \in 1 .. n : f[k] = step[f[k - 1]][k]
  <2> HIDE DEF step
  <2>1. PICK m, st, e : m = n /\ st = step /\ e = NoKeys
    OBVIOUS
  <2>2. m \in Nat /\ e \in Edit /\ st \in [Edit -> [1 .. m -> Edit]]
    BY <2>1, <1>1, <1>2, <1>4
  <2>3. PICK f : IsWalk(f, m, Edit, e, st)
    BY ONLY <2>2, WalkExists
  <2>4. f \in [0 .. m -> Edit] /\ f[0] = e /\ \A k \in 1 .. m : f[k] = st[f[k - 1]][k]
    BY <2>3, Zenon DEF IsWalk
  <2>5. f \in [0 .. n -> Edit] /\ f[0] = NoKeys /\ \A k \in 1 .. n : f[k] = step[f[k - 1]][k]
    BY <2>1, <2>4
  <2> QED BY <2>5, Zenon
<1>6. ASSUME NEW k \in 1 .. n PROVE f[k] = EditStep(f[k - 1], ks[k], limit)
  <2>1. k - 1 \in 0 .. n
    BY <1>1
  <2>2. f[k - 1] \in Edit
    BY <2>1, <1>5
  <2> QED BY <2>2, <1>5
<1>7. f = G(f)
  <2>1. ASSUME NEW k \in 0 .. n PROVE f[k] = G(f)[k]
    <3>1. CASE k = 0
      BY <3>1, <1>5
    <3>2. CASE k # 0
      <4>1. k \in 1 .. n
        BY <3>2, <1>1
      <4> QED BY <4>1, <3>2, <1>6
    <3> QED BY <3>1, <3>2
  <2>2. f = [k \in 0 .. n |-> f[k]] /\ G(f) = [k \in 0 .. n |-> G(f)[k]]
    BY <1>5
  <2> HIDE DEF G
  <2> QED BY <2>1, <2>2, Zenon
<1>8. walk = G(walk)
  BY <1>7, Zenon DEF walk
<1> HIDE DEF walk
<1> DEFINE R == {k \in 0 .. n : walk[k] \in Edit}
<1>9. walk[0] = NoKeys /\ \A k \in 1 .. n : walk[k] = EditStep(walk[k - 1], ks[k], limit)
  <2>1. 0 \in 0 .. n /\ \A k \in 1 .. n : k \in 0 .. n /\ k # 0
    BY <1>1
  <2> QED BY <2>1, <1>8
<1>10. 0 \in R
  BY <1>1, <1>2, <1>9
<1>11. ASSUME NEW k \in 1 .. n, k - 1 \in R PROVE k \in R
  BY <1>1, <1>9, <1>11, EditType
<1>12. \A k \in 0 .. n : k \in R
  <2> HIDE DEF R
  <2> QED BY <1>1, <1>10, <1>11, WalkKeeps
<1>13. walk = [k \in 0 .. n |-> walk[k]]
  <2>1. PICK w : w = walk
    OBVIOUS
  <2>2. w = G(w)
    BY <2>1, <1>8
  <2>3. w = [k \in 0 .. n |-> w[k]]
    BY <2>2
  <2> QED BY <2>1, <2>3
<1>14. walk \in [0 .. n -> Edit]
  BY <1>12, <1>13
<1> QED BY <1>3, <1>9, <1>14 DEF EditWalk, n

LEMMA EditedEmpty ==
    ASSUME NEW limit PROVE Edited(<< >>, limit) = NoKeys
<1>1. PICK ks : ks = << >>
  OBVIOUS
<1>2. ks \in Seq(Keys) /\ Len(ks) = 0
  BY <1>1
<1>3. PICK f : EditWalk(f, ks, limit)
  BY <1>2, EditedWalks
<1> QED BY <1>1, <1>2, <1>3 DEF EditWalk

\* One more key is one more step.
LEMMA EditedAppend ==
    ASSUME NEW ks \in Seq(Keys), NEW c \in Keys, NEW limit
    PROVE  /\ Edited(ks, limit) \in Edit
           /\ Edited(Append(ks, c), limit) = EditStep(Edited(ks, limit), c, limit)
<1> DEFINE n == Len(ks)
<1>1. PICK ls : ls = Append(ks, c)
  OBVIOUS
<1>2. /\ n \in Nat /\ ls \in Seq(Keys) /\ Len(ls) = n + 1 /\ ls[n + 1] = c
      /\ \A k \in 1 .. n : ls[k] = ks[k]
  BY <1>1
<1>3. PICK f : EditWalk(f, ks, limit)
  BY EditedWalks
<1>4. PICK g : EditWalk(g, ls, limit)
  BY <1>2, EditedWalks
<1>5. /\ f \in [0 .. n -> Edit] /\ f[0] = NoKeys /\ Edited(ks, limit) = f[n]
      /\ \A k \in 1 .. n : f[k] = EditStep(f[k - 1], ks[k], limit)
  BY <1>3 DEF EditWalk
<1>6. /\ g[0] = NoKeys /\ Edited(ls, limit) = g[n + 1]
      /\ \A k \in 1 .. n + 1 : g[k] = EditStep(g[k - 1], ls[k], limit)
  BY <1>2, <1>4 DEF EditWalk
<1> HIDE DEF n
<1> DEFINE R == {k \in 0 .. n : f[k] = g[k]}
<1>7. 0 \in R
  BY <1>2, <1>5, <1>6
<1>8. ASSUME NEW k \in 1 .. n, k - 1 \in R PROVE k \in R
  <2>1. k \in 0 .. n /\ k \in 1 .. n + 1 /\ f[k - 1] = g[k - 1]
    BY <1>2, <1>8
  <2> QED BY <2>1, <1>2, <1>5, <1>6
<1>9. n \in R
  <2> HIDE DEF R
  <2>1. \A k \in 0 .. n : k \in R
    BY <1>2, <1>7, <1>8, WalkKeeps
  <2> QED BY <2>1, <1>2
<1>10. n + 1 \in 1 .. n + 1 /\ (n + 1) - 1 = n /\ n \in 0 .. n
  BY <1>2
<1>11. g[n + 1] = EditStep(f[n], c, limit)
  <2>1. g[n + 1] = EditStep(g[(n + 1) - 1], ls[n + 1], limit)
    BY <1>6, <1>10
  <2> QED BY <2>1, <1>2, <1>9, <1>10
<1> QED BY <1>1, <1>5, <1>6, <1>10, <1>11

\* The lines the program was told, and the rest of the last that it did not
\* read yet.
ToldEdit == Edited(told, LineSize - 1)
Rest(line, pos) == SubSeq(line, pos + 1, Len(line))

\* While a line is being typed all finished ones were read, and line_buf is the
\* line begun; otherwise no line is begun.
ReadInv ==
    /\ told \in Seq(Keys) /\ line_buf \in Seq(Char) /\ got \in Seq(Char)
    /\ line_pos \in Nat /\ line_pos <= Len(line_buf) /\ want \in Nat
    /\ pc = "line" => got = ToldEdit.done /\ line_buf = ToldEdit.line /\ line_pos = 0
    /\ pc # "line" => got \o Rest(line_buf, line_pos) = ToldEdit.done /\ ToldEdit.line = << >>

LEMMA ToldType ==
    ASSUME told \in Seq(Keys)
    PROVE  ToldEdit \in Edit /\ ToldEdit.done \in Seq(Char) /\ ToldEdit.line \in Seq(Char)
<1>1. "nl" \in Keys
  BY DEF Keys
<1>2. PICK ks, n : ks = told /\ n = LineSize - 1
  OBVIOUS
<1>3. Edited(ks, n) \in Edit
  BY <1>1, <1>2, EditedAppend
<1> QED BY <1>2, <1>3 DEF ToldEdit, Edit

\* A key of the program's line is one step of the reference.
LEMMA ToldStep ==
    ASSUME told \in Seq(Keys), NEW c \in Keys, told' = Append(told, c)
    PROVE  ToldEdit' = EditStep(ToldEdit, c, LineSize - 1) /\ told' \in Seq(Keys)
<1>1. PICK ks, n : ks = told /\ n = LineSize - 1
  OBVIOUS
<1>2. Edited(Append(ks, c), n) = EditStep(Edited(ks, n), c, n)
  BY <1>1, EditedAppend
<1>3. ToldEdit' = Edited(told', LineSize - 1)
  BY DEF ToldEdit
<1> QED BY <1>1, <1>2, <1>3 DEF ToldEdit

\* Copying takes from the rest what it adds to what was read.
LEMMA CopyProps ==
    ASSUME NEW line \in Seq(Char), NEW pos \in Nat, pos <= Len(line), NEW len \in Nat,
           got \in Seq(Char), CopyLine(line, pos, len)
    PROVE  /\ got' \o Rest(line_buf', line_pos') = got \o Rest(line, pos)
           /\ got' \in Seq(Char) /\ line_buf' = line
           /\ line_pos' \in Nat /\ line_pos' <= Len(line_buf')
<1> DEFINE n == IF len < Len(line) - pos THEN len ELSE Len(line) - pos
<1>1. /\ got' = got \o SubSeq(line, pos + 1, pos + n)
      /\ line_buf' = line /\ line_pos' = pos + n
  BY DEF CopyLine
<1>2. n \in Nat /\ pos + n <= Len(line) /\ pos + n \in Nat /\ Len(line) \in Nat
  OBVIOUS
<1> HIDE DEF n
<1>3. PICK k : k = pos + n
  OBVIOUS
<1>4. k \in Nat /\ pos <= k /\ k <= Len(line)
  BY <1>2, <1>3
<1>5. SubSeq(line, pos + 1, k) \o SubSeq(line, k + 1, Len(line)) = SubSeq(line, pos + 1, Len(line))
  <2>1. /\ pos + 1 \in 1 .. Len(line) + 1 /\ k \in (pos + 1) - 1 .. Len(line)
        /\ Len(line) \in k .. Len(line)
    BY <1>2, <1>4
  <2> QED BY <2>1, ConcatAdjacentSubSeq
<1>6. SubSeq(line, pos + 1, k) \in Seq(Char) /\ SubSeq(line, k + 1, Len(line)) \in Seq(Char)
  <2>1. \A i \in pos + 1 .. k : line[i] \in Char
    BY <1>2, <1>4
  <2>2. \A i \in k + 1 .. Len(line) : line[i] \in Char
    BY <1>2, <1>4
  <2> QED BY <2>1, <2>2, <1>2, <1>4, SubSeqProperties
<1>7. PICK a, b, g : /\ a = SubSeq(line, pos + 1, k) /\ b = SubSeq(line, k + 1, Len(line)) /\ g = got
  OBVIOUS
<1>70. g \in Seq(Char) /\ a \in Seq(Char) /\ b \in Seq(Char)
  BY <1>6, <1>7
<1>8. (g \o a) \o b = g \o (a \o b) /\ g \o a \in Seq(Char)
  BY ONLY <1>70, ConcatAssociative, ConcatProperties
<1> QED BY <1>1, <1>3, <1>4, <1>5, <1>7, <1>8 DEF Rest

LEMMA ReadInit == Init => ReadInv
<1> SUFFICES ASSUME Init PROVE ReadInv
  OBVIOUS
<1>1. /\ told = << >> /\ line_buf = << >> /\ got = << >> /\ line_pos = 0 /\ want = 0
      /\ pc = "prompt"
  BY DEF Init
<1>2. ToldEdit = NoKeys
  <2>1. PICK n : n = LineSize - 1
    OBVIOUS
  <2> QED BY <1>1, <2>1, EditedEmpty DEF ToldEdit
<1>3. got \o Rest(line_buf, line_pos) = << >>
  BY <1>1 DEF Rest
<1> QED BY <1>1, <1>2, <1>3 DEF ReadInv, NoKeys

\* Steps that leave the program's memory alone.
LEMMA ReadKept ==
    ASSUME ReadInv, UNCHANGED childVars, pc # "line", pc' # "line"
    PROVE  ReadInv'
<1>1. told' = told /\ line_buf' = line_buf /\ got' = got /\ line_pos' = line_pos /\ want' = want
  BY DEF childVars
<1>2. ToldEdit' = ToldEdit
  BY <1>1 DEF ToldEdit
<1> QED BY <1>1, <1>2 DEF ReadInv, Rest

LEMMA ReadExec ==
    ASSUME ReadInv, NEW path, NEW args, ExecStarts(path, args)
    PROVE  ReadInv'
<1>1. /\ told' = << >> /\ line_buf' = << >> /\ got' = << >> /\ line_pos' = 0 /\ want' = 0
      /\ pc' = "child"
  BY DEF ExecStarts
<1>2. ToldEdit' = NoKeys
  <2>1. PICK n : n = LineSize - 1
    OBVIOUS
  <2>2. ToldEdit' = Edited(told', LineSize - 1)
    BY DEF ToldEdit
  <2> QED BY <1>1, <2>1, <2>2, EditedEmpty
<1>3. got' \o Rest(line_buf', line_pos') = << >>
  BY <1>1 DEF Rest
<1> QED BY <1>1, <1>2, <1>3 DEF ReadInv, NoKeys, Rest

\* read() of the program.
LEMMA ReadRead ==
    ASSUME ReadInv, NEW len \in ReadLens, ChildRead(len)
    PROVE  ReadInv'
<1>0. /\ told \in Seq(Keys) /\ line_buf \in Seq(Char) /\ got \in Seq(Char)
      /\ line_pos \in Nat /\ line_pos <= Len(line_buf) /\ want \in Nat /\ pc = "child"
      /\ got \o Rest(line_buf, line_pos) = ToldEdit.done /\ ToldEdit.line = << >>
      /\ told' = told /\ len \in Nat
  BY BufferAssumption DEF ReadInv, ChildRead
<1>1. ToldEdit' = ToldEdit
  BY <1>0 DEF ToldEdit
<1>2. CASE len <= 0 \/ line_pos < Len(line_buf)
  <2>1. CopyLine(line_buf, line_pos, len) /\ pc' = pc /\ want' = want
    BY <1>2 DEF ChildRead
  <2>2. PICK l, p : l = line_buf /\ p = line_pos
    OBVIOUS
  <2>3. /\ got' \o Rest(line_buf', line_pos') = got \o Rest(l, p)
        /\ got' \in Seq(Char) /\ line_buf' = l
        /\ line_pos' \in Nat /\ line_pos' <= Len(line_buf')
    BY <1>0, <2>1, <2>2, CopyProps
  <2> QED BY <1>0, <1>1, <2>1, <2>2, <2>3 DEF ReadInv, Rest
<1>3. CASE ~(len <= 0 \/ line_pos < Len(line_buf))
  <2>1. pc' = "line" /\ want' = len /\ line_buf' = << >> /\ line_pos' = 0 /\ got' = got
    BY <1>3 DEF ChildRead
  <2>2. Rest(line_buf, line_pos) = << >>
    BY <1>0, <1>3 DEF Rest
  <2>3. got = ToldEdit.done
    <3>1. PICK g, e : g = got /\ e = Rest(line_buf, line_pos)
      OBVIOUS
    <3>2. g \o e = g
      BY <1>0, <2>2, <3>1
    <3> QED BY <1>0, <3>1, <3>2
  <2> QED BY <1>0, <1>1, <2>1, <2>3 DEF ReadInv
<1> QED BY <1>2, <1>3

LEMMA ReadEnterLine ==
    ASSUME ReadInv, LineEnter
    PROVE  ReadInv'
<1>0. /\ told \in Seq(Keys) /\ line_buf \in Seq(Char) /\ got \in Seq(Char)
      /\ want \in Nat /\ got = ToldEdit.done /\ line_buf = ToldEdit.line
      /\ told' = Append(told, "nl") /\ want' = want /\ pc' = "child"
      /\ CopyLine(Append(line_buf, "nl"), 0, want)
  BY DEF ReadInv, LineEnter
<1>1. "nl" \in Keys
  BY DEF Keys
<1>2. "nl" \in Char
  BY Letters
<1>3. ToldEdit' = EditStep(ToldEdit, "nl", LineSize - 1) /\ told' \in Seq(Keys)
  BY <1>0, <1>1, ToldStep
<1>4. PICK e, n : e = ToldEdit /\ n = LineSize - 1
  OBVIOUS
<1>5. e \in Edit
  BY <1>0, <1>4, ToldType
<1>6. EditStep(e, "nl", n) = [done |-> e.done \o e.line \o <<"nl">>, line |-> << >>]
  BY <1>5, EditCases
<1>7. PICK l, c, g : l = line_buf /\ c = "nl" /\ g = got
  OBVIOUS
<1>8. l \in Seq(Char) /\ c \in Char /\ g \in Seq(Char)
  BY <1>0, <1>2, <1>7
<1>9. Append(l, c) \in Seq(Char) /\ 0 <= Len(Append(l, c)) /\ <<c>> \in Seq(Char)
  BY <1>8
<1>10. PICK m : m = Append(l, c)
  OBVIOUS
<1>11. /\ got' \o Rest(line_buf', line_pos') = got \o Rest(m, 0)
       /\ got' \in Seq(Char) /\ line_buf' = m
       /\ line_pos' \in Nat /\ line_pos' <= Len(line_buf')
  <2>1. m \in Seq(Char) /\ 0 <= Len(m) /\ 0 \in Nat /\ CopyLine(m, 0, want)
    BY <1>0, <1>7, <1>9, <1>10
  <2>2. PICK w : w = want
    OBVIOUS
  <2>3. w \in Nat /\ CopyLine(m, 0, w)
    BY <1>0, <2>1, <2>2
  <2> QED BY <1>0, <2>1, <2>3, CopyProps
<1>12. Rest(m, 0) = m
  <2>1. m \in Seq(Char) /\ 0 + 1 = 1
    BY <1>9, <1>10
  <2> QED BY <2>1, SubSeqFull DEF Rest
<1>13. g \o m = (g \o l) \o <<c>>
  <2>1. m = l \o <<c>>
    BY <1>8, <1>10, AppendIsConcat
  <2> QED BY <2>1, <1>8, <1>9, ConcatAssociative
<1>14. got' \o Rest(line_buf', line_pos') = ToldEdit'.done /\ ToldEdit'.line = << >>
  <2>1. ToldEdit' = [done |-> e.done \o e.line \o <<"nl">>, line |-> << >>]
    BY <1>3, <1>4, <1>6
  <2>2. ToldEdit'.done = (e.done \o e.line) \o <<"nl">> /\ ToldEdit'.line = << >>
    BY <2>1
  <2>3. e.done = g /\ e.line = l
    BY <1>0, <1>4, <1>7
  <2>4. got' \o Rest(line_buf', line_pos') = (g \o l) \o <<c>>
    BY <1>7, <1>11, <1>12, <1>13
  <2> QED BY <1>7, <2>2, <2>3, <2>4
<1> QED BY <1>0, <1>3, <1>9, <1>10, <1>11, <1>14 DEF ReadInv, Rest

LEMMA ReadEditLine ==
    ASSUME ReadInv, LineBackspace \/ \E c \in Printable : LineChar(c)
    PROVE  ReadInv'
<1>0. /\ told \in Seq(Keys) /\ line_buf \in Seq(Char) /\ got \in Seq(Char) /\ want \in Nat
      /\ got = ToldEdit.done /\ line_buf = ToldEdit.line /\ line_pos = 0
      /\ want' = want /\ pc' = "line" /\ got' = got /\ line_pos' = line_pos
  BY DEF ReadInv, LineBackspace, LineChar
<1>1. PICK e, n, l : e = ToldEdit /\ n = LineSize - 1 /\ l = line_buf
  OBVIOUS
<1>2. e \in Edit /\ l \in Seq(Char) /\ Len(l) \in Nat /\ n \in Nat
  BY <1>0, <1>1, ToldType, BufferAssumption
<1>3. /\ told' \in Seq(Keys) /\ line_buf' \in Seq(Char)
      /\ ToldEdit' = [done |-> e.done, line |-> line_buf']
  <2>1. CASE LineBackspace
    <3>1. /\ told' = Append(told, "bs")
          /\ line_buf' = IF Len(l) > 0 THEN SubSeq(l, 1, Len(l) - 1) ELSE l
      BY <1>1, <2>1 DEF LineBackspace
    <3>2. "bs" \in Keys
      BY DEF Keys
    <3>3. ToldEdit' = EditStep(ToldEdit, "bs", LineSize - 1) /\ told' \in Seq(Keys)
      BY <1>0, <3>1, <3>2, ToldStep
    <3>4. EditStep(e, "bs", n) = [done |-> e.done, line |-> SubSeq(e.line, 1, Len(e.line) - 1)]
      BY <1>2, EditCases
    <3>5. SubSeq(l, 1, Len(l) - 1) \in Seq(Char) /\ (~(Len(l) > 0) => SubSeq(l, 1, Len(l) - 1) = l)
      BY <1>2
    <3>6. line_buf' = SubSeq(l, 1, Len(l) - 1)
      BY <3>1, <3>5
    <3> QED BY <1>0, <1>1, <3>3, <3>4, <3>5, <3>6
  <2>2. ASSUME NEW c \in Printable, LineChar(c)
        PROVE  /\ told' \in Seq(Keys) /\ line_buf' \in Seq(Char)
               /\ ToldEdit' = [done |-> e.done, line |-> line_buf']
    <3>1. /\ told' = Append(told, c)
          /\ line_buf' = IF Len(l) < n THEN Append(l, c) ELSE l
      BY <1>1, <2>2 DEF LineChar
    <3>2. c \in Keys /\ c \in Char
      BY PrintableProps DEF Keys
    <3>3. ToldEdit' = EditStep(ToldEdit, c, LineSize - 1) /\ told' \in Seq(Keys)
      BY <1>0, <3>1, <3>2, ToldStep
    <3>4. EditStep(e, c, n) =
            [done |-> e.done, line |-> IF Len(e.line) < n THEN Append(e.line, c) ELSE e.line]
      BY <1>2, EditCases
    <3>5. line_buf' \in Seq(Char)
      BY <1>2, <3>1, <3>2
    <3> QED BY <1>0, <1>1, <3>1, <3>3, <3>4, <3>5
  <2> QED BY <2>1, <2>2
<1>4. line_pos' \in Nat /\ line_pos' <= Len(line_buf')
  <2>1. PICK k : k = line_buf'
    OBVIOUS
  <2>2. Len(k) \in Nat
    BY <1>3, <2>1
  <2> QED BY <1>0, <2>1, <2>2
<1> QED BY <1>0, <1>1, <1>3, <1>4 DEF ReadInv

\* What makes ReadsReturnLines inductive: that no line is begun while none is
\* being read.
THEOREM ReadInvariance == Spec => []ReadInv
<1>1. ReadInv /\ [Next]_vars => ReadInv'
  <2> SUFFICES ASSUME ReadInv, [Next]_vars PROVE ReadInv'
    OBVIOUS
  <2>1. CASE UNCHANGED vars
    <3>1. /\ told' = told /\ line_buf' = line_buf /\ got' = got /\ line_pos' = line_pos
          /\ want' = want /\ pc' = pc
      BY <2>1 DEF vars, childVars
    <3>2. ToldEdit' = ToldEdit
      BY <3>1 DEF ToldEdit
    <3> QED BY <3>1, <3>2 DEF ReadInv, Rest
  <2>2. CASE \/ ShowPrompt \/ ReadEnter \/ ReadBackspace \/ (\E c \in Printable : ReadChar(c))
             \/ RunNothing \/ RunText \/ RunClear \/ RunEcho \/ RunExit \/ RunReboot
             \/ (\E s \in Texts : ChildWrite(s)) \/ ChildExit
    <3>1. UNCHANGED childVars /\ pc # "line" /\ pc' # "line"
      BY <2>2 DEF ShowPrompt, ReadEnter, ReadBackspace, ReadChar, RunNothing, RunText, RunClear,
                  RunEcho, RunExit, RunReboot, Done, ChildWrite, ChildExit
    <3> QED BY <3>1, ReadKept
  <2>3. CASE RunExec
    <3>1. CASE Done
      BY <2>3, <3>1, ReadKept DEF RunExec, Done
    <3>2. CASE ExecStarts(Argv[2], Tail(Argv))
      <4>1. PICK path, args : path = Argv[2] /\ args = Tail(Argv)
        OBVIOUS
      <4>2. ExecStarts(path, args)
        BY <3>2, <4>1
      <4> QED BY <4>2, ReadExec
    <3> QED BY <2>3, <3>1, <3>2 DEF RunExec
  <2>4. CASE RunProgram
    <3>1. CASE Done
      BY <2>4, <3>1, ReadKept DEF RunProgram, Done
    <3>2. CASE ExecStarts(BinPath(Argv[1]), <<BinPath(Argv[1])>> \o Tail(Argv))
      <4>1. PICK path, args : path = BinPath(Argv[1]) /\ args = <<BinPath(Argv[1])>> \o Tail(Argv)
        OBVIOUS
      <4>2. ExecStarts(path, args)
        BY <3>2, <4>1
      <4> QED BY <4>2, ReadExec
    <3> QED BY <2>4, <3>1, <3>2 DEF RunProgram
  <2>5. CASE \E len \in ReadLens : ChildRead(len)
    BY <2>5, ReadRead
  <2>6. CASE LineEnter
    BY <2>6, ReadEnterLine
  <2>7. CASE LineBackspace \/ \E c \in Printable : LineChar(c)
    BY <2>7, ReadEditLine
  <2> QED BY <2>1, <2>2, <2>3, <2>4, <2>5, <2>6, <2>7, Zenon DEF Next
<1> QED BY <1>1, ReadInit, PTL DEF Spec

\* For buffers and reads of any size and any keys, newlib's read returns the
\* lines as they were edited, without loss or repetition.
THEOREM ReadsHold == Spec => []ReadsReturnLines
<1>1. ReadInv => ReadsReturnLines
  BY DEF ReadInv, ReadsReturnLines, ToldEdit, Rest
<1> QED BY <1>1, ReadInvariance, PTL

-----------------------------------------------------------------------------
(* The line on the screen.                                                    *)

\* A backspace and a character change one cell of the row.
LEMMA BackspaceCell ==
    ASSUME NEW t, NEW p, Agree(t, p), t.column > 0
    PROVE  LET u == terminal_write(t, <<"bs">>) IN
           /\ u.column = t.column - 1 /\ u.row = t.row
           /\ u.cells[t.row] = [t.cells[t.row] EXCEPT ![t.column - 1] = " "]
<1>1. " " \in Char /\ "bs" \in Char
  BY Letters
<1>2. t.column - 1 \in Columns /\ t.column \in Nat
  BY AgreeFacts DEF Columns
<1>3. PICK v : v = terminal_putentryat(t, " ", t.column - 1)
  OBVIOUS
<1>4. /\ v.column = t.column /\ v.row = t.row /\ v \in Screen
      /\ v.cells[t.row] = [t.cells[t.row] EXCEPT ![t.column - 1] = " "]
  <2>1. Agree(v, SetChar(p, " ", t.column - 1))
    BY <1>1, <1>2, <1>3, PutAgrees
  <2>2. v \in Screen
    BY <2>1 DEF Agree
  <2>3. PICK x, e : x = t.column - 1 /\ e = " "
    OBVIOUS
  <2>4. x \in Columns /\ e \in Char /\ v = terminal_putentryat(t, e, x)
    BY <2>3, <1>1, <1>2, <1>3
  <2>5. v.column = t.column /\ v.row = t.row /\ v.cells[t.row] = [t.cells[t.row] EXCEPT ![x] = e]
    BY <2>4, PutAgrees
  <2> QED BY <2>2, <2>3, <2>5
<1>5. terminal_putchar(t, "bs") = [v EXCEPT !.column = v.column - 1]
  BY <1>3 DEF terminal_putchar, Backspace
<1>6. terminal_write(t, <<"bs">>) = terminal_putchar(t, "bs")
  BY <1>1, WriteOne
<1>7. PICK w : w = [v EXCEPT !.column = v.column - 1]
  OBVIOUS
<1>8. w.column = v.column - 1 /\ w.row = v.row /\ w.cells = v.cells
  BY <1>4, <1>7 DEF Screen
<1>9. terminal_write(t, <<"bs">>) = w
  BY <1>5, <1>6, <1>7
<1> QED BY <1>4, <1>8, <1>9

LEMMA CharCell ==
    ASSUME NEW t, NEW p, Agree(t, p), t.column < Width, NEW c \in Printable
    PROVE  LET u == terminal_write(t, <<c>>) IN
           /\ u.column = t.column + 1 /\ u.row = t.row
           /\ u.cells[t.row] = [t.cells[t.row] EXCEPT ![t.column] = c]
<1>1. c \in Char /\ c \notin {"nl", "cr", "bs"}
  BY PrintableProps
<1>2. t.column \in Columns /\ t.column \in Nat /\ t.column # Width
  BY AgreeFacts DEF Columns
<1>3. PICK v : v = terminal_putentryat(t, c, t.column)
  OBVIOUS
<1>4. /\ v.column = t.column /\ v.row = t.row /\ v \in Screen
      /\ v.cells[t.row] = [t.cells[t.row] EXCEPT ![t.column] = c]
  <2>1. Agree(v, SetChar(p, c, t.column))
    BY <1>1, <1>2, <1>3, PutAgrees
  <2>2. v \in Screen
    BY <2>1 DEF Agree
  <2> QED BY <2>2, <1>1, <1>2, <1>3, PutAgrees
<1>5. terminal_putchar(t, c) = [v EXCEPT !.column = v.column + 1]
  BY <1>1, <1>2, <1>3 DEF terminal_putchar
<1>6. terminal_write(t, <<c>>) = terminal_putchar(t, c)
  BY <1>1, WriteOne
<1>7. PICK w : w = [v EXCEPT !.column = v.column + 1]
  OBVIOUS
<1>8. w.column = v.column + 1 /\ w.row = v.row /\ w.cells = v.cells
  BY <1>4, <1>7 DEF Screen
<1>9. terminal_write(t, <<c>>) = w
  BY <1>5, <1>6, <1>7
<1> QED BY <1>4, <1>8, <1>9

\* The lengths the line had, and the greatest of them.
LineLen(ks) == Len(Edited(ks, BufferSize).line)
Lens(ks) == {LineLen(SubSeq(ks, 1, n)) : n \in 0 .. Len(ks)}
IsPeak(m, ks) == m \in Lens(ks) /\ \A l \in Lens(ks) : l <= m
PeakOf(ks) == CHOOSE m \in Lens(ks) : \A l \in Lens(ks) : l <= m

LEMMA LineLenType ==
    ASSUME NEW ks \in Seq(Keys)
    PROVE  LineLen(ks) \in Nat /\ LineLen(ks) \in Lens(ks)
<1>1. "bs" \in Keys
  BY DEF Keys
<1>2. Edited(ks, BufferSize) \in Edit
  BY <1>1, EditedAppend
<1>3. LineLen(ks) \in Nat
  BY <1>2 DEF LineLen, Edit
<1>4. SubSeq(ks, 1, Len(ks)) = ks /\ Len(ks) \in 0 .. Len(ks)
  OBVIOUS
<1> QED BY <1>3, <1>4, Zenon DEF Lens

LEMMA LensType ==
    ASSUME NEW ks \in Seq(Keys)
    PROVE  Lens(ks) \subseteq Nat
<1> SUFFICES ASSUME NEW n \in 0 .. Len(ks) PROVE LineLen(SubSeq(ks, 1, n)) \in Nat
  BY DEF Lens
<1>1. SubSeq(ks, 1, n) \in Seq(Keys)
  OBVIOUS
<1> QED BY <1>1, LineLenType

LEMMA PeakEmpty == IsPeak(0, << >>) /\ LineLen(<< >>) = 0
<1>1. Edited(<< >>, BufferSize).line = << >>
  BY EditedEmpty DEF NoKeys
<1>2. LineLen(<< >>) = 0
  BY <1>1 DEF LineLen
<1>3. PICK ks : ks = << >>
  OBVIOUS
<1>4. ks \in Seq(Keys) /\ 0 .. Len(ks) = {0} /\ SubSeq(ks, 1, 0) = ks
  BY <1>3
<1>5. Lens(ks) = {LineLen(ks)}
  BY <1>4 DEF Lens
<1> QED BY <1>2, <1>3, <1>5 DEF IsPeak

LEMMA PeakAppend ==
    ASSUME NEW ks \in Seq(Keys), NEW c \in Keys, NEW m, IsPeak(m, ks), NEW l, l = LineLen(Append(ks, c))
    PROVE  IsPeak(IF l > m THEN l ELSE m, Append(ks, c)) /\ m \in Nat /\ l \in Nat
<1>1. PICK ls : ls = Append(ks, c)
  OBVIOUS
<1>2. ls \in Seq(Keys) /\ Len(ls) = Len(ks) + 1 /\ Len(ks) \in Nat
  BY <1>1
<1>3. \A n \in 0 .. Len(ks) : SubSeq(ls, 1, n) = SubSeq(ks, 1, n)
  BY <1>1
<1>4. SubSeq(ls, 1, Len(ks) + 1) = ls
  BY <1>2
<1>5. Lens(ls) = Lens(ks) \cup {LineLen(ls)}
  <2>1. \A n : n \in 0 .. Len(ls) <=> n \in 0 .. Len(ks) \/ n = Len(ks) + 1
    BY <1>2
  <2>2. ASSUME NEW x PROVE x \in Lens(ls) <=> x \in Lens(ks) \cup {LineLen(ls)}
    <3>1. x \in Lens(ls) <=> \E n \in 0 .. Len(ls) : x = LineLen(SubSeq(ls, 1, n))
      BY Zenon DEF Lens
    <3>2. x \in Lens(ks) <=> \E n \in 0 .. Len(ks) : x = LineLen(SubSeq(ks, 1, n))
      BY Zenon DEF Lens
    <3> QED BY <2>1, <3>1, <3>2, <1>3, <1>4
  <2> QED BY <2>2
<1>6. Lens(ks) \subseteq Nat /\ l = LineLen(ls) /\ l \in Nat
  BY <1>1, <1>2, LensType, LineLenType
<1>7. m \in Lens(ks) /\ m \in Nat /\ \A x \in Lens(ks) : x <= m
  BY <1>6 DEF IsPeak
<1>8. IsPeak(IF l > m THEN l ELSE m, ls)
  BY <1>5, <1>6, <1>7 DEF IsPeak
<1> QED BY <1>1, <1>6, <1>7, <1>8

LEMMA PeakIs ==
    ASSUME NEW ks \in Seq(Keys), NEW m, IsPeak(m, ks)
    PROVE  PeakOf(ks) = m
<1>2. Lens(ks) \subseteq Nat
  BY LensType
<1>3. PICK L : L = Lens(ks)
  OBVIOUS
<1>4. m \in L /\ L \subseteq Nat /\ \A l \in L : l <= m
  BY <1>2, <1>3 DEF IsPeak
<1>5. PICK z : z = CHOOSE x \in L : \A l \in L : l <= x
  OBVIOUS
<1>6. z \in L /\ \A l \in L : l <= z
  BY <1>4, <1>5, Zenon
<1>7. z = m
  BY <1>4, <1>6
<1> QED BY <1>3, <1>5, <1>7 DEF PeakOf

\* What makes ScreenShowsLine inductive: the index is the length of the line as
\* it was edited, so that it never passes the greatest length.
LineInv ==
    pc = "read" =>
       /\ typed \in Seq(Keys) /\ base \in Nat
       /\ LineLen(typed) = index
       /\ IsPeak(Peak, typed)
       /\ ScreenShowsLine

LEMMA LinePrompt ==
    ASSUME ConsoleInv, ShowPrompt PROVE LineInv'
<1>1. Agree(tty', page')
  BY PromptProps, OutputAgrees DEF ShowPrompt, ConsoleInv
<1>2. base' = tty'.column /\ index' = 0 /\ typed' = << >>
  BY DEF ShowPrompt
<1>3. base' \in Nat
  BY <1>1, <1>2, AgreeFacts
<1>4. typed' \in Seq(Keys)
  BY <1>2
<1>5. IsPeak(0, typed') /\ LineLen(typed') = 0
  BY <1>2, PeakEmpty
<1>6. Peak' = 0
  <2>1. Peak' = PeakOf(typed')
    BY Zenon DEF Peak, PeakOf, Lens, LineLen
  <2> QED BY <2>1, <1>4, <1>5, PeakIs
<1>7. ScreenShowsLine'
  <2>1. 0 .. Peak' - 1 = {} /\ tty'.column = base' + index'
    BY <1>2, <1>3, <1>6
  <2> QED BY <2>1 DEF ScreenShowsLine
<1> QED BY <1>2, <1>3, <1>4, <1>5, <1>6, <1>7 DEF LineInv, IsPeak, Lens, LineLen

\* The key makes the line one character shorter, if it has any.
LEMMA LineBack ==
    ASSUME ConsoleInv, LineInv, ReadBackspace PROVE LineInv'
<1>0. /\ Agree(tty, page) /\ pc = "read" /\ typed \in Seq(Keys) /\ base \in Nat /\ index \in Nat
      /\ LineLen(typed) = index /\ IsPeak(Peak, typed) /\ typed' = Append(typed, "bs")
      /\ base' = base /\ shell_input_buffer' = shell_input_buffer /\ pc' = "read"
  BY DEF ConsoleInv, BufferInv, LineInv, ReadBackspace
<1>1. "bs" \in Keys
  BY DEF Keys
<1>2. typed' \in Seq(Keys)
  BY <1>0, <1>1
<1>3. PICK e : e = Edited(typed, BufferSize)
  OBVIOUS
<1>4. e \in Edit /\ Edited(typed', BufferSize) = EditStep(e, "bs", BufferSize)
  BY <1>0, <1>1, <1>3, EditedAppend
<1>5. EditStep(e, "bs", BufferSize).line = SubSeq(e.line, 1, Len(e.line) - 1)
  <2>1. EditStep(e, "bs", BufferSize) = [done |-> e.done, line |-> SubSeq(e.line, 1, Len(e.line) - 1)]
    BY <1>4, EditCases
  <2> QED BY <2>1
<1>6. e.line \in Seq(Char) /\ Len(e.line) = index
  BY <1>0, <1>3, <1>4 DEF LineLen, Edit
<1>7. Len(SubSeq(e.line, 1, Len(e.line) - 1)) = IF index > 0 THEN index - 1 ELSE 0
  BY <1>0, <1>6
<1>8. index' = IF index > 0 THEN index - 1 ELSE 0
  BY <1>0 DEF ReadBackspace
<1>9. LineLen(typed') = index'
  BY <1>4, <1>5, <1>7, <1>8 DEF LineLen
<1>10. Peak \in Nat /\ index <= Peak
  BY <1>0, LineLenType, LensType DEF IsPeak
<1>11. IsPeak(Peak, typed')
  <2>1. IsPeak(IF index' > Peak THEN index' ELSE Peak, typed')
    <3>1. PICK ks, c, m, l : ks = typed /\ c = "bs" /\ m = Peak /\ l = index'
      OBVIOUS
    <3>2. ks \in Seq(Keys) /\ c \in Keys /\ IsPeak(m, ks) /\ l = LineLen(Append(ks, c))
      BY <3>1, <1>0, <1>1, <1>9
    <3>3. IsPeak(IF l > m THEN l ELSE m, Append(ks, c))
      BY ONLY <3>2, PeakAppend
    <3> QED BY <3>1, <3>3, <1>0
  <2>2. ~(index' > Peak)
    BY <1>0, <1>8, <1>10
  <2> QED BY <2>1, <2>2
<1>12. Peak' = Peak
  <2>1. Peak' = PeakOf(typed')
    BY Zenon DEF Peak, PeakOf, Lens, LineLen
  <2> QED BY <2>1, <1>2, <1>11, PeakIs
<1>13. ASSUME base + Peak <= Width
       PROVE  /\ tty'.column = base + index'
              /\ \A k \in 0 .. Peak - 1 :
                    tty'.cells[tty'.row][base + k] = IF k < index' THEN shell_input_buffer[k] ELSE " "
  <2>1. /\ tty.column = base + index
        /\ \A k \in 0 .. Peak - 1 :
              tty.cells[tty.row][base + k] = IF k < index THEN shell_input_buffer[k] ELSE " "
    BY <1>0, <1>13 DEF LineInv, ScreenShowsLine
  <2>10. tty.column = base + index /\ base \in Nat /\ index \in Nat
    BY <1>0, <2>1
  <2>2. CASE index = 0
    <3>1. tty' = tty /\ index' = index
      BY <1>8, <2>2 DEF ReadBackspace, screenVars
    <3> QED BY <2>1, <3>1
  <2>3. CASE index # 0
    <3>1. index > 0 /\ index' = index - 1
      BY <1>0, <1>8, <2>3
    <3>2. tty' = terminal_write(tty, <<"bs">>)
      BY <3>1 DEF ReadBackspace, Output
    <3>3. tty.column > 0
      BY <2>10, <3>1
    <3>4. /\ tty'.column = tty.column - 1 /\ tty'.row = tty.row
          /\ tty'.cells[tty.row] = [tty.cells[tty.row] EXCEPT ![tty.column - 1] = " "]
      BY <1>0, <3>2, <3>3, BackspaceCell
    <3>5. tty.cells[tty.row] \in [Columns -> Char] /\ Width \in Nat
      BY <1>0, AgreeFacts DEF Row
    <3>6. PICK r, s : r = tty.cells[tty.row] /\ s = tty'.cells[tty'.row]
      OBVIOUS
    <3>7. s = [r EXCEPT ![base + index - 1] = " "] /\ r \in [Columns -> Char]
      <4>1. tty.column - 1 = base + index - 1
        BY <2>10
      <4> QED BY <4>1, <3>4, <3>5, <3>6
    <3>8. ASSUME NEW k \in 0 .. Peak - 1
          PROVE  s[base + k] = IF k < index' THEN shell_input_buffer[k] ELSE " "
      <4>1. k \in Nat /\ base + k \in Columns
        BY <1>0, <1>10, <1>13, <3>5 DEF Columns
      <4>2. r[base + k] = IF k < index THEN shell_input_buffer[k] ELSE " "
        BY <2>1, <3>6
      <4>3. CASE k = index - 1
        <5>1. base + k = base + index - 1 /\ ~(k < index')
          BY <4>3, <4>1, <1>0, <3>1
        <5> QED BY <5>1, <4>1, <3>7
      <4>4. CASE k # index - 1
        <5>1. base + k # base + index - 1 /\ (k < index' <=> k < index)
          BY <4>4, <4>1, <1>0, <3>1
        <5> QED BY <5>1, <4>1, <4>2, <3>7
      <4> QED BY <4>3, <4>4
    <3>9. tty'.column = base + index'
      <4>1. (base + index) - 1 = base + (index - 1)
        BY <2>10
      <4> QED BY <4>1, <2>10, <3>1, <3>4
    <3> QED BY <3>6, <3>8, <3>9
  <2> QED BY <2>2, <2>3
<1>14. ScreenShowsLine'
  BY <1>0, <1>12, <1>13 DEF ScreenShowsLine
<1>15. IsPeak(Peak', typed')
  BY <1>11, <1>12
<1> QED BY <1>0, <1>2, <1>9, <1>14, <1>15 DEF LineInv, IsPeak, Lens, LineLen

\* The key makes the line one character longer.
LEMMA LineKey ==
    ASSUME ConsoleInv, LineInv, NEW c \in Printable, ReadChar(c) PROVE LineInv'
<1> SUFFICES ASSUME pc' = "read" PROVE LineInv'
  BY DEF LineInv
<1>0. /\ Agree(tty, page) /\ pc = "read" /\ typed \in Seq(Keys) /\ base \in Nat /\ index \in Nat
      /\ LineLen(typed) = index /\ IsPeak(Peak, typed) /\ typed' = Append(typed, c)
      /\ base' = base /\ index' = index + 1 /\ tty' = terminal_write(tty, <<c>>)
      /\ shell_input_buffer \in Buffer /\ index < BufferSize - 1 /\ BufferSize \in Nat
  BY BufferAssumption DEF ConsoleInv, BufferInv, LineInv, ReadChar, Output
<1>1. shell_input_buffer' = [shell_input_buffer EXCEPT ![index] = c]
  BY DEF ReadChar
<1>2. c \in Keys /\ typed' \in Seq(Keys)
  BY <1>0 DEF Keys
<1>3. PICK e : e = Edited(typed, BufferSize)
  OBVIOUS
<1>4. e \in Edit /\ Edited(typed', BufferSize) = EditStep(e, c, BufferSize)
  BY <1>0, <1>2, <1>3, EditedAppend
<1>5. e.line \in Seq(Char) /\ Len(e.line) = index /\ c \in Char
  BY <1>0, <1>2, <1>3, <1>4, KeysProps DEF LineLen, Edit
<1>6. EditStep(e, c, BufferSize).line = Append(e.line, c)
  <2>1. EditStep(e, c, BufferSize) =
          [done |-> e.done, line |-> IF Len(e.line) < BufferSize THEN Append(e.line, c) ELSE e.line]
    BY <1>4, EditCases
  <2>2. Len(e.line) < BufferSize
    BY <1>0, <1>5
  <2> QED BY <2>1, <2>2
<1>7. LineLen(typed') = index'
  <2>1. Len(Append(e.line, c)) = index + 1
    BY <1>5
  <2> QED BY <2>1, <1>0, <1>4, <1>6 DEF LineLen
<1>8. Peak \in Nat /\ index <= Peak
  BY <1>0, LineLenType, LensType DEF IsPeak
<1>9. IsPeak(IF index + 1 > Peak THEN index + 1 ELSE Peak, typed')
  <2>1. PICK ks, m, l : ks = typed /\ m = Peak /\ l = index + 1
    OBVIOUS
  <2>2. ks \in Seq(Keys) /\ c \in Keys /\ IsPeak(m, ks) /\ l = LineLen(Append(ks, c))
    BY <2>1, <1>0, <1>2, <1>7
  <2>3. IsPeak(IF l > m THEN l ELSE m, Append(ks, c))
    BY ONLY <2>2, PeakAppend
  <2> QED BY <2>1, <2>3, <1>0
<1>10. Peak' = IF index + 1 > Peak THEN index + 1 ELSE Peak
  <2>1. Peak' = PeakOf(typed')
    BY Zenon DEF Peak, PeakOf, Lens, LineLen
  <2> QED BY <2>1, <1>2, <1>9, PeakIs
<1>11. Peak' \in Nat /\ Peak <= Peak' /\ index + 1 <= Peak' /\ (Peak' # Peak => Peak' = index + 1)
  BY <1>0, <1>8, <1>10
<1>12. ASSUME base + Peak' <= Width
       PROVE  /\ tty'.column = base + index'
              /\ \A k \in 0 .. Peak' - 1 :
                    tty'.cells[tty'.row][base + k] = IF k < index' THEN shell_input_buffer'[k] ELSE " "
  <2>0. Width \in Nat
    BY ScreenAssumption
  <2>1. base + Peak <= Width /\ base + index < Width
    <3>1. PICK m, n, b, i : m = Peak /\ n = Peak' /\ b = base /\ i = index
      OBVIOUS
    <3>2. m \in Nat /\ n \in Nat /\ b \in Nat /\ i \in Nat /\ m <= n /\ i + 1 <= n /\ b + n <= Width
      BY <3>1, <1>0, <1>8, <1>11, <1>12
    <3>3. b + m <= Width /\ b + i < Width
      BY ONLY <3>2, <2>0
    <3> QED BY <3>1, <3>3
  <2>2. /\ tty.column = base + index
        /\ \A k \in 0 .. Peak - 1 :
              tty.cells[tty.row][base + k] = IF k < index THEN shell_input_buffer[k] ELSE " "
    BY <1>0, <2>1 DEF LineInv, ScreenShowsLine
  <2>3. /\ tty'.column = tty.column + 1 /\ tty'.row = tty.row
        /\ tty'.cells[tty.row] = [tty.cells[tty.row] EXCEPT ![tty.column] = c]
    BY <1>0, <2>1, <2>2, CharCell
  <2>4. tty.cells[tty.row] \in [Columns -> Char]
    BY <1>0, AgreeFacts DEF Row
  <2>5. PICK r, s, b, d : /\ r = tty.cells[tty.row] /\ s = tty'.cells[tty'.row]
                          /\ b = shell_input_buffer /\ d = shell_input_buffer'
    OBVIOUS
  <2>6. /\ s = [r EXCEPT ![base + index] = c] /\ r \in [Columns -> Char]
        /\ d = [b EXCEPT ![index] = c] /\ b \in [0 .. BufferSize - 1 -> Char]
    BY <1>0, <1>1, <2>2, <2>3, <2>4, <2>5 DEF Buffer
  <2>7. ASSUME NEW k \in 0 .. Peak' - 1
        PROVE  s[base + k] = IF k < index + 1 THEN d[k] ELSE " "
    <3>1. k \in Nat /\ base + k \in Columns
      <4>1. PICK n, o : n = Peak' /\ o = base
        OBVIOUS
      <4>2. n \in Nat /\ o \in Nat /\ k \in 0 .. n - 1 /\ o + n <= Width
        BY <4>1, <1>0, <1>11, <1>12
      <4>3. k \in Nat /\ o + k \in 0 .. Width - 1
        BY ONLY <4>2, <2>0
      <4> QED BY <4>1, <4>3 DEF Columns
    <3>2. CASE k = index
      <4>1. k < index + 1 /\ base + k = base + index /\ index \in 0 .. BufferSize - 1
        BY <3>2, <1>0
      <4>2. d[index] = c
        BY <4>1, <2>6
      <4> QED BY <4>1, <4>2, <3>1, <3>2, <2>6
    <3>3. CASE k # index
      <4>1. base + k # base + index /\ (k < index + 1 <=> k < index) /\ k \in 0 .. Peak - 1
        <5>1. PICK m, n, o, i : m = Peak /\ n = Peak' /\ o = base /\ i = index
          OBVIOUS
        <5>2. /\ m \in Nat /\ n \in Nat /\ o \in Nat /\ i \in Nat /\ i <= m /\ k \in 0 .. n - 1
              /\ (n # m => n = i + 1) /\ k # i
          BY <5>1, <3>3, <1>0, <1>8, <1>11
        <5>3. o + k # o + i /\ (k < i + 1 <=> k < i) /\ k \in 0 .. m - 1
          BY ONLY <5>2
        <5> QED BY <5>1, <5>3
      <4>2. r[base + k] = IF k < index THEN b[k] ELSE " "
        BY <4>1, <2>2, <2>5
      <4>3. s[base + k] = r[base + k]
        BY <4>1, <3>1, <2>6
      <4>4. k < index => d[k] = b[k]
        <5>1. k < index => k \in 0 .. BufferSize - 1
          BY <3>1, <1>0
        <5> QED BY <5>1, <3>3, <2>6
      <4> QED BY <4>1, <4>2, <4>3, <4>4
    <3> QED BY <3>2, <3>3
  <2>8. tty'.column = base + index'
    <3>1. base + index + 1 = base + (index + 1)
      BY <1>0
    <3> QED BY <3>1, <1>0, <2>2, <2>3
  <2> QED BY <1>0, <2>5, <2>7, <2>8
<1>13. ScreenShowsLine'
  BY <1>0, <1>12 DEF ScreenShowsLine
<1>14. IsPeak(Peak', typed')
  BY <1>9, <1>10
<1> QED BY <1>0, <1>2, <1>7, <1>13, <1>14 DEF LineInv, IsPeak, Lens, LineLen

THEOREM LineInvariance == Spec => []LineInv
<1>1. Init => LineInv
  BY DEF Init, LineInv
<1>2. ConsoleInv /\ LineInv /\ [Next]_vars => LineInv'
  <2> SUFFICES ASSUME ConsoleInv, LineInv, [Next]_vars PROVE LineInv'
    OBVIOUS
  <2>1. CASE UNCHANGED vars
    BY <2>1 DEF vars, screenVars, shellVars, LineInv, ScreenShowsLine, Peak, IsPeak, Lens, LineLen
  <2>2. CASE ReadEnter \/ RunNothing \/ RunText \/ RunClear \/ RunEcho \/ RunExit \/ RunReboot
             \/ RunExec \/ RunProgram \/ ProgramSteps
    <3>1. pc' # "read"
      BY <2>2 DEF ReadEnter, RunNothing, RunText, RunClear, RunEcho, RunExit, RunReboot,
                  RunExec, RunProgram, ExecStarts, Done, ProgramSteps, ChildWrite, ChildRead,
                  LineEnter, LineBackspace, LineChar, ChildExit
    <3> QED BY <3>1 DEF LineInv
  <2>3. CASE Next
    BY <2>2, <2>3, LinePrompt, LineBack, LineKey DEF Next, ProgramSteps
  <2> QED BY <2>1, <2>3
<1> QED BY <1>1, <1>2, ConsoleInvariance, PTL DEF Spec

\* For screens, buffers and lines of any length: while the line stays on its
\* row, the screen shows what the shell will run and nothing of what was deleted.
THEOREM LineHolds == Spec => []ScreenShowsLine
<1>1. LineInv => ScreenShowsLine
  BY DEF LineInv, ScreenShowsLine
<1> QED BY <1>1, LineInvariance, PTL

-----------------------------------------------------------------------------
(* The stack of a new program.                                                *)

\* Characters of a string, and strings.
Letter == Char \ {"nul"}
Text == Seq(Letter)

\* The sizes of the first strings, with their NULs.
Sizes(f, strs) ==
    /\ f \in [0 .. Len(strs) -> Nat] /\ f[0] = 0
    /\ \A k \in 1 .. Len(strs) : f[k] = f[k - 1] + Len(strs[k]) + 1

LEMMA SizesExist ==
    ASSUME NEW strs \in Seq(Text)
    PROVE  \E f : Sizes(f, strs) /\ TotalSize(strs, Len(strs)) = f[Len(strs)]
<1> DEFINE n == Len(strs)
           G(f) == [k \in 0 .. n |-> IF k = 0 THEN 0 ELSE f[k - 1] + Len(strs[k]) + 1]
           step == [e \in Nat |-> [k \in 1 .. n |-> e + Len(strs[k]) + 1]]
           walk == CHOOSE f : f = G(f)
<1>1. n \in Nat /\ \A k \in 1 .. n : strs[k] \in Text
  OBVIOUS
<1>10. \A k \in 1 .. n : Len(strs[k]) \in Nat
  BY <1>1 DEF Text
<1>3. TotalSize(strs, n) = walk[n]
  BY Zenon DEF TotalSize
<1> HIDE DEF n
<1>4. step \in [Nat -> [1 .. n -> Nat]]
  BY <1>1, <1>10
<1>5. PICK f : /\ f \in [0 .. n -> Nat] /\ f[0] = 0
               /\ \A k \in 1 .. n : f[k] = step[f[k - 1]][k]
  <2> HIDE DEF step
  <2>1. PICK m, st : m = n /\ st = step
    OBVIOUS
  <2>2. m \in Nat /\ 0 \in Nat /\ st \in [Nat -> [1 .. m -> Nat]]
    BY <2>1, <1>1, <1>4
  <2>3. PICK f : IsWalk(f, m, Nat, 0, st)
    BY ONLY <2>2, WalkExists
  <2>4. f \in [0 .. m -> Nat] /\ f[0] = 0 /\ \A k \in 1 .. m : f[k] = st[f[k - 1]][k]
    BY <2>3, Zenon DEF IsWalk
  <2> QED BY <2>1, <2>4
<1>6. ASSUME NEW k \in 1 .. n PROVE f[k] = f[k - 1] + Len(strs[k]) + 1
  <2>1. k - 1 \in 0 .. n
    BY <1>1
  <2>2. f[k - 1] \in Nat
    BY <2>1, <1>5
  <2> QED BY <2>2, <1>5
<1>7. f = G(f)
  <2>1. ASSUME NEW k \in 0 .. n PROVE f[k] = G(f)[k]
    <3>1. CASE k = 0
      BY <3>1, <1>5
    <3>2. CASE k # 0
      <4>1. k \in 1 .. n
        BY <3>2, <1>1
      <4> QED BY <4>1, <3>2, <1>6
    <3> QED BY <3>1, <3>2
  <2>2. f = [k \in 0 .. n |-> f[k]] /\ G(f) = [k \in 0 .. n |-> G(f)[k]]
    BY <1>5
  <2> HIDE DEF G
  <2> QED BY <2>1, <2>2, Zenon
<1>8. walk = G(walk)
  BY <1>7, Zenon DEF walk
<1> HIDE DEF walk
<1> DEFINE R == {k \in 0 .. n : walk[k] \in Nat}
<1>9. walk[0] = 0 /\ \A k \in 1 .. n : walk[k] = walk[k - 1] + Len(strs[k]) + 1
  <2>1. 0 \in 0 .. n /\ \A k \in 1 .. n : k \in 0 .. n /\ k # 0
    BY <1>1
  <2> QED BY <2>1, <1>8
<1>11. 0 \in R
  BY <1>1, <1>9
<1>12. ASSUME NEW k \in 1 .. n, k - 1 \in R PROVE k \in R
  BY <1>1, <1>9, <1>10, <1>12
<1>13. \A k \in 0 .. n : k \in R
  <2> HIDE DEF R
  <2> QED BY <1>1, <1>11, <1>12, WalkKeeps
<1>14. walk = [k \in 0 .. n |-> walk[k]]
  <2>1. PICK w : w = walk
    OBVIOUS
  <2>2. w = G(w)
    BY <2>1, <1>8
  <2>3. w = [k \in 0 .. n |-> w[k]]
    BY <2>2
  <2> QED BY <2>1, <2>3
<1>15. walk \in [0 .. n -> Nat]
  BY <1>13, <1>14
<1>16. Sizes(walk, strs)
  BY <1>9, <1>15 DEF Sizes, n
<1> QED BY <1>3, <1>16 DEF n

\* The sizes grow.
LEMMA SizesGrow ==
    ASSUME NEW strs \in Seq(Text), NEW f, Sizes(f, strs)
    PROVE  \A k \in 0 .. Len(strs) : \A j \in 0 .. k : f[j] <= f[k]
<1> DEFINE n == Len(strs)
           R == {k \in 0 .. n : \A j \in 0 .. k : f[j] <= f[k]}
<1>1. /\ n \in Nat /\ f \in [0 .. n -> Nat] /\ \A k \in 1 .. n : Len(strs[k]) \in Nat
      /\ \A k \in 1 .. n : f[k] = f[k - 1] + Len(strs[k]) + 1
  BY DEF Sizes, Text
<1> HIDE DEF n
<1>2. 0 \in R
  BY <1>1
<1>3. ASSUME NEW k \in 1 .. n, k - 1 \in R PROVE k \in R
  <2>1. k - 1 \in 0 .. n /\ k \in 0 .. n
    BY <1>1
  <2>2. f[k - 1] \in Nat /\ f[k] \in Nat /\ f[k - 1] <= f[k]
    <3>1. f[k - 1] \in Nat /\ f[k] \in Nat /\ Len(strs[k]) \in Nat
      BY <1>1, <2>1
    <3>2. f[k] = f[k - 1] + Len(strs[k]) + 1
      BY <1>1
    <3> QED BY <3>1, <3>2
  <2>3. ASSUME NEW j \in 0 .. k PROVE f[j] <= f[k]
    <3>1. CASE j = k
      BY <2>2, <3>1
    <3>2. CASE j # k
      <4>1. j \in 0 .. k - 1 /\ j \in 0 .. n
        BY <3>2, <1>1
      <4>2. f[j] \in Nat /\ f[j] <= f[k - 1]
        BY <4>1, <1>1, <1>3
      <4> QED BY <4>2, <2>2
    <3> QED BY <3>1, <3>2
  <2> QED BY <2>1, <2>3
<1>4. \A k \in 0 .. n : k \in R
  <2> HIDE DEF R
  <2> QED BY <1>1, <1>2, <1>3, WalkKeeps
<1> QED BY <1>4 DEF n

\* The strings of argv and envp one after the other.
LEMMA SizesJoin ==
    ASSUME NEW argv \in Seq(Text), NEW envp \in Seq(Text), NEW f, NEW g,
           Sizes(f, argv), Sizes(g, envp)
    PROVE  \E h : /\ Sizes(h, argv \o envp)
                  /\ h[Len(argv \o envp)] = f[Len(argv)] + g[Len(envp)]
<1> DEFINE la == Len(argv)
           le == Len(envp)
           all == argv \o envp
           h == [k \in 0 .. la + le |-> IF k <= la THEN f[k] ELSE f[la] + g[k - la]]
<1>1. /\ la \in Nat /\ le \in Nat /\ all \in Seq(Text) /\ Len(all) = la + le
      /\ \A k \in 1 .. la : all[k] = argv[k]
      /\ \A k \in la + 1 .. la + le : all[k] = envp[k - la]
  OBVIOUS
<1>2. /\ f \in [0 .. la -> Nat] /\ f[0] = 0 /\ g \in [0 .. le -> Nat] /\ g[0] = 0
      /\ \A k \in 1 .. la : f[k] = f[k - 1] + Len(argv[k]) + 1
      /\ \A k \in 1 .. le : g[k] = g[k - 1] + Len(envp[k]) + 1
  BY DEF Sizes
<1> HIDE DEF la, le, all
<1>3. h \in [0 .. la + le -> Nat]
  <2> SUFFICES ASSUME NEW k \in 0 .. la + le PROVE (IF k <= la THEN f[k] ELSE f[la] + g[k - la]) \in Nat
    OBVIOUS
  <2>1. CASE k <= la
    BY <1>1, <1>2, <2>1
  <2>2. CASE ~(k <= la)
    <3>1. k - la \in 0 .. le /\ la \in 0 .. la
      BY <1>1, <2>2
    <3> QED BY <3>1, <1>2, <2>2
  <2> QED BY <2>1, <2>2
<1>4. h[0] = 0
  BY <1>1, <1>2
<1>5. ASSUME NEW k \in 1 .. la + le PROVE h[k] = h[k - 1] + Len(all[k]) + 1
  <2>1. k \in 0 .. la + le /\ k - 1 \in 0 .. la + le
    BY <1>1
  <2>2. CASE k <= la
    <3>1. k - 1 <= la /\ k \in 1 .. la
      BY <1>1, <2>2
    <3> QED BY <2>1, <2>2, <3>1, <1>1, <1>2
  <2>3. CASE k = la + 1
    <3>1. ~(k <= la) /\ k - 1 = la /\ k - la = 1 /\ 1 \in 1 .. le /\ la <= la /\ 0 \in 0 .. le /\ 1 - 1 = 0
      BY <1>1, <2>3
    <3>2. h[k] = f[la] + g[1] /\ h[k - 1] = f[la]
      BY <2>1, <3>1
    <3>3. g[1] = Len(envp[1]) + 1 /\ all[k] = envp[1]
      <4>1. g[1] = 0 + Len(envp[1]) + 1
        BY <1>2, <3>1
      <4>2. k \in la + 1 .. la + le
        BY <1>1, <2>3
      <4>3. envp[1] \in Text
        BY <3>1 DEF le
      <4>4. Len(envp[1]) \in Nat
        BY <4>3 DEF Text
      <4>5. all[k] = envp[k - la]
        BY <4>2, <1>1
      <4> QED BY <4>1, <4>4, <4>5, <3>1
    <3>4. f[la] \in Nat /\ Len(envp[1]) \in Nat
      <4>1. envp[1] \in Text
        BY <3>1 DEF le
      <4> QED BY <4>1, <1>1, <1>2 DEF Text
    <3> QED BY <3>2, <3>3, <3>4
  <2>4. CASE k > la + 1
    <3>1. ~(k <= la) /\ ~(k - 1 <= la) /\ k - la \in 1 .. le /\ (k - la) - 1 = k - 1 - la
          /\ k \in la + 1 .. la + le /\ (k - la) - 1 \in 0 .. le /\ la \in 0 .. la
      BY <1>1, <2>4
    <3>2. h[k] = f[la] + g[k - la] /\ h[k - 1] = f[la] + g[k - 1 - la] /\ all[k] = envp[k - la]
      BY <2>1, <3>1, <1>1
    <3>3. g[k - la] = g[k - 1 - la] + Len(envp[k - la]) + 1
      BY <3>1, <1>2
    <3>4. envp[k - la] \in Text
      BY <3>1 DEF le
    <3>5. f[la] \in Nat /\ g[k - 1 - la] \in Nat /\ Len(envp[k - la]) \in Nat
      BY <3>1, <3>4, <1>2 DEF Text
    <3> QED BY <3>2, <3>3, <3>5
  <2> QED BY <2>2, <2>3, <2>4, <1>1
<1>6. h[la + le] = f[la] + g[le]
  <2>1. CASE le = 0
    <3>1. la + le = la /\ la \in 0 .. la
      BY <2>1, <1>1
    <3>2. f[la] \in Nat
      BY <3>1, <1>2
    <3> QED BY <2>1, <3>1, <3>2, <1>1, <1>2
  <2>2. CASE le # 0
    <3>1. ~(la + le <= la) /\ (la + le) - la = le /\ la + le \in 0 .. la + le
      BY <2>2, <1>1
    <3> QED BY <3>1
  <2> QED BY <2>1, <2>2
<1> HIDE DEF h
<1>7. Sizes(h, all)
  BY <1>1, <1>3, <1>4, <1>5 DEF Sizes
<1> QED BY <1>1, <1>6, <1>7 DEF la, le, all

Making == [cursor : Int, copied : Seq(Int), bytes : [0 .. StackSize - 1 -> Char]]
NoStrings == [cursor |-> StackSize, copied |-> << >>, bytes |-> [a \in 0 .. StackSize - 1 |-> "old"]]

\* What is below the strings, and where.
StackOf(m, argv, envp) ==
    LET words == <<Len(argv)>> \o SubSeq(m.copied, 1, Len(argv)) \o <<Null>>
                   \o SubSeq(m.copied, Len(argv) + 1, Len(argv \o envp)) \o <<Null>>
        aligned == m.cursor - (m.cursor % PtrSize)
    IN  [sp |-> aligned - Len(words) * PtrSize, words |-> words, bytes |-> m.bytes]

\* One string.
LEMMA CopyIs ==
    ASSUME NEW m \in Making, NEW s \in Text
    PROVE  LET at == m.cursor - (Len(s) + 1)
               new == CopyString(m, s)
           IN  /\ new \in Making /\ at \in Int /\ Len(s) \in Nat
               /\ new.cursor = at /\ new.copied = Append(m.copied, at)
               /\ \A a \in 0 .. StackSize - 1 :
                     new.bytes[a] = IF a = at + Len(s) THEN "nul"
                                    ELSE IF a \in at .. at + Len(s) - 1 THEN s[a - at + 1]
                                    ELSE m.bytes[a]
<1>1. PICK at, l : l = Len(s) /\ at = m.cursor - (l + 1)
  OBVIOUS
<1>2. /\ m.cursor \in Int /\ m.copied \in Seq(Int) /\ m.bytes \in [0 .. StackSize - 1 -> Char]
      /\ l \in Nat /\ \A i \in 1 .. l : s[i] \in Char
  BY <1>1 DEF Making, Text, Letter
<1>3. at \in Int /\ Append(m.copied, at) \in Seq(Int)
  BY <1>1, <1>2
<1>4. PICK b : b = [a \in 0 .. StackSize - 1 |->
                      IF a = at + l THEN "nul"
                      ELSE IF a \in at .. at + l - 1 THEN s[a - at + 1] ELSE m.bytes[a]]
  OBVIOUS
<1>5. b \in [0 .. StackSize - 1 -> Char]
  <2>1. "nul" \in Char
    BY Letters
  <2>2. ASSUME NEW a \in 0 .. StackSize - 1
        PROVE  (IF a = at + l THEN "nul"
                ELSE IF a \in at .. at + l - 1 THEN s[a - at + 1] ELSE m.bytes[a]) \in Char
    <3>1. CASE a = at + l
      BY <3>1, <2>1
    <3>2. CASE a # at + l /\ a \in at .. at + l - 1
      <4>1. a - at + 1 \in 1 .. l
        BY <3>2, <1>2, <1>3
      <4> QED BY <4>1, <3>2, <1>2
    <3>3. CASE a # at + l /\ a \notin at .. at + l - 1
      BY <3>3, <1>2
    <3> QED BY <3>1, <3>2, <3>3
  <2> QED BY <2>2, <1>4
<1>6. CopyString(m, s) = [cursor |-> at, copied |-> Append(m.copied, at), bytes |-> b]
  <2>1. DOMAIN m.bytes = 0 .. StackSize - 1
    BY <1>2
  <2> QED BY <2>1, <1>1, <1>4, Zenon DEF CopyString
<1>7. CopyString(m, s) \in Making
  BY <1>3, <1>5, <1>6 DEF Making
<1>8. PICK new : new = CopyString(m, s)
  OBVIOUS
<1>9. new.cursor = at /\ new.copied = Append(m.copied, at) /\ new.bytes = b
  BY <1>6, <1>8
<1>10. \A a \in 0 .. StackSize - 1 :
          new.bytes[a] = IF a = at + l THEN "nul"
                         ELSE IF a \in at .. at + l - 1 THEN s[a - at + 1] ELSE m.bytes[a]
  BY <1>4, <1>9
<1> QED BY <1>1, <1>2, <1>3, <1>7, <1>8, <1>9, <1>10

\* elf_build_user_stack goes along the strings.
CopyWalk(f, all) ==
    /\ f \in [0 .. Len(all) -> Making] /\ f[0] = NoStrings
    /\ \A k \in 1 .. Len(all) : f[k] = CopyString(f[k - 1], all[k])

LEMMA CopyWalks ==
    ASSUME NEW argv \in Seq(Text), NEW envp \in Seq(Text)
    PROVE  \E f : /\ CopyWalk(f, argv \o envp)
                  /\ BuildUserStack(argv, envp) = StackOf(f[Len(argv \o envp)], argv, envp)
<1> DEFINE all == argv \o envp
           n == Len(all)
           G(f) == [k \in 0 .. n |-> IF k = 0 THEN NoStrings ELSE CopyString(f[k - 1], all[k])]
           step == [e \in Making |-> [k \in 1 .. n |-> CopyString(e, all[k])]]
           walk == CHOOSE f : f = G(f)
<1>1. n \in Nat /\ \A k \in 1 .. n : all[k] \in Text
  <2>1. all \in Seq(Text)
    OBVIOUS
  <2> HIDE DEF all
  <2> QED BY <2>1
<1>2. NoStrings \in Making
  <2>1. "old" \in Char
    BY Letters
  <2>2. StackSize \in Int
    BY StackAssumption
  <2> QED BY <2>1, <2>2 DEF NoStrings, Making
<1>3. BuildUserStack(argv, envp) = StackOf(walk[n], argv, envp)
  BY Zenon DEF BuildUserStack, StackOf, NoStrings
<1> HIDE DEF n, all
<1>4. step \in [Making -> [1 .. n -> Making]]
  BY <1>1, CopyIs
<1>5. PICK f : /\ f \in [0 .. n -> Making] /\ f[0] = NoStrings
               /\ \A k \in 1 .. n : f[k] = step[f[k - 1]][k]
  <2> HIDE DEF step
  <2>1. PICK m, st, e : m = n /\ st = step /\ e = NoStrings
    OBVIOUS
  <2>2. m \in Nat /\ e \in Making /\ st \in [Making -> [1 .. m -> Making]]
    BY <2>1, <1>1, <1>2, <1>4
  <2>3. PICK f : IsWalk(f, m, Making, e, st)
    BY ONLY <2>2, WalkExists
  <2>4. f \in [0 .. m -> Making] /\ f[0] = e /\ \A k \in 1 .. m : f[k] = st[f[k - 1]][k]
    BY <2>3, Zenon DEF IsWalk
  <2>5. f \in [0 .. n -> Making] /\ f[0] = NoStrings /\ \A k \in 1 .. n : f[k] = step[f[k - 1]][k]
    BY <2>1, <2>4
  <2> QED BY <2>5, Zenon
<1>6. ASSUME NEW k \in 1 .. n PROVE f[k] = CopyString(f[k - 1], all[k])
  <2>1. k - 1 \in 0 .. n
    BY <1>1
  <2>2. f[k - 1] \in Making
    BY <2>1, <1>5
  <2> QED BY <2>2, <1>5
<1>7. f = G(f)
  <2>1. ASSUME NEW k \in 0 .. n PROVE f[k] = G(f)[k]
    <3>1. CASE k = 0
      BY <3>1, <1>5
    <3>2. CASE k # 0
      <4>1. k \in 1 .. n
        BY <3>2, <1>1
      <4> QED BY <4>1, <3>2, <1>6
    <3> QED BY <3>1, <3>2
  <2>2. f = [k \in 0 .. n |-> f[k]] /\ G(f) = [k \in 0 .. n |-> G(f)[k]]
    BY <1>5
  <2> HIDE DEF G
  <2> QED BY <2>1, <2>2, Zenon
<1>8. walk = G(walk)
  BY <1>7, Zenon DEF walk
<1> HIDE DEF walk
<1> DEFINE R == {k \in 0 .. n : walk[k] \in Making}
<1>9. walk[0] = NoStrings /\ \A k \in 1 .. n : walk[k] = CopyString(walk[k - 1], all[k])
  <2>1. 0 \in 0 .. n /\ \A k \in 1 .. n : k \in 0 .. n /\ k # 0
    BY <1>1
  <2> QED BY <2>1, <1>8
<1>11. 0 \in R
  BY <1>1, <1>2, <1>9
<1>12. ASSUME NEW k \in 1 .. n, k - 1 \in R PROVE k \in R
  <2>1. walk[k - 1] \in Making /\ all[k] \in Text /\ k \in 0 .. n
    BY <1>1, <1>12
  <2>2. CopyString(walk[k - 1], all[k]) \in Making
    BY <2>1, CopyIs
  <2> QED BY <2>1, <2>2, <1>9
<1>13. \A k \in 0 .. n : k \in R
  <2> HIDE DEF R
  <2> QED BY <1>1, <1>11, <1>12, WalkKeeps
<1>14. walk = [k \in 0 .. n |-> walk[k]]
  <2>1. PICK w : w = walk
    OBVIOUS
  <2>2. w = G(w)
    BY <2>1, <1>8
  <2>3. w = [k \in 0 .. n |-> w[k]]
    BY <2>2
  <2> QED BY <2>1, <2>3
<1>15. walk \in [0 .. n -> Making]
  BY <1>13, <1>14
<1>16. CopyWalk(walk, all)
  BY <1>9, <1>15 DEF CopyWalk, n
<1> QED BY <1>3, <1>16 DEF n, all

\* The first k strings are there, one below the other, and below them nothing.
Laid(m, k, all, h) ==
    /\ m.cursor = StackSize - h[k]
    /\ Len(m.copied) = k
    /\ \A j \in 1 .. k :
          /\ m.copied[j] = StackSize - h[j]
          /\ m.bytes[StackSize - h[j] + Len(all[j])] = "nul"
          /\ \A i \in 1 .. Len(all[j]) : m.bytes[StackSize - h[j] + i - 1] = all[j][i]
    /\ \A a \in 0 .. StackSize - h[k] - 1 : m.bytes[a] = "old"

LEMMA LaidStep ==
    ASSUME NEW all \in Seq(Text), NEW h, Sizes(h, all), NEW k \in 1 .. Len(all), h[k] <= StackSize,
           NEW m \in Making, Laid(m, k - 1, all, h)
    PROVE  Laid(CopyString(m, all[k]), k, all, h)
<1>1. PICK n : n = Len(all)
  OBVIOUS
<1>2. /\ n \in Nat /\ k \in 1 .. n /\ h \in [0 .. n -> Nat]
      /\ \A j \in 1 .. n : h[j] = h[j - 1] + Len(all[j]) + 1 /\ all[j] \in Text /\ Len(all[j]) \in Nat
  BY <1>1 DEF Sizes, Text
<1>3. \A j \in 0 .. n : \A i \in 0 .. j : h[i] <= h[j]
  BY <1>1, SizesGrow
<1>4. PICK s, l, p, q : s = all[k] /\ l = Len(s) /\ p = h[k - 1] /\ q = h[k]
  OBVIOUS
<1>5. s \in Text /\ l \in Nat /\ p \in Nat /\ q \in Nat /\ q = p + l + 1 /\ q <= StackSize /\ StackSize \in Nat
  <2>1. k - 1 \in 0 .. n /\ k \in 0 .. n
    BY <1>2
  <2>2. p \in Nat /\ q \in Nat
    BY <2>1, <1>2, <1>4
  <2> QED BY <2>2, <1>2, <1>4, StackAssumption
<1>6. PICK at : at = StackSize - q
  OBVIOUS
<1>7. at \in Nat /\ at + l + 1 = StackSize - p /\ (StackSize - p) - (l + 1) = at
  BY <1>5, <1>6
<1>8. PICK new : new = CopyString(m, s)
  OBVIOUS
<1>9. /\ m.cursor = StackSize - p /\ m.copied \in Seq(Int) /\ Len(m.copied) = k - 1
      /\ \A j \in 1 .. k - 1 :
          /\ m.copied[j] = StackSize - h[j]
          /\ m.bytes[StackSize - h[j] + Len(all[j])] = "nul"
          /\ \A i \in 1 .. Len(all[j]) : m.bytes[StackSize - h[j] + i - 1] = all[j][i]
      /\ \A a \in 0 .. StackSize - p - 1 : m.bytes[a] = "old"
  BY <1>4 DEF Laid, Making
<1>10. /\ new \in Making /\ new.cursor = at /\ new.copied = Append(m.copied, at)
       /\ \A a \in 0 .. StackSize - 1 :
             new.bytes[a] = IF a = at + l THEN "nul"
                            ELSE IF a \in at .. at + l - 1 THEN s[a - at + 1] ELSE m.bytes[a]
  <2>1. m.cursor - (Len(s) + 1) = at
    BY <1>4, <1>5, <1>7, <1>9
  <2>2. LET z == m.cursor - (Len(s) + 1) IN
        /\ new \in Making /\ new.cursor = z /\ new.copied = Append(m.copied, z)
        /\ \A a \in 0 .. StackSize - 1 :
              new.bytes[a] = IF a = z + Len(s) THEN "nul"
                             ELSE IF a \in z .. z + Len(s) - 1 THEN s[a - z + 1] ELSE m.bytes[a]
    BY <1>5, <1>8, CopyIs
  <2> QED BY <2>1, <2>2, <1>4
<1>11. Len(new.copied) = k /\ new.copied[k] = at /\ \A j \in 1 .. k - 1 : new.copied[j] = m.copied[j]
  BY <1>2, <1>7, <1>9, <1>10
<1>12. \A a \in at + l + 1 .. StackSize - 1 : new.bytes[a] = m.bytes[a]
  <2> SUFFICES ASSUME NEW a \in at + l + 1 .. StackSize - 1 PROVE new.bytes[a] = m.bytes[a]
    OBVIOUS
  <2>1. a \in 0 .. StackSize - 1 /\ a # at + l /\ a \notin at .. at + l - 1
    BY <1>5, <1>7
  <2> QED BY <2>1, <1>10
<1>13. ASSUME NEW j \in 1 .. k
       PROVE  /\ new.copied[j] = StackSize - h[j]
              /\ new.bytes[StackSize - h[j] + Len(all[j])] = "nul"
              /\ \A i \in 1 .. Len(all[j]) : new.bytes[StackSize - h[j] + i - 1] = all[j][i]
  <2>1. CASE j = k
    <3>1. StackSize - h[j] = at /\ Len(all[j]) = l /\ all[j] = s
      BY <2>1, <1>4, <1>6
    <3>2. new.bytes[at + l] = "nul"
      <4>1. at + l \in 0 .. StackSize - 1
        BY <1>5, <1>7
      <4> QED BY <4>1, <1>10
    <3>3. ASSUME NEW i \in 1 .. l PROVE new.bytes[at + i - 1] = s[i]
      <4>1. /\ at + i - 1 \in 0 .. StackSize - 1 /\ at + i - 1 # at + l
            /\ at + i - 1 \in at .. at + l - 1 /\ (at + i - 1) - at + 1 = i
        BY <1>5, <1>7
      <4> QED BY <4>1, <1>10
    <3> QED BY <3>1, <3>2, <3>3, <2>1, <1>11
  <2>2. CASE j # k
    <3>1. j \in 1 .. k - 1 /\ j \in 1 .. n /\ j \in 0 .. k - 1 /\ k - 1 \in 0 .. n /\ j - 1 \in 0 .. n /\ j \in 0 .. n
      BY <2>2, <1>2
    <3>2. PICK t, u, b : t = all[j] /\ u = Len(t) /\ b = StackSize - h[j]
      OBVIOUS
    <3>3. /\ u \in Nat /\ h[j] <= p /\ h[j] \in Nat /\ h[j - 1] \in Nat /\ h[j] = h[j - 1] + u + 1
      BY <3>1, <3>2, <1>2, <1>3, <1>4
    <3>4. b \in Int /\ at + l + 1 <= b /\ b + u <= StackSize - 1
      <4>1. PICK x, y : x = h[j] /\ y = h[j - 1]
        OBVIOUS
      <4>2. u \in Nat /\ x <= p /\ x \in Nat /\ y \in Nat /\ x = y + u + 1 /\ b = StackSize - x
        BY <4>1, <3>2, <3>3
      <4> QED BY ONLY <4>2, <1>5, <1>7
    <3>5. ASSUME NEW x \in 0 .. u PROVE new.bytes[b + x] = m.bytes[b + x]
      <4>1. b + x \in at + l + 1 .. StackSize - 1
        BY <3>3, <3>4, <1>5, <1>7
      <4> QED BY <4>1, <1>12
    <3>6. /\ m.copied[j] = b /\ m.bytes[b + u] = "nul"
          /\ \A i \in 1 .. u : m.bytes[b + i - 1] = t[i]
      BY <3>1, <3>2, <1>9
    <3>7. new.copied[j] = b
      BY <3>1, <3>6, <1>11
    <3>8. new.bytes[b + u] = "nul"
      BY <3>3, <3>5, <3>6
    <3>9. ASSUME NEW i \in 1 .. u PROVE new.bytes[b + i - 1] = t[i]
      <4>1. i - 1 \in 0 .. u /\ b + (i - 1) = b + i - 1
        BY <3>3, <3>4
      <4>2. new.bytes[b + (i - 1)] = m.bytes[b + (i - 1)]
        BY <4>1, <3>5
      <4> QED BY <4>1, <4>2, <3>6
    <3> QED BY <3>2, <3>7, <3>8, <3>9
  <2> QED BY <2>1, <2>2
<1>14. ASSUME NEW a \in 0 .. at - 1 PROVE new.bytes[a] = "old"
  <2>1. /\ a \in 0 .. StackSize - 1 /\ a # at + l /\ a \notin at .. at + l - 1
        /\ a \in 0 .. StackSize - p - 1
    BY <1>5, <1>7
  <2> QED BY <2>1, <1>9, <1>10
<1>15. Laid(new, k, all, h)
  BY <1>4, <1>6, <1>10, <1>11, <1>13, <1>14 DEF Laid
<1> QED BY <1>4, <1>8, <1>15

LEMMA TimesMonotone ==
    ASSUME NEW a \in Nat, NEW b \in Nat, NEW u \in Nat, a <= b
    PROVE  a * u <= b * u /\ a * u \in Nat /\ b * u \in Nat
<1>1. PICK d \in Nat : b = a + d
  <2>1. b - a \in Nat /\ b = a + (b - a)
    OBVIOUS
  <2> QED BY <2>1
<1>2. b * u = a * u + d * u
  BY <1>1
<1>3. a * u \in Nat /\ d * u \in Nat
  BY <1>1
<1> QED BY <1>2, <1>3

LEMMA ModTimes ==
    ASSUME NEW u \in Nat \ {0}, NEW x \in Int
    PROVE  (x * u) % u = 0
<1> DEFINE y == x * u
           q == y \div u
           r == y % u
<1>1. q \in Int /\ r \in 0 .. u - 1 /\ y = u * q + r
  OBVIOUS
<1> HIDE DEF q, r
<1>2. (x - q) * u = r
  BY <1>1
<1>3. x - q \in Int
  BY <1>1
<1>4. CASE x - q = 0
  BY <1>1, <1>2, <1>4 DEF r
<1>5. CASE x - q > 0
  <2>1. PICK d \in Nat : x - q = 1 + d
    <3>1. x - q - 1 \in Nat /\ x - q = 1 + (x - q - 1)
      BY <1>3, <1>5
    <3> QED BY <3>1
  <2>2. (1 + d) * u = u + d * u /\ d * u \in Nat
    OBVIOUS
  <2> QED BY <2>1, <2>2, <1>1, <1>2
<1>6. CASE x - q < 0
  <2>1. PICK d \in Nat : x - q = -1 - d
    <3>1. -1 - (x - q) \in Nat /\ x - q = -1 - (-1 - (x - q))
      BY <1>3, <1>6
    <3> QED BY <3>1
  <2>2. (-1 - d) * u = 0 - u - d * u /\ d * u \in Nat
    OBVIOUS
  <2> QED BY <2>1, <2>2, <1>1, <1>2
<1> QED BY <1>3, <1>4, <1>5, <1>6

LEMMA AlignedDown ==
    ASSUME NEW c \in Int, NEW l \in Nat, NEW u \in Nat \ {0}
    PROVE  LET top == c - (c % u) IN
           /\ top \in Int /\ top <= c /\ c - u < top
           /\ (top - l * u) % u = 0
<1> DEFINE q == c \div u
           r == c % u
<1>1. q \in Int /\ r \in 0 .. u - 1 /\ c = u * q + r
  OBVIOUS
<1> HIDE DEF q, r
<1>2. c - r = q * u
  BY <1>1
<1>3. (c - r) - l * u = (q - l) * u
  <2>1. (q - l) * u = q * u - l * u
    BY <1>1
  <2> QED BY <2>1, <1>2
<1>4. ((q - l) * u) % u = 0
  <2>1. q - l \in Int
    BY <1>1
  <2> QED BY <2>1, ModTimes
<1>5. c - r \in Int /\ c - r <= c /\ c - u < c - r
  BY <1>1
<1> QED BY <1>3, <1>4, <1>5 DEF r

LEMMA Joined ==
    ASSUME NEW S, NEW s \in Seq(S), NEW t \in Seq(S), NEW u, u = s \o t
    PROVE  /\ u \in Seq(S) /\ Len(u) = Len(s) + Len(t)
           /\ \A i \in 1 .. Len(s) : u[i] = s[i]
           /\ \A i \in 1 .. Len(t) : u[Len(s) + i] = t[i]
<1>1. u \in Seq(S) /\ Len(u) = Len(s) + Len(t)
  BY ConcatProperties
<1>2. \A i \in 1 .. Len(s) + Len(t) : u[i] = IF i <= Len(s) THEN s[i] ELSE t[i - Len(s)]
  BY ConcatProperties
<1>3. Len(s) \in Nat /\ Len(t) \in Nat
  OBVIOUS
<1>4. ASSUME NEW i \in 1 .. Len(s) PROVE u[i] = s[i]
  BY <1>2, <1>3
<1>5. ASSUME NEW i \in 1 .. Len(t) PROVE u[Len(s) + i] = t[i]
  <2>1. /\ Len(s) + i \in 1 .. Len(s) + Len(t) /\ ~(Len(s) + i <= Len(s)) /\ (Len(s) + i) - Len(s) = i
    BY <1>3
  <2> QED BY <2>1, <1>2
<1> QED BY <1>1, <1>4, <1>5

\* The words below the strings.
TableWords(la, le, copied) ==
    <<la>> \o SubSeq(copied, 1, la) \o <<Null>> \o SubSeq(copied, la + 1, la + le) \o <<Null>>

AreWords(words, la, le, copied) ==
    /\ Len(words) = la + le + 3 /\ words[1] = la
    /\ \A k \in 1 .. la : words[2 + k - 1] = copied[k]
    /\ words[2 + la] = Null
    /\ \A k \in 1 .. le : words[la + 2 + k] = copied[la + k]
    /\ words[1 + la + 2 + le] = Null

LEMMA WordsAre ==
    ASSUME NEW la \in Nat, NEW le \in Nat, NEW copied \in Seq(Int), Len(copied) = la + le,
           NEW words, words = TableWords(la, le, copied)
    PROVE  AreWords(words, la, le, copied)
<1>1. PICK a, b : a = SubSeq(copied, 1, la) /\ b = SubSeq(copied, la + 1, la + le)
  OBVIOUS
<1>2. /\ a \in Seq(Int) /\ Len(a) = la /\ \A k \in 1 .. la : a[k] = copied[k]
  BY <1>1
<1>3. /\ b \in Seq(Int) /\ Len(b) = le /\ \A k \in 1 .. le : b[k] = copied[la + k]
  <2>1. b \in Seq(Int)
    BY <1>1
  <2>2. Len(b) = le
    BY <1>1
  <2>3. ASSUME NEW k \in 1 .. le PROVE b[k] = copied[la + k]
    <3>1. PICK m, n : m = la + 1 /\ n = la + le
      OBVIOUS
    <3>2. m \in 1 .. Len(copied) + 1 /\ n \in m - 1 .. Len(copied) /\ k \in 1 .. n - m + 1
      BY <3>1
    <3>3. b = SubSeq(copied, m, n)
      BY <3>1, <1>1
    <3>4. b[k] = copied[m + k - 1]
      BY ONLY <3>2, <3>3, copied \in Seq(Int), SubSeqProperties
    <3>5. m + k - 1 = la + k
      BY <3>1
    <3> QED BY <3>4, <3>5
  <2> QED BY <2>1, <2>2, <2>3
<1>4. PICK z : z = Null /\ z \in Int
  BY DEF Null
<1>5. PICK v : v = <<la>> \o a
  OBVIOUS
<1>6. v \in Seq(Int) /\ Len(v) = la + 1 /\ v[1] = la /\ \A k \in 1 .. la : v[k + 1] = a[k]
  BY <1>2, <1>5
<1>7. PICK w : w = v \o <<z>>
  OBVIOUS
<1>8. w \in Seq(Int) /\ Len(w) = la + 2 /\ w[la + 2] = z /\ \A k \in 1 .. la + 1 : w[k] = v[k]
  BY <1>4, <1>6, <1>7
<1>9. PICK x : x = w \o b
  OBVIOUS
<1>10. /\ x \in Seq(Int) /\ Len(x) = la + le + 2
       /\ \A k \in 1 .. la + 2 : x[k] = w[k]
       /\ \A k \in 1 .. le : x[la + 2 + k] = b[k]
  <2>1. /\ x \in Seq(Int) /\ Len(x) = Len(w) + Len(b)
        /\ \A i \in 1 .. Len(w) : x[i] = w[i]
        /\ \A i \in 1 .. Len(b) : x[Len(w) + i] = b[i]
    <3>1. w \in Seq(Int) /\ b \in Seq(Int)
      BY <1>3, <1>8
    <3>2. x \in Seq(Int) /\ Len(x) = Len(w) + Len(b)
      BY ONLY <3>1, <1>9, Joined
    <3>3. \A i \in 1 .. Len(w) : x[i] = w[i]
      BY ONLY <3>1, <1>9, Joined
    <3>4. \A i \in 1 .. Len(b) : x[Len(w) + i] = b[i]
      BY ONLY <3>1, <1>9, Joined
    <3> QED BY <3>2, <3>3, <3>4
  <2>2. Len(w) + Len(b) = la + le + 2
    BY <1>3, <1>8
  <2> QED BY <2>1, <2>2, <1>3, <1>8
<1>11. words = x \o <<z>>
  BY <1>1, <1>4, <1>5, <1>7, <1>9 DEF TableWords
<1>12. /\ Len(words) = la + le + 3 /\ words[la + le + 3] = z
       /\ \A k \in 1 .. la + le + 2 : words[k] = x[k]
  <2>1. Len(words) = Len(x) + 1 /\ words[Len(x) + 1] = z /\ \A k \in 1 .. Len(x) : words[k] = x[k]
    <3>1. PICK y : y = <<z>>
      OBVIOUS
    <3>2. y \in Seq(Int) /\ Len(y) = 1 /\ y[1] = z
      BY <3>1, <1>4
    <3>3. /\ Len(words) = Len(x) + Len(y)
          /\ \A i \in 1 .. Len(x) : words[i] = x[i]
          /\ \A i \in 1 .. Len(y) : words[Len(x) + i] = y[i]
      <4>1. x \in Seq(Int) /\ y \in Seq(Int) /\ words = x \o y
        BY <3>1, <3>2, <1>10, <1>11
      <4>2. Len(words) = Len(x) + Len(y)
        BY ONLY <4>1, Joined
      <4>3. \A i \in 1 .. Len(x) : words[i] = x[i]
        BY ONLY <4>1, Joined
      <4>4. \A i \in 1 .. Len(y) : words[Len(x) + i] = y[i]
        BY ONLY <4>1, Joined
      <4> QED BY <4>2, <4>3, <4>4
    <3>4. words[Len(x) + 1] = z
      <4>1. 1 \in 1 .. Len(y)
        BY <3>2
      <4> QED BY <4>1, <3>2, <3>3
    <3> QED BY <3>2, <3>3, <3>4
  <2>2. Len(x) + 1 = la + le + 3
    BY <1>10
  <2> QED BY <2>1, <2>2, <1>10
<1>13. ASSUME NEW k \in 1 .. la PROVE words[2 + k - 1] = copied[k]
  <2>1. 2 + k - 1 = k + 1 /\ k + 1 \in 1 .. la + 1 /\ k + 1 \in 1 .. la + 2 /\ k + 1 \in 1 .. la + le + 2
    OBVIOUS
  <2>2. words[k + 1] = v[k + 1]
    BY <2>1, <1>8, <1>10, <1>12
  <2> QED BY <2>1, <2>2, <1>2, <1>6
<1>14. ASSUME NEW k \in 1 .. le PROVE words[la + 2 + k] = copied[la + k]
  <2>1. la + 2 + k \in 1 .. la + le + 2
    OBVIOUS
  <2> QED BY <2>1, <1>3, <1>10, <1>12
<1>15. words[2 + la] = Null
  <2>1. 2 + la = la + 2 /\ la + 2 \in 1 .. la + 2 /\ la + 2 \in 1 .. la + le + 2
    OBVIOUS
  <2> QED BY <2>1, <1>4, <1>8, <1>10, <1>12
<1>16. words[1 + la + 2 + le] = Null
  <2>1. 1 + la + 2 + le = la + le + 3
    OBVIOUS
  <2> QED BY <2>1, <1>4, <1>12
<1>17. words[1] = la
  <2>1. 1 \in 1 .. la + 1 /\ 1 \in 1 .. la + 2 /\ 1 \in 1 .. la + le + 2
    OBVIOUS
  <2> QED BY <2>1, <1>6, <1>8, <1>10, <1>12
<1> QED BY <1>12, <1>13, <1>14, <1>15, <1>16, <1>17 DEF AreWords

\* A string is read back.
LEMMA StringIs ==
    ASSUME NEW st, NEW p \in Nat, NEW s \in Text, p + Len(s) < StackSize,
           st.bytes[p + Len(s)] = "nul",
           \A i \in 1 .. Len(s) : st.bytes[p + i - 1] = s[i]
    PROVE  StringAt(st, p) = s
<1>0. StackSize \in Nat /\ Len(s) \in Nat /\ \A i \in 1 .. Len(s) : s[i] # "nul"
  BY StackAssumption DEF Text, Letter
<1>1. PICK l, b : l = Len(s) /\ b = st.bytes
  OBVIOUS
<1>2. l \in Nat /\ p + l \in p .. StackSize - 1 /\ b[p + l] = "nul"
  BY <1>0, <1>1
<1>3. \A a \in p .. p + l - 1 : b[a] = s[a - p + 1] /\ b[a] # "nul"
  <2> SUFFICES ASSUME NEW a \in p .. p + l - 1 PROVE b[a] = s[a - p + 1] /\ b[a] # "nul"
    OBVIOUS
  <2>1. a - p + 1 \in 1 .. l /\ p + (a - p + 1) - 1 = a
    BY <1>2
  <2> QED BY <2>1, <1>0, <1>1
<1> DEFINE End(e) == b[e] = "nul" /\ \A a \in p .. e - 1 : b[a] # "nul"
           end == CHOOSE e \in p .. StackSize - 1 : End(e)
<1>4. End(p + l)
  BY <1>2, <1>3
<1>5. end \in p .. StackSize - 1 /\ End(end)
  <2> HIDE DEF End
  <2> QED BY <1>2, <1>4, Zenon
<1>6. end = p + l
  <2> HIDE DEF end
  <2>1. end \in Int
    BY <1>0, <1>5
  <2>2. CASE end < p + l
    <3>1. end \in p .. p + l - 1
      BY <1>0, <1>2, <1>5, <2>2
    <3> QED BY <3>1, <1>3, <1>5
  <2>3. CASE end > p + l
    <3>1. p + l \in p .. end - 1
      BY <1>0, <1>2, <1>5, <2>3
    <3> QED BY <3>1, <1>2, <1>5
  <2> QED BY <2>1, <2>2, <2>3, <1>2
<1>7. StringAt(st, p) = [k \in 1 .. end - p |-> b[p + k - 1]]
  BY <1>1, Zenon DEF StringAt
<1> HIDE DEF end
<1>8. end - p = l
  BY <1>2, <1>6
<1>9. s = [k \in 1 .. l |-> s[k]]
  BY <1>1 DEF Text
<1> QED BY <1>1, <1>7, <1>8, <1>9

\* Whatever copy_strings accepts fits, and the program finds it: the strings of
\* argv and envp through their tables, all inside the stack, the words aligned
\* and below the strings.
THEOREM StackHolds ==
    ASSUME NEW argv \in Seq(Text), NEW envp \in Seq(Text), CopyOk(argv, envp)
    PROVE  BuildOk(argv, envp) /\ Holds(BuildUserStack(argv, envp), argv, envp)
<1>1. PICK all, la, le : all = argv \o envp /\ la = Len(argv) /\ le = Len(envp)
  OBVIOUS
<1>2. /\ all \in Seq(Text) /\ Len(all) = la + le /\ la \in Nat /\ le \in Nat
      /\ \A i \in 1 .. la : all[i] = argv[i]
      /\ \A i \in 1 .. le : all[la + i] = envp[i]
  BY <1>1, Joined
<1>3. PICK f : Sizes(f, argv) /\ TotalSize(argv, Len(argv)) = f[Len(argv)]
  BY SizesExist
<1>4. PICK g : Sizes(g, envp) /\ TotalSize(envp, Len(envp)) = g[Len(envp)]
  BY SizesExist
<1>5. PICK h : Sizes(h, all) /\ h[Len(all)] = f[Len(argv)] + g[Len(envp)]
  BY <1>1, <1>3, <1>4, SizesJoin
<1>6. PICK w : CopyWalk(w, all) /\ BuildUserStack(argv, envp) = StackOf(w[Len(all)], argv, envp)
  BY <1>1, CopyWalks
<1>7. PICK n, total : n = la + le /\ total = h[n]
  OBVIOUS
<1>8. /\ MaxArgs \in Nat /\ ArgBytes \in Nat /\ PtrSize \in Nat \ {0} /\ StackSize \in Nat
      /\ ArgBytes + (2 * MaxArgs + 3) * PtrSize + PtrSize - 1 <= StackSize
  BY StackAssumption
<1>9. la <= MaxArgs /\ le <= MaxArgs /\ total <= ArgBytes /\ total \in Nat
  <2>1. total \in Nat
    BY <1>2, <1>5, <1>7 DEF Sizes
  <2>2. total = TotalSize(argv, Len(argv)) + TotalSize(envp, Len(envp))
    BY <1>2, <1>3, <1>4, <1>5, <1>7
  <2> QED BY <2>1, <2>2, <1>1 DEF CopyOk
<1>10. PICK bytes, most : bytes = (n + 3) * PtrSize /\ most = (2 * MaxArgs + 3) * PtrSize
  OBVIOUS
<1>11. bytes <= most /\ bytes \in Nat /\ most \in Nat
  <2>1. PICK x, y : x = n + 3 /\ y = 2 * MaxArgs + 3
    OBVIOUS
  <2>2. x \in Nat /\ y \in Nat /\ x <= y
    BY <2>1, <1>2, <1>7, <1>8, <1>9
  <2>3. x * PtrSize <= y * PtrSize /\ x * PtrSize \in Nat /\ y * PtrSize \in Nat
    BY ONLY <2>2, <1>8, TimesMonotone
  <2> QED BY <2>1, <2>3, <1>10
<1>12. total + bytes + PtrSize - 1 <= StackSize
  <2>1. ArgBytes + most + PtrSize - 1 <= StackSize
    BY <1>8, <1>10
  <2> QED BY ONLY <2>1, <1>8, <1>9, <1>11
<1>13. BuildOk(argv, envp)
  <2>1. total = TotalSize(argv, Len(argv)) + TotalSize(envp, Len(envp))
    BY <1>2, <1>3, <1>4, <1>5, <1>7
  <2>2. (Len(argv) + Len(envp) + 3) * PtrSize = bytes
    BY <1>1, <1>7, <1>10
  <2>3. total + bytes <= StackSize
    BY ONLY <1>8, <1>9, <1>11, <1>12
  <2> QED BY <2>1, <2>2, <2>3 DEF BuildOk
<1>14. ASSUME NEW k \in 0 .. n PROVE h[k] <= StackSize /\ h[k] \in Nat /\ h[k] <= total
  <2>1. h[k] \in Nat /\ h[k] <= total
    <3>1. \A j \in 0 .. n : h[j] <= h[n]
      <4>1. n \in 0 .. Len(all)
        BY <1>2, <1>7
      <4> QED BY <4>1, <1>2, <1>5, SizesGrow
    <3> QED BY <3>1, <1>2, <1>5, <1>7 DEF Sizes
  <2> QED BY <2>1, <1>8, <1>9, <1>11, <1>12
<1> DEFINE R == {k \in 0 .. n : Laid(w[k], k, all, h)}
<1>15. /\ w \in [0 .. n -> Making] /\ w[0] = NoStrings
       /\ \A k \in 1 .. n : w[k] = CopyString(w[k - 1], all[k])
  BY <1>2, <1>6, <1>7 DEF CopyWalk
<1>16. 0 \in R
  <2>1. h[0] = 0 /\ n \in Nat
    BY <1>2, <1>5, <1>7 DEF Sizes
  <2>2. NoStrings.cursor = StackSize /\ NoStrings.copied = << >>
        /\ NoStrings.bytes = [a \in 0 .. StackSize - 1 |-> "old"]
    BY DEF NoStrings
  <2>3. StackSize = StackSize - h[0] /\ Len(NoStrings.copied) = 0 /\ 1 .. 0 = {}
    BY <2>1, <2>2, <1>8
  <2>4. \A a \in 0 .. StackSize - h[0] - 1 : NoStrings.bytes[a] = "old"
    BY <2>1, <2>2, <1>8
  <2>5. Laid(NoStrings, 0, all, h)
    BY <2>2, <2>3, <2>4 DEF Laid
  <2> QED BY <2>1, <2>5, <1>15
<1>17. ASSUME NEW k \in 1 .. n, k - 1 \in R PROVE k \in R
  <2>1. /\ k \in 0 .. n /\ k - 1 \in 0 .. n /\ k \in 1 .. Len(all) /\ w[k - 1] \in Making
        /\ Laid(w[k - 1], k - 1, all, h)
    BY <1>2, <1>7, <1>15, <1>17
  <2>2. h[k] <= StackSize
    BY <2>1, <1>14
  <2>3. Laid(CopyString(w[k - 1], all[k]), k, all, h)
    BY <2>1, <2>2, <1>2, <1>5, LaidStep
  <2> QED BY <2>1, <2>3, <1>15
<1>18. PICK m : m = w[n] /\ m \in Making /\ Laid(m, n, all, h)
  <2>1. n \in Nat /\ n \in 0 .. n
    BY <1>2, <1>7
  <2>2. n \in R
    <3> HIDE DEF R
    <3> QED BY <2>1, <1>16, <1>17, WalkKeeps
  <2> QED BY <2>1, <2>2, <1>15
<1>19. PICK words : words = TableWords(la, le, m.copied)
  OBVIOUS
<1>20. /\ m.copied \in Seq(Int) /\ Len(m.copied) = la + le /\ m.cursor = StackSize - total
       /\ \A j \in 1 .. n :
             /\ m.copied[j] = StackSize - h[j]
             /\ m.bytes[StackSize - h[j] + Len(all[j])] = "nul"
             /\ \A i \in 1 .. Len(all[j]) : m.bytes[StackSize - h[j] + i - 1] = all[j][i]
       /\ \A a \in 0 .. StackSize - total - 1 : m.bytes[a] = "old"
  BY <1>7, <1>18 DEF Laid, Making
<1>21. /\ Len(words) = la + le + 3 /\ words[1] = la
       /\ \A k \in 1 .. la : words[2 + k - 1] = m.copied[k]
       /\ words[2 + la] = Null
       /\ \A k \in 1 .. le : words[la + 2 + k] = m.copied[la + k]
       /\ words[1 + la + 2 + le] = Null
  <2>1. PICK copied : copied = m.copied
    OBVIOUS
  <2>2. /\ la \in Nat /\ le \in Nat /\ copied \in Seq(Int) /\ Len(copied) = la + le
        /\ words = TableWords(la, le, copied)
    BY <2>1, <1>2, <1>19, <1>20
  <2>3. AreWords(words, la, le, copied)
    BY ONLY <2>2, WordsAre
  <2> QED BY <2>1, <2>3 DEF AreWords
<1>22. PICK cursor, top, st : /\ cursor = m.cursor /\ top = cursor - (cursor % PtrSize)
                              /\ st = BuildUserStack(argv, envp)
  OBVIOUS
<1>23. st = [sp |-> top - bytes, words |-> words, bytes |-> m.bytes]
  <2>1. w[Len(all)] = m /\ Len(argv \o envp) = la + le
    BY <1>1, <1>2, <1>7, <1>18
  <2>2. Len(words) * PtrSize = bytes
    BY <1>7, <1>10, <1>21
  <2>3. st = StackOf(m, argv, envp)
    BY <2>1, <1>6, <1>22
  <2>4. st = [sp |-> top - Len(words) * PtrSize, words |-> words, bytes |-> m.bytes]
    BY <2>1, <2>3, <1>1, <1>19, <1>22, Zenon DEF StackOf, TableWords
  <2> QED BY <2>2, <2>4
<1>24. st.sp = top - bytes /\ st.words = words /\ st.bytes = m.bytes
  BY <1>23
<1>25. cursor = StackSize - total /\ cursor \in Nat /\ n + 3 \in Nat
  <2>1. cursor = StackSize - total
    BY <1>20, <1>22
  <2>2. cursor \in Nat
    BY ONLY <2>1, <1>8, <1>9, <1>11, <1>12
  <2> QED BY <2>1, <2>2, <1>2, <1>7
<1>26. top \in Int /\ top <= cursor /\ cursor - PtrSize < top /\ (top - bytes) % PtrSize = 0
  <2>1. PICK l : l = n + 3
    OBVIOUS
  <2>2. l \in Nat /\ bytes = l * PtrSize /\ cursor \in Int
    BY <2>1, <1>10, <1>25
  <2> QED BY <2>2, <1>8, <1>22, AlignedDown
<1>27. 0 <= st.sp /\ st.sp % PtrSize = 0
  <2>1. 0 <= top - bytes
    BY ONLY <1>8, <1>9, <1>11, <1>12, <1>25, <1>26
  <2> QED BY <2>1, <1>24, <1>26
<1>28. \A a \in st.sp .. st.sp + Len(st.words) * PtrSize - 1 : st.bytes[a] = "old"
  <2> SUFFICES ASSUME NEW a \in st.sp .. st.sp + Len(st.words) * PtrSize - 1 PROVE st.bytes[a] = "old"
    OBVIOUS
  <2>1. Len(st.words) * PtrSize = bytes
    BY <1>7, <1>10, <1>21, <1>24
  <2>2. a \in top - bytes .. top - bytes + bytes - 1 /\ 0 <= top - bytes
    BY <2>1, <1>24, <1>27
  <2>3. a \in 0 .. cursor - 1
    BY ONLY <2>2, <1>11, <1>25, <1>26
  <2> QED BY <2>3, <1>20, <1>24, <1>25
<1>29. ASSUME NEW j \in 1 .. n PROVE StringAt(st, m.copied[j]) = all[j]
  <2>1. PICK p, s : p = StackSize - h[j] /\ s = all[j]
    OBVIOUS
  <2>2. /\ m.copied[j] = p /\ st.bytes[p + Len(s)] = "nul"
        /\ \A i \in 1 .. Len(s) : st.bytes[p + i - 1] = s[i]
    BY <2>1, <1>20, <1>24
  <2>3. j \in 1 .. Len(all) /\ j \in 0 .. n /\ j - 1 \in 0 .. n
    BY <1>2, <1>7
  <2>4. s \in Text /\ Len(s) \in Nat
    BY <2>1, <2>3, <1>2 DEF Text
  <2>5. h[j] = h[j - 1] + Len(s) + 1
    BY <2>1, <2>3, <1>5 DEF Sizes
  <2>6. p \in Nat /\ p + Len(s) < StackSize
    <3>1. PICK x, y, l : x = h[j] /\ y = h[j - 1] /\ l = Len(s)
      OBVIOUS
    <3>2. x \in Nat /\ y \in Nat /\ l \in Nat /\ x = y + l + 1 /\ x <= StackSize /\ p = StackSize - x
      BY <3>1, <2>1, <2>3, <2>4, <2>5, <1>14
    <3>3. p \in Nat /\ p + l < StackSize
      BY ONLY <3>2, <1>8
    <3> QED BY <3>1, <3>3
  <2>7. StringAt(st, p) = s
    BY ONLY <2>2, <2>4, <2>6, StringIs
  <2> QED BY <2>1, <2>2, <2>7
<1>30. Start(st).argc = la /\ Start(st).argv = 2 /\ Start(st).envp = 1 + la + 2
  BY <1>21, <1>24 DEF Start
<1>31. IsTable(st, 2, argv)
  <2>1. ASSUME NEW k \in 1 .. la PROVE StringAt(st, st.words[2 + k - 1]) = argv[k]
    <3>1. k \in 1 .. n
      BY <1>2, <1>7
    <3> QED BY <3>1, <1>2, <1>21, <1>24, <1>29
  <2> QED BY <2>1, <1>1, <1>21, <1>24 DEF IsTable
<1>32. IsTable(st, 1 + la + 2, envp)
  <2>1. ASSUME NEW k \in 1 .. le PROVE StringAt(st, st.words[1 + la + 2 + k - 1]) = envp[k]
    <3>1. la + k \in 1 .. n
      BY <1>2, <1>7
    <3>2. st.words[1 + la + 2 + k - 1] = m.copied[la + k]
      <4>1. 1 + la + 2 + k - 1 = la + 2 + k
        BY <1>2
      <4> QED BY <4>1, <1>21, <1>24
    <3> QED BY <3>1, <3>2, <1>2, <1>29
  <2> QED BY <2>1, <1>1, <1>21, <1>24 DEF IsTable
<1>33. Holds(st, argv, envp)
  BY <1>1, <1>27, <1>28, <1>30, <1>31, <1>32 DEF Holds
<1> QED BY <1>13, <1>22, <1>33

-----------------------------------------------------------------------------
(* The words of a line.                                                       *)

\* A line of typed characters, and its words while it is split.
Split == {w \in [open : BOOLEAN, words : Seq(Text)] : w.open => w.words # << >>}
NoWords == [open |-> FALSE, words |-> << >>]

\* One character, as Words takes it.
WordStep(w, c) ==
    IF IsBlank(c) THEN [w EXCEPT !.open = FALSE]
    ELSE IF w.open
    THEN [w EXCEPT !.words[Len(w.words)] = Append(@, c)]
    ELSE [open |-> TRUE, words |-> Append(w.words, <<c>>)]

LEMMA WordCases ==
    ASSUME NEW w \in Split, NEW c \in Letter
    PROVE  /\ IsBlank(c) => WordStep(w, c) = [open |-> FALSE, words |-> w.words]
           /\ ~IsBlank(c) /\ w.open =>
                 WordStep(w, c) = [open |-> TRUE,
                                   words |-> [w.words EXCEPT ![Len(w.words)] = Append(w.words[Len(w.words)], c)]]
           /\ ~IsBlank(c) /\ ~w.open => WordStep(w, c) = [open |-> TRUE, words |-> Append(w.words, <<c>>)]
           /\ WordStep(w, c) \in Split
<1>1. w.open \in BOOLEAN /\ w.words \in Seq(Text) /\ (w.open => w.words # << >>)
  BY DEF Split
<1>2. w = [open |-> w.open, words |-> w.words]
  BY DEF Split
<1>3. ASSUME IsBlank(c) PROVE WordStep(w, c) = [open |-> FALSE, words |-> w.words]
  BY <1>2, <1>3 DEF WordStep, Split
<1>4. ASSUME ~IsBlank(c), w.open
      PROVE WordStep(w, c) = [open |-> TRUE,
                      words |-> [w.words EXCEPT ![Len(w.words)] = Append(w.words[Len(w.words)], c)]]
  <2>1. WordStep(w, c) = [w EXCEPT !.words = [w.words EXCEPT ![Len(w.words)] = Append(w.words[Len(w.words)], c)]]
    BY <1>4 DEF WordStep, Split
  <2>2. w.open = TRUE
    BY <1>1, <1>4
  <2> QED BY <2>1, <2>2 DEF Split
<1>5. ASSUME ~IsBlank(c), ~w.open
      PROVE  WordStep(w, c) = [open |-> TRUE, words |-> Append(w.words, <<c>>)]
  BY <1>5 DEF WordStep
<1>6. WordStep(w, c) \in Split
  <2>1. CASE IsBlank(c)
    <3>1. [open |-> FALSE, words |-> w.words] \in Split
      BY <1>1 DEF Split
    <3> QED BY <3>1, <1>3, <2>1
  <2>2. CASE ~IsBlank(c) /\ w.open
    <3>1. PICK ts, l : ts = w.words /\ l = Len(ts)
      OBVIOUS
    <3>2. ts \in Seq(Text) /\ l \in 1 .. Len(ts) /\ ts # << >>
      BY <3>1, <1>1, <2>2
    <3>3. Append(ts[l], c) \in Text
      BY <3>2 DEF Text
    <3>4. PICK us : us = [ts EXCEPT ![l] = Append(ts[l], c)]
      OBVIOUS
    <3>5. us \in Seq(Text) /\ us # << >>
      BY <3>1, <3>2, <3>3, <3>4
    <3>6. WordStep(w, c) = [open |-> TRUE, words |-> us]
      BY <3>1, <3>4, <1>4, <2>2
    <3> QED BY <3>5, <3>6 DEF Split
  <2>3. CASE ~IsBlank(c) /\ ~w.open
    <3>1. <<c>> \in Text
      BY DEF Text
    <3>2. PICK us : us = Append(w.words, <<c>>)
      OBVIOUS
    <3>3. us \in Seq(Text) /\ us # << >>
      BY <3>1, <3>2, <1>1
    <3>4. [open |-> TRUE, words |-> us] \in Split
      BY <3>3 DEF Split
    <3> QED BY <3>2, <3>4, <1>5, <2>3
  <2> QED BY <2>1, <2>2, <2>3
<1> QED BY <1>3, <1>4, <1>5, <1>6

\* Words goes along the line.
WordWalk(f, line) ==
    /\ f \in [0 .. Len(line) -> Split] /\ f[0] = NoWords
    /\ \A k \in 1 .. Len(line) : f[k] = WordStep(f[k - 1], line[k])
    /\ Words(line) = f[Len(line)].words

LEMMA WordWalks ==
    ASSUME NEW line \in Seq(Letter)
    PROVE  \E f : WordWalk(f, line)
<1> DEFINE n == Len(line)
           G(f) == [k \in 0 .. n |-> IF k = 0 THEN NoWords ELSE WordStep(f[k - 1], line[k])]
           step == [e \in Split |-> [k \in 1 .. n |-> WordStep(e, line[k])]]
           walk == CHOOSE f : f = G(f)
<1>1. n \in Nat /\ \A k \in 1 .. n : line[k] \in Letter
  OBVIOUS
<1>2. NoWords \in Split
  BY DEF NoWords, Split
<1>3. Words(line) = walk[n].words
  BY Zenon DEF Words, WordStep, NoWords
<1> HIDE DEF n
<1>4. step \in [Split -> [1 .. n -> Split]]
  BY <1>1, WordCases
<1>5. PICK f : /\ f \in [0 .. n -> Split] /\ f[0] = NoWords
               /\ \A k \in 1 .. n : f[k] = step[f[k - 1]][k]
  <2> HIDE DEF step
  <2>1. PICK m, st, e, S : m = n /\ st = step /\ e = NoWords /\ S = Split
    OBVIOUS
  <2>2. m \in Nat /\ e \in S /\ st \in [S -> [1 .. m -> S]]
    BY <2>1, <1>1, <1>2, <1>4
  <2>3. PICK f : IsWalk(f, m, S, e, st)
    BY ONLY <2>2, WalkExists
  <2>4. f \in [0 .. m -> S] /\ f[0] = e /\ \A k \in 1 .. m : f[k] = st[f[k - 1]][k]
    BY <2>3, Zenon DEF IsWalk
  <2>5. f \in [0 .. n -> Split] /\ f[0] = NoWords /\ \A k \in 1 .. n : f[k] = step[f[k - 1]][k]
    BY <2>1, <2>4, Zenon
  <2> QED BY <2>5, Zenon
<1>6. ASSUME NEW k \in 1 .. n PROVE f[k] = WordStep(f[k - 1], line[k])
  <2>1. k - 1 \in 0 .. n
    BY <1>1
  <2>2. f[k - 1] \in Split
    BY <2>1, <1>5
  <2> QED BY <2>2, <1>5
<1>7. f = G(f)
  <2>1. ASSUME NEW k \in 0 .. n PROVE f[k] = G(f)[k]
    <3>1. CASE k = 0
      BY <3>1, <1>5
    <3>2. CASE k # 0
      <4>1. k \in 1 .. n
        BY <3>2, <1>1
      <4> QED BY <4>1, <3>2, <1>6
    <3> QED BY <3>1, <3>2
  <2>2. f = [k \in 0 .. n |-> f[k]] /\ G(f) = [k \in 0 .. n |-> G(f)[k]]
    BY <1>5
  <2> HIDE DEF G
  <2> QED BY <2>1, <2>2, Zenon
<1>8. walk = G(walk)
  BY <1>7, Zenon DEF walk
<1> HIDE DEF walk
<1> DEFINE R == {k \in 0 .. n : walk[k] \in Split}
<1>9. walk[0] = NoWords /\ \A k \in 1 .. n : walk[k] = WordStep(walk[k - 1], line[k])
  <2>1. 0 \in 0 .. n /\ \A k \in 1 .. n : k \in 0 .. n /\ k # 0
    BY <1>1
  <2> QED BY <2>1, <1>8
<1>11. 0 \in R
  BY <1>1, <1>2, <1>9
<1>12. ASSUME NEW k \in 1 .. n, k - 1 \in R PROVE k \in R
  <2>1. walk[k - 1] \in Split /\ line[k] \in Letter /\ k \in 0 .. n
    BY <1>1, <1>12
  <2>2. WordStep(walk[k - 1], line[k]) \in Split
    BY <2>1, WordCases
  <2> QED BY <2>1, <2>2, <1>9
<1>13. \A k \in 0 .. n : k \in R
  <2> HIDE DEF R
  <2> QED BY <1>1, <1>11, <1>12, WalkKeeps
<1>14. walk = [k \in 0 .. n |-> walk[k]]
  <2>1. PICK w : w = walk
    OBVIOUS
  <2>2. w = G(w)
    BY <2>1, <1>8
  <2>3. w = [k \in 0 .. n |-> w[k]]
    BY <2>2
  <2> QED BY <2>1, <2>3
<1>15. walk \in [0 .. n -> Split]
  BY <1>13, <1>14
<1>16. WordWalk(walk, line)
  BY <1>3, <1>9, <1>15 DEF WordWalk, n
<1> QED BY <1>16

\* The word u begins behind the first a characters of the line, and ended before
\* the k-th.
WordAt(line, a, u) == \A i \in 1 .. Len(u) : line[a + i] = u[i] /\ ~IsBlank(u[i])
Ended(line, k, a, u) == a + Len(u) < k /\ IsBlank(line[a + Len(u) + 1])

\* After k characters: the words ts of Words, the last one perhaps not ended,
\* and the positions s where shell_parse_command found them.
Matches(line, k, open, ts, s) ==
    /\ IF k = 0 THEN ~open ELSE (open <=> ~IsBlank(line[k]))
    /\ Len(s) = IF Len(ts) < ShellMaxArgs THEN Len(ts) ELSE ShellMaxArgs
    /\ \A j \in 1 .. Len(s) :
          /\ WordAt(line, s[j], ts[j])
          /\ IF j = Len(ts) /\ open THEN s[j] + Len(ts[j]) = k ELSE Ended(line, k, s[j], ts[j])

LEMMA EndedLater ==
    ASSUME NEW line, NEW k \in Nat, NEW a \in Nat, NEW u \in Text, Ended(line, k - 1, a, u)
    PROVE  Ended(line, k, a, u)
<1>1. Len(u) \in Nat
  BY DEF Text
<1> QED BY <1>1 DEF Ended

LEMMA MatchTypes ==
    ASSUME NEW ts \in Seq(Text), NEW s \in Seq(Nat),
           Len(s) = IF Len(ts) < ShellMaxArgs THEN Len(ts) ELSE ShellMaxArgs
    PROVE  /\ Len(s) <= Len(ts) /\ Len(ts) \in Nat /\ Len(s) \in Nat /\ ShellMaxArgs \in Nat
           /\ \A j \in 1 .. Len(s) : j \in 1 .. Len(ts) /\ s[j] \in Nat /\ ts[j] \in Text /\ Len(ts[j]) \in Nat
<1>1. ShellMaxArgs \in Nat /\ Len(ts) \in Nat /\ Len(s) \in Nat
  BY BufferAssumption
<1>2. Len(s) <= Len(ts)
  BY <1>1
<1>3. \A j \in 1 .. Len(s) : j \in 1 .. Len(ts)
  BY <1>1, <1>2
<1>4. \A j \in 1 .. Len(ts) : ts[j] \in Text
  OBVIOUS
<1>5. \A u \in Text : Len(u) \in Nat
  BY DEF Text
<1>6. \A j \in 1 .. Len(s) : s[j] \in Nat
  OBVIOUS
<1> QED BY <1>1, <1>2, <1>3, <1>4, <1>5, <1>6

\* A blank ends a word.
LEMMA MatchBlank ==
    ASSUME NEW line, NEW k \in Nat \ {0}, NEW open \in BOOLEAN, NEW ts \in Seq(Text), NEW s \in Seq(Nat),
           Matches(line, k - 1, open, ts, s), IsBlank(line[k])
    PROVE  Matches(line, k, FALSE, ts, s)
<1>1. Len(s) = IF Len(ts) < ShellMaxArgs THEN Len(ts) ELSE ShellMaxArgs
  BY DEF Matches
<1>2. ASSUME NEW j \in 1 .. Len(s) PROVE WordAt(line, s[j], ts[j]) /\ Ended(line, k, s[j], ts[j])
  <2>1. PICK a, u : a = s[j] /\ u = ts[j]
    OBVIOUS
  <2>2. a \in Nat /\ u \in Text /\ Len(u) \in Nat
    BY <2>1, <1>1, MatchTypes
  <2>3. /\ WordAt(line, a, u)
        /\ IF j = Len(ts) /\ open THEN a + Len(u) = k - 1 ELSE Ended(line, k - 1, a, u)
    BY <2>1 DEF Matches
  <2>4. CASE a + Len(u) = k - 1
    <3>1. a + Len(u) < k /\ a + Len(u) + 1 = k
      BY <2>2, <2>4
    <3> QED BY <3>1, <2>1, <2>3 DEF Ended
  <2>5. CASE Ended(line, k - 1, a, u)
    <3>1. Ended(line, k, a, u)
      BY <2>2, <2>5, EndedLater
    <3> QED BY <3>1, <2>1, <2>3
  <2> QED BY <2>3, <2>4, <2>5
<1> QED BY <1>1, <1>2 DEF Matches

\* A word goes on.
LEMMA MatchGoesOn ==
    ASSUME NEW line, NEW k \in Nat \ {0}, NEW ts \in Seq(Text), NEW s \in Seq(Nat),
           Matches(line, k - 1, TRUE, ts, s), ts # << >>, line[k] \in Letter, ~IsBlank(line[k])
    PROVE  Matches(line, k, TRUE, [ts EXCEPT ![Len(ts)] = Append(ts[Len(ts)], line[k])], s)
<1>1. PICK n, c, us : n = Len(ts) /\ c = line[k] /\ us = [ts EXCEPT ![n] = Append(ts[n], c)]
  OBVIOUS
<1>2. Len(s) = IF n < ShellMaxArgs THEN n ELSE ShellMaxArgs
  BY <1>1 DEF Matches
<1>3. /\ n \in 1 .. Len(ts) /\ Len(us) = n /\ us[n] = Append(ts[n], c) /\ c \in Letter
      /\ \A j \in 1 .. n : j # n => us[j] = ts[j]
  BY <1>1
<1>4. ASSUME NEW j \in 1 .. Len(s)
      PROVE  /\ WordAt(line, s[j], us[j])
             /\ IF j = n THEN s[j] + Len(us[j]) = k ELSE Ended(line, k, s[j], us[j])
  <2>1. PICK a, u : a = s[j] /\ u = ts[j]
    OBVIOUS
  <2>2. a \in Nat /\ u \in Text /\ Len(u) \in Nat /\ j \in 1 .. n
    BY <2>1, <1>1, <1>2, MatchTypes
  <2>3. /\ WordAt(line, a, u)
        /\ IF j = n THEN a + Len(u) = k - 1 ELSE Ended(line, k - 1, a, u)
    BY <2>1, <1>1 DEF Matches
  <2>4. CASE j = n
    <3>1. PICK v : v = Append(u, c)
      OBVIOUS
    <3>2. Len(v) = Len(u) + 1 /\ v[Len(u) + 1] = c /\ \A i \in 1 .. Len(u) : v[i] = u[i]
      BY <3>1, <2>2, <1>3 DEF Text
    <3>3. us[j] = v
      BY <3>1, <2>1, <2>4, <1>3
    <3>4. a + Len(v) = k
      BY <3>2, <2>2, <2>3, <2>4
    <3>5. ASSUME NEW i \in 1 .. Len(v) PROVE line[a + i] = v[i] /\ ~IsBlank(v[i])
      <4>1. CASE i = Len(u) + 1
        <5>1. a + i = k
          BY <4>1, <3>2, <3>4
        <5> QED BY <5>1, <4>1, <3>2, <1>1
      <4>2. CASE i # Len(u) + 1
        <5>1. i \in 1 .. Len(u)
          <6>1. PICK l : l = Len(u)
            OBVIOUS
          <6>2. l \in Nat /\ i \in 1 .. l + 1 /\ i # l + 1
            BY <6>1, <4>2, <3>2, <2>2
          <6>3. i \in 1 .. l
            BY ONLY <6>2
          <6> QED BY <6>1, <6>3
        <5> QED BY <5>1, <3>2, <2>3 DEF WordAt
      <4> QED BY <4>1, <4>2
    <3> QED BY <3>3, <3>4, <3>5, <2>1, <2>4 DEF WordAt
  <2>5. CASE j # n
    <3>1. us[j] = u
      BY <2>1, <2>2, <2>5, <1>3
    <3>2. Ended(line, k, a, u)
      BY <2>2, <2>3, <2>5, EndedLater
    <3> QED BY <3>1, <3>2, <2>1, <2>3, <2>5
  <2> QED BY <2>4, <2>5
<1>5. Matches(line, k, TRUE, us, s)
  BY <1>2, <1>3, <1>4 DEF Matches
<1> QED BY <1>1, <1>5

\* A word begins, and is kept if there is room for it.
LEMMA MatchBegins ==
    ASSUME NEW line, NEW k \in Nat \ {0}, NEW ts \in Seq(Text), NEW s \in Seq(Nat),
           Matches(line, k - 1, FALSE, ts, s), line[k] \in Letter, ~IsBlank(line[k])
    PROVE  Matches(line, k, TRUE, Append(ts, <<line[k]>>),
                   IF Len(s) < ShellMaxArgs THEN Append(s, k - 1) ELSE s)
<1>1. PICK n, c, us, r : /\ n = Len(ts) /\ c = line[k] /\ us = Append(ts, <<c>>)
                         /\ r = IF Len(s) < ShellMaxArgs THEN Append(s, k - 1) ELSE s
  OBVIOUS
<1>2. Len(s) = IF n < ShellMaxArgs THEN n ELSE ShellMaxArgs
  BY <1>1 DEF Matches
<1>3. Len(s) <= n /\ n \in Nat /\ Len(s) \in Nat /\ ShellMaxArgs \in Nat
  BY <1>1, <1>2, MatchTypes
<1>4. <<c>> \in Text
  BY <1>1 DEF Text
<1>5. Len(us) = n + 1 /\ us[n + 1] = <<c>> /\ \A j \in 1 .. n : us[j] = ts[j]
  BY <1>1, <1>3, <1>4
<1>6. Len(r) = IF n + 1 < ShellMaxArgs THEN n + 1 ELSE ShellMaxArgs
  <2>1. CASE Len(s) < ShellMaxArgs
    <3>1. Len(r) = Len(s) + 1
      BY <2>1, <1>1
    <3> QED BY <3>1, <2>1, <1>2, <1>3
  <2>2. CASE ~(Len(s) < ShellMaxArgs)
    BY <2>2, <1>1, <1>2, <1>3
  <2> QED BY <2>1, <2>2
<1>7. ASSUME NEW j \in 1 .. Len(r)
      PROVE  /\ WordAt(line, r[j], us[j])
             /\ IF j = n + 1 THEN r[j] + Len(us[j]) = k ELSE Ended(line, k, r[j], us[j])
  <2>1. CASE j \in 1 .. Len(s)
    <3>1. r[j] = s[j]
      BY <2>1, <1>1
    <3>2. PICK a, u : a = s[j] /\ u = ts[j]
      OBVIOUS
    <3>3. a \in Nat /\ u \in Text /\ j \in 1 .. n
      BY <3>2, <2>1, <1>1, <1>2, MatchTypes
    <3>4. WordAt(line, a, u) /\ Ended(line, k - 1, a, u)
      BY <3>2, <2>1 DEF Matches
    <3>5. Ended(line, k, a, u)
      BY <3>3, <3>4, EndedLater
    <3>6. us[j] = u /\ j # n + 1
      BY <3>2, <3>3, <1>3, <1>5
    <3> QED BY <3>1, <3>2, <3>4, <3>5, <3>6
  <2>2. CASE j \notin 1 .. Len(s)
    <3>1. Len(s) < ShellMaxArgs /\ Len(s) = n /\ r = Append(s, k - 1)
      BY <2>2, <1>1, <1>2, <1>3
    <3>2. j = n + 1 /\ r[j] = k - 1
      <4>1. Len(r) = n + 1 /\ r[n + 1] = k - 1
        BY <3>1
      <4>2. j = n + 1
        BY <4>1, <3>1, <2>2, <1>3
      <4> QED BY <4>1, <4>2
    <3>3. PICK u : u = <<c>>
      OBVIOUS
    <3>4. Len(u) = 1 /\ u[1] = c /\ us[j] = u
      BY <3>2, <3>3, <1>5
    <3>5. (k - 1) + Len(u) = k
      BY <3>4
    <3>6. WordAt(line, k - 1, u)
      <4>1. \A i \in 1 .. Len(u) : i = 1
        BY <3>4
      <4>2. (k - 1) + 1 = k
        OBVIOUS
      <4> QED BY <4>1, <4>2, <3>4, <1>1 DEF WordAt
    <3> QED BY <3>2, <3>4, <3>5, <3>6
  <2> QED BY <2>1, <2>2
<1>8. Matches(line, k, TRUE, us, r)
  BY <1>1, <1>5, <1>6, <1>7 DEF Matches
<1> QED BY <1>1, <1>8

\* What the buffer holds when a line was read.
Filled(buf, line) ==
    /\ buf \in Buffer /\ line \in Seq(Letter) /\ Len(line) \in 0 .. BufferSize - 1
    /\ \A k \in 0 .. Len(line) - 1 : buf[k] = line[k + 1]
    /\ buf[Len(line)] = "nul"

LEMMA FirstOfIs ==
    ASSUME NEW buf, NEW p \in Nat, NEW S, NEW e \in p .. BufferSize - 1, buf[e] \in S,
           \A a \in p .. e - 1 : buf[a] \notin S
    PROVE  FirstOf(buf, p, S) = e
<1>0. BufferSize \in Nat
  BY BufferAssumption
<1>1. PICK z : z = FirstOf(buf, p, S)
  OBVIOUS
<1>2. z \in p .. BufferSize - 1 /\ buf[z] \in S /\ \A a \in p .. z - 1 : buf[a] \notin S
  BY <1>1, FirstOfProps
<1>3. CASE z < e
  <2>1. z \in p .. e - 1
    BY <1>0, <1>2, <1>3
  <2> QED BY <2>1, <1>2
<1>4. CASE z > e
  <2>1. e \in p .. z - 1
    BY <1>0, <1>2, <1>4
  <2> QED BY <2>1, <1>2
<1> QED BY <1>0, <1>1, <1>2, <1>3, <1>4

LEMMA FilledEnd ==
    ASSUME NEW buf, NEW line, Filled(buf, line)
    PROVE  HasNul(buf, 0) /\ FirstOf(buf, 0, {"nul"}) = Len(line)
<1>1. PICK n : n = Len(line)
  OBVIOUS
<1>2. /\ n \in 0 .. BufferSize - 1 /\ buf[n] \in {"nul"} /\ 0 \in Nat /\ n \in Nat
      /\ \A i \in 1 .. n : line[i] # "nul"
  BY <1>1 DEF Filled, Letter
<1>3. \A a \in 0 .. n - 1 : buf[a] \notin {"nul"}
  <2> SUFFICES ASSUME NEW a \in 0 .. n - 1 PROVE buf[a] \notin {"nul"}
    OBVIOUS
  <2>1. buf[a] = line[a + 1] /\ a + 1 \in 1 .. n
    BY <1>1, <1>2 DEF Filled
  <2> QED BY <2>1, <1>2
<1>4. FirstOf(buf, 0, {"nul"}) = n
  BY <1>2, <1>3, FirstOfIs
<1>5. HasNul(buf, 0)
  BY <1>2 DEF HasNul
<1> QED BY <1>1, <1>4, <1>5

\* shell_parse_command finds the words of the line, as many as it has room for.
LEMMA StartsMatch ==
    ASSUME NEW buf, NEW line, Filled(buf, line)
    PROVE  \E open \in BOOLEAN :
              /\ Matches(line, Len(line), open, Words(line), WordStarts(buf))
              /\ Words(line) \in Seq(Text) /\ WordStarts(buf) \in Seq(Nat)
<1>1. PICK n : n = Len(line)
  OBVIOUS
<1>2. /\ n \in 0 .. BufferSize - 1 /\ n \in Nat /\ BufferSize \in Nat
      /\ line \in Seq(Letter) /\ \A i \in 1 .. n : line[i] \in Letter /\ buf[i - 1] = line[i]
  <2>1. n \in 0 .. BufferSize - 1 /\ line \in Seq(Letter) /\ BufferSize \in Nat
    BY <1>1, BufferAssumption DEF Filled
  <2>2. ASSUME NEW i \in 1 .. n PROVE line[i] \in Letter /\ buf[i - 1] = line[i]
    <3>1. i - 1 \in 0 .. n - 1 /\ (i - 1) + 1 = i
      BY <2>1
    <3> QED BY <3>1, <2>1, <1>1 DEF Filled
  <2> QED BY <2>1, <2>2
<1>3. HasNul(buf, 0) /\ FirstOf(buf, 0, {"nul"}) = n
  BY <1>1, FilledEnd
<1>4. PICK g : StartWalk(g, buf)
  BY <1>3, StartsWalk
<1>5. PICK w : WordWalk(w, line)
  BY <1>2, WordWalks
<1>6. /\ w \in [0 .. n -> Split] /\ w[0] = NoWords /\ Words(line) = w[n].words
      /\ \A k \in 1 .. n : w[k] = WordStep(w[k - 1], line[k])
  BY <1>1, <1>5 DEF WordWalk
<1>7. /\ g[0] = << >> /\ WordStarts(buf) = g[BufferSize]
      /\ \A k \in 1 .. BufferSize :
            g[k] = IF IsStart(buf, k - 1) /\ Len(g[k - 1]) < ShellMaxArgs
                   THEN Append(g[k - 1], k - 1) ELSE g[k - 1]
  BY <1>4 DEF StartWalk
<1>8. \A k \in 0 .. BufferSize : g[k] \in Seq(Nat)
  <2> SUFFICES ASSUME NEW k \in 0 .. BufferSize PROVE g[k] \in Seq(Nat)
    OBVIOUS
  <2>1. g[k] \in Seq(0 .. n - 1)
    BY <1>3, <1>4 DEF StartWalk
  <2>2. PICK P : P = 0 .. n - 1
    OBVIOUS
  <2>3. \A x \in P : x \in Nat
    BY <2>2, <1>2
  <2>4. g[k] \in Seq(P)
    BY <2>1, <2>2
  <2> QED BY <2>3, <2>4
<1>9. \A k \in 0 .. n : w[k].open \in BOOLEAN /\ w[k].words \in Seq(Text) /\ (w[k].open => w[k].words # << >>)
  BY <1>6 DEF Split
<1>10. ASSUME NEW k \in 1 .. n
       PROVE  IsStart(buf, k - 1) <=> ~IsBlank(line[k]) /\ (k - 1 # 0 => IsBlank(line[k - 1]))
  <2>1. buf[k - 1] = line[k] /\ k - 1 < n /\ (k - 1 > 0 <=> k - 1 # 0)
    BY <1>2
  <2>2. k - 1 # 0 => buf[(k - 1) - 1] = line[k - 1]
    <3>1. k - 1 # 0 => k - 1 \in 1 .. n
      BY <1>2
    <3> QED BY <3>1, <1>2
  <2> QED BY <2>1, <2>2, <1>3 DEF IsStart
<1> DEFINE R == {k \in 0 .. n : Matches(line, k, w[k].open, w[k].words, g[k])}
<1>11. 0 \in R
  <2>1. w[0].open = FALSE /\ w[0].words = << >>
    BY <1>6 DEF NoWords
  <2>2. ShellMaxArgs \in Nat \ {0} /\ Len(<< >>) = 0
    BY BufferAssumption
  <2>3. Len(g[0]) = 0 /\ 1 .. 0 = {} /\ 0 < ShellMaxArgs
    BY <2>2, <1>7
  <2>4. Matches(line, 0, FALSE, << >>, g[0])
    BY <2>2, <2>3 DEF Matches
  <2>5. Matches(line, 0, w[0].open, w[0].words, g[0])
    BY <2>1, <2>4, Zenon
  <2> QED BY <2>5, <1>2
<1>12. ASSUME NEW k \in 1 .. n, k - 1 \in R PROVE k \in R
  <2>1. PICK v, o, ts, s, c : v = w[k - 1] /\ o = v.open /\ ts = v.words /\ s = g[k - 1] /\ c = line[k]
    OBVIOUS
  <2>2. /\ k \in Nat \ {0} /\ k - 1 \in 0 .. n /\ k - 1 \in 0 .. BufferSize /\ k \in 1 .. BufferSize /\ k \in 0 .. n
        /\ c \in Letter
    BY <2>1, <1>2
  <2>3. v \in Split /\ o \in BOOLEAN /\ ts \in Seq(Text) /\ (o => ts # << >>) /\ s \in Seq(Nat)
    BY <2>1, <2>2, <1>6, <1>8, <1>9
  <2>4. Matches(line, k - 1, o, ts, s)
    BY <2>1, <1>12
  <2>5. IF k - 1 = 0 THEN ~o ELSE (o <=> ~IsBlank(line[k - 1]))
    BY <2>4 DEF Matches
  <2>6. w[k] = WordStep(v, c)
    BY <2>1, <1>6
  <2>7. g[k] = IF IsStart(buf, k - 1) /\ Len(s) < ShellMaxArgs THEN Append(s, k - 1) ELSE s
    BY <2>1, <2>2, <1>7
  <2>8. CASE IsBlank(c)
    <3>1. w[k].open = FALSE /\ w[k].words = ts
      BY <2>1, <2>2, <2>3, <2>6, <2>8, WordCases
    <3>2. g[k] = s
      BY <2>1, <2>7, <2>8, <1>10
    <3>3. Matches(line, k, FALSE, ts, s)
      BY <2>1, <2>2, <2>3, <2>4, <2>8, MatchBlank
    <3> QED BY <3>1, <3>2, <3>3, <2>2
  <2>9. CASE ~IsBlank(c) /\ o
    <3>1. w[k].open = TRUE /\ w[k].words = [ts EXCEPT ![Len(ts)] = Append(ts[Len(ts)], line[k])]
      <4>1. WordStep(v, c) = [open |-> TRUE,
                words |-> [ts EXCEPT ![Len(ts)] = Append(ts[Len(ts)], c)]]
        BY <2>1, <2>2, <2>3, <2>9, WordCases
      <4>2. PICK us : us = [ts EXCEPT ![Len(ts)] = Append(ts[Len(ts)], line[k])]
        OBVIOUS
      <4>3. w[k] = [open |-> TRUE, words |-> us]
        BY <4>1, <4>2, <2>1, <2>6
      <4>4. w[k].open = TRUE /\ w[k].words = us
        BY <4>3
      <4> QED BY <4>2, <4>4
    <3>2. g[k] = s
      BY <2>5, <2>7, <2>9, <1>10
    <3>3. Matches(line, k - 1, TRUE, ts, s)
      <4>1. o = TRUE
        BY <2>3, <2>9
      <4> QED BY <4>1, <2>4
    <3>4. Matches(line, k, TRUE, [ts EXCEPT ![Len(ts)] = Append(ts[Len(ts)], line[k])], s)
      BY <3>3, <2>1, <2>2, <2>3, <2>9, MatchGoesOn
    <3> QED BY <3>1, <3>2, <3>4, <2>2
  <2>10. CASE ~IsBlank(c) /\ ~o
    <3>1. w[k].open = TRUE /\ w[k].words = Append(ts, <<line[k]>>)
      <4>1. WordStep(v, c) = [open |-> TRUE, words |-> Append(ts, <<c>>)]
        BY <2>1, <2>2, <2>3, <2>10, WordCases
      <4> QED BY <4>1, <2>1, <2>6
    <3>2. g[k] = IF Len(s) < ShellMaxArgs THEN Append(s, k - 1) ELSE s
      <4>1. IsStart(buf, k - 1)
        BY <2>1, <2>5, <2>10, <1>10
      <4> QED BY <4>1, <2>7
    <3>3. Matches(line, k - 1, FALSE, ts, s)
      <4>1. o = FALSE
        BY <2>3, <2>10
      <4> QED BY <4>1, <2>4
    <3>4. Matches(line, k, TRUE, Append(ts, <<line[k]>>), IF Len(s) < ShellMaxArgs THEN Append(s, k - 1) ELSE s)
      BY <3>3, <2>1, <2>2, <2>3, <2>10, MatchBegins
    <3> QED BY <3>1, <3>2, <3>4, <2>2
  <2> QED BY <2>3, <2>8, <2>9, <2>10
<1>13. n \in R
  <2> HIDE DEF R
  <2>1. \A k \in 0 .. n : k \in R
    BY <1>2, <1>11, <1>12, WalkKeeps
  <2> QED BY <2>1, <1>2
<1>14. WordStarts(buf) = g[n]
  <2> DEFINE Q == {k \in 0 .. BufferSize : k >= n => g[k] = g[n]}
  <2>1. 0 \in Q
    BY <1>2
  <2>2. ASSUME NEW k \in 1 .. BufferSize, k - 1 \in Q PROVE k \in Q
    <3>1. CASE k <= n
      BY <3>1, <1>2
    <3>2. CASE k > n
      <4>1. k - 1 >= n /\ ~(k - 1 < n) /\ k \in 0 .. BufferSize
        BY <3>2, <1>2
      <4>2. g[k] = g[k - 1]
        BY <4>1, <1>3, <1>7 DEF IsStart
      <4> QED BY <4>1, <4>2, <2>2
    <3> QED BY <3>1, <3>2, <1>2
  <2>3. BufferSize \in Q
    <3> HIDE DEF Q
    <3>1. \A k \in 0 .. BufferSize : k \in Q
      BY <1>2, <2>1, <2>2, WalkKeeps
    <3> QED BY <3>1, <1>2
  <2> QED BY <2>3, <1>2, <1>7
<1>15. /\ w[n].open \in BOOLEAN /\ Matches(line, n, w[n].open, Words(line), WordStarts(buf))
       /\ Words(line) \in Seq(Text) /\ WordStarts(buf) \in Seq(Nat)
  <2>1. n \in 0 .. n /\ n \in 0 .. BufferSize
    BY <1>2
  <2> QED BY <2>1, <1>6, <1>8, <1>9, <1>13, <1>14
<1> QED BY <1>1, <1>15

FirstWords(line) ==
    LET all == Words(line)
    IN  SubSeq(all, 1, IF Len(all) < ShellMaxArgs THEN Len(all) ELSE ShellMaxArgs)

\* The words handed to a command are those of the line.
LEMMA ArgvIs ==
    ASSUME NEW line, Filled(shell_input_buffer, line)
    PROVE  Argv = FirstWords(line) /\ Argv \in Seq(Text)
<1>1. PICK buf, n, s, ts : /\ buf = shell_input_buffer /\ n = Len(line)
                           /\ s = WordStarts(buf) /\ ts = Words(line)
  OBVIOUS
<1>2. PICK open \in BOOLEAN : Matches(line, n, open, ts, s) /\ ts \in Seq(Text) /\ s \in Seq(Nat)
  BY <1>1, StartsMatch
<1>3. /\ Len(s) = IF Len(ts) < ShellMaxArgs THEN Len(ts) ELSE ShellMaxArgs
      /\ \A j \in 1 .. Len(s) :
            /\ WordAt(line, s[j], ts[j])
            /\ IF j = Len(ts) /\ open THEN s[j] + Len(ts[j]) = n ELSE Ended(line, n, s[j], ts[j])
  BY <1>2 DEF Matches
<1>4. /\ Len(s) <= Len(ts) /\ Len(ts) \in Nat /\ Len(s) \in Nat
      /\ \A j \in 1 .. Len(s) : j \in 1 .. Len(ts) /\ s[j] \in Nat /\ ts[j] \in Text /\ Len(ts[j]) \in Nat
  BY <1>2, <1>3, MatchTypes
<1>5. /\ buf \in Buffer /\ n \in 0 .. BufferSize - 1 /\ n \in Nat /\ BufferSize \in Nat /\ buf[n] = "nul"
      /\ \A i \in 1 .. n : line[i] \in Letter
      /\ \A k \in 0 .. n - 1 : buf[k] = line[k + 1]
  BY <1>1, BufferAssumption DEF Filled
<1>50. n \in Nat /\ BufferSize \in Nat /\ n <= BufferSize - 1
  BY <1>5
<1> DEFINE Stop == {"nul", " ", "tab"}
           ends == {FirstOf(buf, s[k], Stop) : k \in 1 .. Len(s)}
<1>6. ASSUME NEW j \in 1 .. Len(s)
      PROVE  LET a == s[j]
                 e == s[j] + Len(ts[j])
             IN  /\ a \in Nat /\ e \in a .. BufferSize - 1 /\ FirstOf(buf, a, Stop) = e /\ buf[e] \in Stop
                 /\ \A x \in a .. e - 1 : buf[x] = ts[j][x - a + 1] /\ buf[x] \notin Stop
  <2>1. PICK a, u, l, e : a = s[j] /\ u = ts[j] /\ l = Len(u) /\ e = a + l
    OBVIOUS
  <2>2. a \in Nat /\ l \in Nat /\ e \in Nat /\ u \in Text
    BY <2>1, <1>4
  <2>3. e <= n
    BY <2>1, <2>2, <1>3, <1>5 DEF Ended
  <2>4. buf[e] \in Stop
    <3>1. CASE e = n
      BY <3>1, <1>5
    <3>2. CASE e # n
      <4>1. IsBlank(line[e + 1])
        BY <3>2, <2>1, <1>3 DEF Ended
      <4>2. buf[e] = line[e + 1]
        BY <3>2, <2>2, <2>3, <1>5
      <4> QED BY <4>1, <4>2 DEF IsBlank
    <3> QED BY <3>1, <3>2
  <2>5. ASSUME NEW x \in a .. e - 1 PROVE buf[x] = u[x - a + 1] /\ buf[x] \notin Stop
    <3>1. x - a + 1 \in 1 .. l /\ a + (x - a + 1) = x + 1 /\ x \in 0 .. n - 1 /\ x + 1 \in 1 .. n
      <4>1. e = a + l
        BY <2>1
      <4> QED BY ONLY <4>1, <2>2, <2>3, <1>50, x \in a .. e - 1
    <3>2. WordAt(line, a, u)
      BY <2>1, <1>3
    <3>3. line[x + 1] = u[x - a + 1] /\ ~IsBlank(u[x - a + 1])
      BY <3>1, <3>2, <2>1 DEF WordAt
    <3>4. buf[x] = line[x + 1] /\ line[x + 1] # "nul"
      BY <3>1, <1>5 DEF Letter
    <3> QED BY <3>3, <3>4 DEF IsBlank
  <2>6. e \in a .. BufferSize - 1
    BY <2>1, <2>2, <2>3, <1>5
  <2>7. FirstOf(buf, a, Stop) = e
    <3> HIDE DEF Stop
    <3> QED BY <2>2, <2>4, <2>5, <2>6, FirstOfIs
  <2> QED BY <2>1, <2>2, <2>4, <2>5, <2>6, <2>7
<1>7. PICK new : new = Parsed(buf)
  OBVIOUS
<1>8. new = [e \in DOMAIN buf |-> IF e \in ends THEN "nul" ELSE buf[e]]
  BY <1>1, <1>7, Zenon DEF Parsed
<1>9. DOMAIN buf = 0 .. BufferSize - 1
  BY <1>5 DEF Buffer
<1>10. \A e \in ends : buf[e] \in Stop
  <2> SUFFICES ASSUME NEW k \in 1 .. Len(s) PROVE buf[FirstOf(buf, s[k], Stop)] \in Stop
    OBVIOUS
  <2> HIDE DEF Stop
  <2> QED BY <1>6
<1>11. ASSUME NEW j \in 1 .. Len(s) PROVE BufString(new, s[j]) = ts[j]
  <2>1. PICK a, u, l, e : a = s[j] /\ u = ts[j] /\ l = Len(u) /\ e = a + l
    OBVIOUS
  <2>2. a \in Nat /\ l \in Nat /\ e \in Nat /\ u \in Text
    BY <2>1, <1>4
  <2>3. /\ e \in a .. BufferSize - 1 /\ FirstOf(buf, a, Stop) = e
        /\ \A x \in a .. e - 1 : buf[x] = u[x - a + 1] /\ buf[x] \notin Stop
    <3> HIDE DEF Stop
    <3> QED BY <2>1, <1>6
  <2>30. e \in a .. BufferSize - 1
    BY <2>3
  <2>4. e \in ends
    <3> HIDE DEF Stop
    <3> QED BY <2>1, <2>3
  <2>5. new[e] = "nul"
    <3>1. e \in 0 .. BufferSize - 1
      BY ONLY <2>2, <2>30, <1>50
    <3> HIDE DEF ends
    <3> QED BY <3>1, <2>4, <1>8, <1>9
  <2>6. ASSUME NEW x \in a .. e - 1 PROVE new[x] = u[x - a + 1] /\ new[x] # "nul"
    <3>1. x \in 0 .. BufferSize - 1
      BY ONLY <2>2, <2>30, <1>50, x \in a .. e - 1
    <3>2. buf[x] \notin Stop /\ buf[x] # "nul"
      BY <2>3
    <3>3. x \notin ends
      <4> HIDE DEF ends, Stop
      <4> QED BY <3>2, <1>10
    <3>4. new[x] = buf[x]
      <4> HIDE DEF ends
      <4> QED BY <3>1, <3>3, <1>8, <1>9
    <3> QED BY <3>2, <3>4, <2>3
  <2>7. FirstOf(new, a, {"nul"}) = e
    <3>1. PICK S : S = {"nul"}
      OBVIOUS
    <3>2. new[e] \in S /\ \A x \in a .. e - 1 : new[x] \notin S
      BY <3>1, <2>5, <2>6
    <3>3. FirstOf(new, a, S) = e
      BY ONLY <3>2, <2>2, <2>30, FirstOfIs
    <3> QED BY <3>1, <3>3
  <2>8. BufString(new, a) = [k \in 1 .. e - a |-> new[a + k - 1]]
    BY <2>7 DEF BufString
  <2>9. e - a = l
    BY <2>1, <2>2
  <2>10. ASSUME NEW k \in 1 .. l PROVE new[a + k - 1] = u[k]
    <3>1. a + k - 1 \in a .. e - 1 /\ (a + k - 1) - a + 1 = k
      BY <2>1, <2>2
    <3> QED BY <3>1, <2>6
  <2>11. u = [k \in 1 .. l |-> u[k]]
    BY <2>1, <2>2 DEF Text
  <2>12. [k \in 1 .. l |-> new[a + k - 1]] = [k \in 1 .. l |-> u[k]]
    BY <2>10
  <2> QED BY <2>1, <2>8, <2>9, <2>11, <2>12
<1>12. Argv = [k \in 1 .. Len(s) |-> BufString(new, s[k])]
  BY <1>1, <1>7, Zenon DEF Argv
<1>13. Argv = [k \in 1 .. Len(s) |-> ts[k]]
  BY <1>11, <1>12
<1>14. PICK m : m = Len(s)
  OBVIOUS
<1>15. SubSeq(ts, 1, m) = [k \in 1 .. m |-> ts[k]] /\ SubSeq(ts, 1, m) \in Seq(Text)
  <2>1. m \in 0 .. Len(ts) /\ ts \in Seq(Text)
    BY <1>2, <1>4, <1>14
  <2> QED BY <2>1
<1>16. FirstWords(line) = SubSeq(ts, 1, m)
  BY <1>1, <1>3, <1>14, Zenon DEF FirstWords
<1> QED BY <1>13, <1>14, <1>15, <1>16

-----------------------------------------------------------------------------
(* The words a program gets.                                                  *)

\* What makes ProgramGetsWords inductive: the buffer holds the line as it was
\* edited, also when it is full.
WordsInv ==
    /\ pc = "read" => /\ ShellLine \in Seq(Letter)
                      /\ \A k \in 0 .. index - 1 : shell_input_buffer[k] = ShellLine[k + 1]
    /\ pc = "run" => Filled(shell_input_buffer, ShellLine)
    /\ ProgramGetsWords

LEMMA LetterProps == \A c \in Printable : c \in Letter
  BY PrintableProps DEF Letter

\* The line while it is read.
LEMMA ReadingIs ==
    ASSUME ConsoleInv, LineInv, WordsInv, pc = "read"
    PROVE  /\ ShellLine \in Seq(Letter) /\ Len(ShellLine) = index /\ index \in Nat
           /\ \A k \in 0 .. index - 1 : shell_input_buffer[k] = ShellLine[k + 1]
           /\ shell_input_buffer \in Buffer /\ index < BufferSize - 1 /\ BufferSize \in Nat
           /\ typed \in Seq(Keys) /\ Edited(typed, BufferSize) \in Edit
<1>1. typed \in Seq(Keys) /\ Len(ShellLine) = index
  BY DEF LineInv, LineLen, ShellLine
<1>2. "bs" \in Keys
  BY DEF Keys
<1>3. Edited(typed, BufferSize) \in Edit
  BY <1>1, <1>2, EditedAppend
<1>4. ShellLine \in Seq(Letter) /\ \A k \in 0 .. index - 1 : shell_input_buffer[k] = ShellLine[k + 1]
  BY DEF WordsInv
<1>5. shell_input_buffer \in Buffer /\ index \in Nat /\ index < BufferSize - 1
  BY DEF ConsoleInv, BufferInv
<1>6. BufferSize \in Nat
  BY BufferAssumption
<1> QED BY <1>1, <1>3, <1>4, <1>5, <1>6

LEMMA WordsPrompt ==
    ASSUME WordsInv, ShowPrompt PROVE WordsInv'
<1>1. index' = 0 /\ typed' = << >> /\ pc' = "read"
  BY DEF ShowPrompt
<1>2. ShellLine' = << >>
  BY <1>1, EditedEmpty DEF ShellLine, NoKeys
<1>3. 0 .. index' - 1 = {}
  BY <1>1
<1> QED BY <1>1, <1>2, <1>3 DEF WordsInv, ProgramGetsWords

LEMMA WordsEnter ==
    ASSUME ConsoleInv, LineInv, WordsInv, ReadEnter PROVE WordsInv'
<1>1. /\ pc = "read" /\ pc' = "run" /\ typed' = typed
      /\ shell_input_buffer' = [shell_input_buffer EXCEPT ![index] = "nul"]
  BY DEF ReadEnter
<1>2. ShellLine' = ShellLine
  BY <1>1 DEF ShellLine
<1>3. PICK line, buf, new, n : /\ line = ShellLine /\ buf = shell_input_buffer
                               /\ new = shell_input_buffer' /\ n = index
  OBVIOUS
<1>4. /\ line \in Seq(Letter) /\ Len(line) = n /\ n \in Nat /\ n < BufferSize - 1 /\ BufferSize \in Nat
      /\ \A k \in 0 .. n - 1 : buf[k] = line[k + 1]
      /\ buf \in [0 .. BufferSize - 1 -> Char]
  BY <1>1, <1>3, ReadingIs DEF Buffer
<1>5. "nul" \in Char
  BY Letters
<1>6. new = [buf EXCEPT ![n] = "nul"]
  BY <1>1, <1>3
<1>7. new \in [0 .. BufferSize - 1 -> Char]
  BY <1>4, <1>5, <1>6
<1>8. n \in 0 .. BufferSize - 1 /\ new[n] = "nul"
  BY <1>4, <1>6
<1>9. ASSUME NEW k \in 0 .. n - 1 PROVE new[k] = line[k + 1]
  <2>1. k \in 0 .. BufferSize - 1 /\ k # n
    BY <1>4
  <2> QED BY <2>1, <1>4, <1>6
<1>10. Filled(new, line)
  BY <1>4, <1>7, <1>8, <1>9 DEF Filled, Buffer
<1>11. Filled(shell_input_buffer', ShellLine')
  BY <1>2, <1>3, <1>10
<1> QED BY <1>1, <1>11 DEF WordsInv, ProgramGetsWords

LEMMA WordsBack ==
    ASSUME ConsoleInv, LineInv, WordsInv, ReadBackspace PROVE WordsInv'
<1>1. /\ pc = "read" /\ pc' = "read" /\ typed' = Append(typed, "bs")
      /\ shell_input_buffer' = shell_input_buffer /\ index' = IF index > 0 THEN index - 1 ELSE index
  BY DEF ReadBackspace
<1>2. PICK e, line, n : e = Edited(typed, BufferSize) /\ line = ShellLine /\ n = index
  OBVIOUS
<1>3. /\ line \in Seq(Letter) /\ Len(line) = n /\ n \in Nat
      /\ \A k \in 0 .. n - 1 : shell_input_buffer[k] = line[k + 1]
      /\ typed \in Seq(Keys) /\ e \in Edit /\ line = e.line
  BY <1>1, <1>2, ReadingIs DEF ShellLine
<1>4. "bs" \in Keys
  BY DEF Keys
<1>5. ShellLine' = EditStep(e, "bs", BufferSize).line
  BY <1>1, <1>2, <1>3, <1>4, EditedAppend DEF ShellLine
<1>6. EditStep(e, "bs", BufferSize) = [done |-> e.done, line |-> SubSeq(e.line, 1, Len(e.line) - 1)]
  BY <1>3, EditCases
<1>7. PICK new : new = SubSeq(line, 1, n - 1)
  OBVIOUS
<1>8. ShellLine' = new
  BY <1>3, <1>5, <1>6, <1>7
<1>9. new \in Seq(Letter) /\ \A i \in 1 .. n - 1 : new[i] = line[i]
  BY <1>3, <1>7
<1>10. ASSUME NEW k \in 0 .. index' - 1 PROVE shell_input_buffer[k] = new[k + 1]
  <2>1. k \in 0 .. n - 1 /\ k + 1 \in 1 .. n - 1
    BY <1>1, <1>2, <1>3
  <2> QED BY <2>1, <1>3, <1>9
<1> QED BY <1>1, <1>8, <1>9, <1>10 DEF WordsInv, ProgramGetsWords

LEMMA WordsKey ==
    ASSUME ConsoleInv, LineInv, WordsInv, NEW c \in Printable, ReadChar(c) PROVE WordsInv'
<1>1. pc = "read" /\ typed' = Append(typed, c) /\ index' = index + 1
  BY DEF ReadChar
<1>2. PICK e, line, buf, n : /\ e = Edited(typed, BufferSize) /\ line = ShellLine
                             /\ n = index /\ buf = shell_input_buffer
  OBVIOUS
<1>3. /\ line \in Seq(Letter) /\ Len(line) = n /\ n \in Nat /\ n < BufferSize - 1 /\ BufferSize \in Nat
      /\ \A k \in 0 .. n - 1 : buf[k] = line[k + 1]
      /\ buf \in [0 .. BufferSize - 1 -> Char]
      /\ typed \in Seq(Keys) /\ e \in Edit /\ line = e.line
  BY <1>1, <1>2, ReadingIs DEF ShellLine, Buffer
<1>4. c \in Keys /\ c \in Letter /\ c \in Char
  BY LetterProps, PrintableProps DEF Keys
<1>5. ShellLine' = EditStep(e, c, BufferSize).line
  BY <1>1, <1>2, <1>3, <1>4, EditedAppend DEF ShellLine
<1>6. EditStep(e, c, BufferSize) =
         [done |-> e.done, line |-> IF Len(e.line) < BufferSize THEN Append(e.line, c) ELSE e.line]
  BY <1>3, EditCases
<1>7. PICK new : new = Append(line, c)
  OBVIOUS
<1>8. ShellLine' = new
  <2>1. Len(e.line) < BufferSize
    BY <1>3
  <2> QED BY <2>1, <1>3, <1>5, <1>6, <1>7
<1>9. new \in Seq(Letter) /\ Len(new) = n + 1 /\ new[n + 1] = c /\ \A i \in 1 .. n : new[i] = line[i]
  BY <1>3, <1>4, <1>7
<1>10. PICK one : one = [buf EXCEPT ![n] = c]
  OBVIOUS
<1>11. one \in [0 .. BufferSize - 1 -> Char] /\ \A k \in 0 .. n : one[k] = new[k + 1]
  <2>1. one \in [0 .. BufferSize - 1 -> Char]
    BY <1>3, <1>4, <1>10
  <2>2. ASSUME NEW k \in 0 .. n PROVE one[k] = new[k + 1]
    <3>1. k \in 0 .. BufferSize - 1
      BY <1>3
    <3>2. CASE k = n
      BY <3>1, <3>2, <1>3, <1>9, <1>10
    <3>3. CASE k # n
      <4>1. k \in 0 .. n - 1 /\ k + 1 \in 1 .. n
        BY <3>3, <1>3
      <4> QED BY <4>1, <3>1, <3>3, <1>3, <1>9, <1>10
    <3> QED BY <3>2, <3>3
  <2> QED BY <2>1, <2>2
<1>12. CASE n + 1 < BufferSize - 1
  <2>1. shell_input_buffer' = one /\ pc' = "read"
    BY <1>2, <1>10, <1>12 DEF ReadChar
  <2>2. ASSUME NEW k \in 0 .. index' - 1 PROVE one[k] = new[k + 1]
    <3>1. k \in 0 .. n
      BY <1>1, <1>2, <1>3
    <3> QED BY <3>1, <1>11
  <2> QED BY <2>1, <2>2, <1>8, <1>9 DEF WordsInv, ProgramGetsWords
<1>13. CASE ~(n + 1 < BufferSize - 1)
  <2>1. PICK two : two = [one EXCEPT ![n + 1] = "nul"]
    OBVIOUS
  <2>2. shell_input_buffer' = two /\ pc' = "run"
    <3>1. shell_input_buffer' = [buf EXCEPT ![n] = c, ![n + 1] = "nul"] /\ pc' = "run"
      BY <1>2, <1>13 DEF ReadChar
    <3>2. [buf EXCEPT ![n] = c, ![n + 1] = "nul"] = [one EXCEPT ![n + 1] = "nul"]
      BY <1>3, <1>10
    <3> QED BY <3>1, <3>2, <2>1
  <2>3. "nul" \in Char
    BY Letters
  <2>4. n + 1 \in 0 .. BufferSize - 1
    BY <1>3
  <2>5. two \in [0 .. BufferSize - 1 -> Char] /\ two[n + 1] = "nul"
    BY <2>1, <2>3, <2>4, <1>11
  <2>6. ASSUME NEW k \in 0 .. (n + 1) - 1 PROVE two[k] = new[k + 1]
    <3>1. k \in 0 .. n /\ k # n + 1 /\ k \in 0 .. BufferSize - 1
      BY <1>3
    <3> QED BY <3>1, <2>1, <1>11
  <2>7. Filled(two, new)
    BY <2>4, <2>5, <2>6, <1>9 DEF Filled, Buffer
  <2> QED BY <2>2, <2>7, <1>8 DEF WordsInv, ProgramGetsWords
<1> QED BY <1>12, <1>13

\* A program that starts finds its arguments.
LEMMA WordsExec ==
    ASSUME Filled(shell_input_buffer, ShellLine), NEW path, NEW args \in Seq(Text),
           ExecStarts(path, args), Len(Argv) # 0,
           args = IF Argv[1] \in DOMAIN CommandOf THEN Tail(Argv)
                  ELSE <<BinPath(Argv[1])>> \o Tail(Argv)
    PROVE  WordsInv'
<1>1. /\ pc' = "child" /\ typed' = typed /\ CopyOk(args, << >>)
      /\ stack' = BuildUserStack(args, << >>)
  BY DEF ExecStarts
<1>2. Holds(stack', args, << >>)
  <2>1. PICK none : none = << >>
    OBVIOUS
  <2>2. none \in Seq(Text)
    BY <2>1
  <2>3. Holds(BuildUserStack(args, none), args, none)
    BY <2>1, <2>2, <1>1, StackHolds
  <2> QED BY <2>1, <2>3, <1>1
<1>3. PICK line, ws : line = ShellLine /\ ws = Argv
  OBVIOUS
<1>4. ShellLine' = line
  BY <1>1, <1>3 DEF ShellLine
<1>5. ws = FirstWords(line) /\ ws # << >>
  <2>1. Argv = FirstWords(ShellLine) /\ Argv \in Seq(Text)
    BY ArgvIs
  <2> QED BY <2>1, <1>3
<1>6. args = IF ws[1] \in DOMAIN CommandOf THEN Tail(ws) ELSE <<BinPath(ws[1])>> \o Tail(ws)
  BY <1>3
<1>7. ProgramGetsWords'
  <2>1. PICK st : st = stack'
    OBVIOUS
  <2>2. Holds(st, IF ws[1] \in DOMAIN CommandOf THEN Tail(ws) ELSE <<BinPath(ws[1])>> \o Tail(ws), << >>)
    BY <2>1, <1>2, <1>6, Zenon
  <2> QED BY <2>1, <2>2, <1>4, <1>5, Zenon DEF ProgramGetsWords, FirstWords
<1> QED BY <1>1, <1>7 DEF WordsInv

LEMMA ArgsAre ==
    ASSUME Argv \in Seq(Text), Len(Argv) # 0
    PROVE  Tail(Argv) \in Seq(Text) /\ <<BinPath(Argv[1])>> \o Tail(Argv) \in Seq(Text)
<1>1. PICK ws : ws = Argv
  OBVIOUS
<1>2. ws \in Seq(Text) /\ ws # << >> /\ Tail(ws) \in Seq(Text) /\ ws[1] \in Text
  BY <1>1
<1>3. PICK slash, name : slash = "/" /\ name = ws[1]
  OBVIOUS
<1>4. slash \in Letter /\ name \in Seq(Letter)
  <2>1. "/" \in Char
    BY Letters
  <2>2. "/" # "nul"
    OBVIOUS
  <2> QED BY <2>1, <2>2, <1>2, <1>3 DEF Letter, Text
<1>5. <<slash>> \o name \in Seq(Letter)
  BY ONLY <1>4
<1>6. PICK path : path = BinPath(ws[1]) /\ path \in Text
  BY <1>3, <1>5 DEF BinPath, Text
<1>7. <<path>> \o Tail(ws) \in Seq(Text)
  BY ONLY <1>2, <1>6
<1> QED BY <1>1, <1>2, <1>6, <1>7

LEMMA WordsRun ==
    ASSUME Filled(shell_input_buffer, ShellLine), RunExec \/ RunProgram
    PROVE  WordsInv'
<1>1. Argv \in Seq(Text)
  BY ArgvIs
<1>2. ASSUME pc' = "prompt" PROVE WordsInv'
  BY <1>2 DEF WordsInv, ProgramGetsWords
<1>3. CASE RunExec
  <2>1. Len(Argv) # 0 /\ Argv[1] \in DOMAIN CommandOf
    BY <1>3 DEF RunExec, Kind
  <2>2. CASE Done
    BY <2>2, <1>2 DEF Done
  <2>3. CASE ExecStarts(Argv[2], Tail(Argv))
    BY <2>1, <2>3, <1>1, ArgsAre, WordsExec
  <2> QED BY <2>2, <2>3, <1>3 DEF RunExec
<1>4. CASE RunProgram
  <2>1. Len(Argv) # 0 /\ Argv[1] \notin DOMAIN CommandOf
    BY <1>4, BufferAssumption DEF RunProgram, Kind
  <2>2. CASE Done
    BY <2>2, <1>2 DEF Done
  <2>3. CASE ExecStarts(BinPath(Argv[1]), <<BinPath(Argv[1])>> \o Tail(Argv))
    BY <2>1, <2>3, <1>1, ArgsAre, WordsExec
  <2> QED BY <2>2, <2>3, <1>4 DEF RunProgram
<1> QED BY <1>3, <1>4

THEOREM WordsInvariance == Spec => []WordsInv
<1>1. Init => WordsInv
  BY DEF Init, WordsInv, ProgramGetsWords
<1>2. ConsoleInv /\ LineInv /\ WordsInv /\ [Next]_vars => WordsInv'
  <2> SUFFICES ASSUME ConsoleInv, LineInv, WordsInv, [Next]_vars PROVE WordsInv'
    OBVIOUS
  <2>1. CASE UNCHANGED vars
    <3>1. UNCHANGED <<pc, stack, typed, index, shell_input_buffer>>
      BY <2>1 DEF vars, shellVars, childVars
    <3> QED BY <3>1 DEF WordsInv, ProgramGetsWords, ShellLine, Filled, Buffer
  <2>2. CASE RunNothing \/ RunText \/ RunClear \/ RunEcho \/ RunExit \/ RunReboot \/ ChildExit
    <3>1. pc' \in {"prompt", "stopped"}
      BY <2>2 DEF RunNothing, RunText, RunClear, RunEcho, RunExit, RunReboot, ChildExit, Done
    <3> QED BY <3>1 DEF WordsInv, ProgramGetsWords
  <2>3. CASE RunExec \/ RunProgram
    <3>1. Filled(shell_input_buffer, ShellLine)
      BY <2>3 DEF RunExec, RunProgram, WordsInv
    <3> QED BY <2>3, <3>1, WordsRun
  <2>4. CASE ProgramSteps /\ ~ChildExit
    <3>1. /\ pc \in {"child", "line"} /\ pc' \in {"child", "line"} /\ UNCHANGED <<stack, typed>>
      BY <2>4 DEF ProgramSteps, ChildWrite, ChildRead, LineEnter, LineBackspace, LineChar, shellVars, childVars
    <3>2. ProgramGetsWords'
      BY <3>1 DEF WordsInv, ProgramGetsWords, ShellLine
    <3> QED BY <3>1, <3>2 DEF WordsInv
  <2>5. CASE Next
    BY <2>2, <2>3, <2>4, <2>5, WordsPrompt, WordsEnter, WordsBack, WordsKey DEF Next, ProgramSteps
  <2> QED BY <2>1, <2>5
<1> QED BY <1>1, <1>2, ConsoleInvariance, LineInvariance, PTL DEF Spec

\* For lines, buffers and stacks of any size: from the keys, through the shell's
\* buffer, its splitting in place, copy_strings and elf_build_user_stack, a
\* program finds the words of the line as it was edited.
THEOREM WordsHold == Spec => []ProgramGetsWords
<1>1. WordsInv => ProgramGetsWords
  BY DEF WordsInv
<1> QED BY <1>1, WordsInvariance, PTL
=============================================================================
