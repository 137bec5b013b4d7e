------------------------------ MODULE Terminal ------------------------------
(***************************************************************************)
(* The screen of kernel/arch/i386/tty.c, as functions from terminal to       *)
(* terminal, and the page of paper it stands for: a page is never scrolled,   *)
(* the screen shows its last rows.  Colours are left out.                     *)
(***************************************************************************)
EXTENDS Integers, Sequences

CONSTANTS
    Width,    \* VGA_WIDTH
    Height    \* VGA_HEIGHT

ASSUME ScreenAssumption == Width \in Nat \ {0} /\ Height \in Nat \ {0}

Columns == 0 .. Width - 1
Rows == 0 .. Height - 1
BlankRow == [x \in Columns |-> " "]

\* terminal_initialize().  cells is terminal_buffer.
terminal_initialize == [row |-> 0, column |-> 0, cells |-> [y \in Rows |-> BlankRow]]

terminal_putentryat(t, c, x) == [t EXCEPT !.cells[t.row][x] = c]

\* Mutant: the last row stays after scrolling.
MutantScroll(cells) == [y \in Rows |-> IF y + 1 = Height THEN cells[y] ELSE cells[y + 1]]

terminal_scroll(cells) == [y \in Rows |-> IF y + 1 = Height THEN BlankRow ELSE cells[y + 1]]

terminal_newline(t) ==
    IF t.row + 1 = Height
    THEN [t EXCEPT !.column = 0, !.cells = terminal_scroll(@)]
    ELSE [t EXCEPT !.column = 0, !.row = @ + 1]

\* Mutant: a backspace moves the cursor and leaves the character.
MutantBackspace(t) == IF t.column > 0 THEN [t EXCEPT !.column = @ - 1] ELSE t

\* The branch of terminal_putchar for '\b'.
Backspace(t) ==
    IF t.column > 0
    THEN [terminal_putentryat(t, " ", t.column - 1) EXCEPT !.column = @ - 1]
    ELSE t

terminal_putchar(t, c) ==
    CASE c = "nl" -> terminal_newline(t)
      [] c = "cr" -> [t EXCEPT !.column = 0]
      [] c = "bs" -> Backspace(t)
      [] OTHER ->
            LET u == IF t.column = Width THEN terminal_newline(t) ELSE t
            IN  [terminal_putentryat(u, c, u.column) EXCEPT !.column = @ + 1]

terminal_write(t, data) ==
    LET after[n \in 0 .. Len(data)] ==
            IF n = 0 THEN t ELSE terminal_putchar(after[n - 1], data[n])
    IN  after[Len(data)]

-----------------------------------------------------------------------------
(* The page: all rows since the screen was cleared, and the column of the     *)
(* next character in the last one.                                          *)
EmptyPage == [lines |-> <<BlankRow>>, column |-> 0]

PageRow(p) == p.lines[Len(p.lines)]
NewLine(p) == [lines |-> Append(p.lines, BlankRow), column |-> 0]
SetChar(p, c, x) == [p EXCEPT !.lines[Len(p.lines)][x] = c]

PagePut(p, c) ==
    CASE c = "nl" -> NewLine(p)
      [] c = "cr" -> [p EXCEPT !.column = 0]
      [] c = "bs" /\ p.column = 0 -> p
      [] c = "bs" /\ p.column > 0 -> [SetChar(p, " ", p.column - 1) EXCEPT !.column = @ - 1]
      [] p.column = Width /\ c \notin {"nl", "cr", "bs"} ->
            [SetChar(NewLine(p), c, 0) EXCEPT !.column = 1]
      [] p.column < Width /\ c \notin {"nl", "cr", "bs"} ->
            [SetChar(p, c, p.column) EXCEPT !.column = @ + 1]

PageWrite(p, data) ==
    LET after[n \in 0 .. Len(data)] ==
            IF n = 0 THEN p ELSE PagePut(after[n - 1], data[n])
    IN  after[Len(data)]

\* The screen t is the end of the page p.
Shows(t, p) ==
    LET n == Len(p.lines)
        first == IF n > Height THEN n - Height ELSE 0
    IN  /\ t.column = p.column
        /\ t.row = n - first - 1
        /\ \A y \in Rows : t.cells[y] = IF y <= t.row THEN p.lines[first + y + 1] ELSE BlankRow
=============================================================================
