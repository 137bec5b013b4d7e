-------------------------------- MODULE Shell --------------------------------
(***************************************************************************)
(* From the keyboard to a program and back: userland/shell.c reads a line and *)
(* splits it, execv brings the words to the stack of the program, and the     *)
(* program reads its own lines through libc/newlib/newlib_syscalls.c.  Both    *)
(* editors echo on the terminal.                                            *)
(*                                                                         *)
(* Keys come one at a time and in order (module Keyboard); a poll that finds   *)
(* none changes nothing.  The shell's memory is as before when the program     *)
(* ends (module ExecWait).  Wording is left out: a message is any of Texts.   *)
(***************************************************************************)
EXTENDS Terminal, UserStack

CONSTANTS
    BufferSize,    \* SHELL_BUFFER_SIZE
    ShellMaxArgs,  \* SHELL_MAX_ARGS
    LineSize,      \* size of newlib's line_buf
    Printable,     \* printable characters that are typed
    CommandOf,     \* function from the names of built-in commands to their kinds
    Programs,      \* paths of the programs
    Texts,         \* what is printed otherwise, sequences of characters
    ReadLens,      \* lengths of the program's reads
    MaxKeys,       \* bound on the keys typed
    MaxWrites      \* bound on the program's writes

ASSUME BufferAssumption ==
    /\ BufferSize \in Nat \ {0, 1} /\ LineSize \in Nat \ {0}
    /\ ShellMaxArgs \in Nat \ {0} /\ ReadLens \subseteq Nat
    /\ Printable \subseteq STRING \ {"nl", "cr", "bs", "nul"}
    /\ Texts \subseteq Seq(STRING)
    /\ \A name \in DOMAIN CommandOf : CommandOf[name] # "program"

VARIABLES
    pc,        \* prompt, read, run: the shell; child, line: the program; stopped
    tty,       \* the terminal
    shell_input_buffer, index,
    stack,     \* user stack of the program
    line_buf,  \* of the program: the first line_len characters
    line_pos,
    want,      \* length of the read under way
    keys, writes,   \* counters for the bounds
    page,      \* history: the page the terminal shows
    typed,     \* history: keys of the shell's line
    base,      \* history: column after the prompt
    told,      \* history: keys the program took
    got        \* history: characters its reads returned

shellVars == <<shell_input_buffer, index, typed, base>>
childVars == <<stack, line_buf, line_pos, want, told, got>>
screenVars == <<tty, page>>
vars == <<pc, screenVars, shellVars, childVars, keys, writes>>

Prompt == <<">", " ">>

\* write(1, ...) and printf of the shell, which is unbuffered.
Output(data) == tty' = terminal_write(tty, data) /\ page' = PageWrite(page, data)

Init ==
    /\ pc = "prompt"
    /\ \E s \in Texts :
          tty = terminal_write(terminal_initialize, s) /\ page = PageWrite(EmptyPage, s)
    /\ shell_input_buffer = [i \in 0 .. BufferSize - 1 |-> "nul"] /\ index = 0
    /\ typed = << >> /\ base = 0
    /\ stack = [sp |-> StackSize, words |-> << >>, bytes |-> [a \in 0 .. StackSize - 1 |-> "old"]]
    /\ line_buf = << >> /\ line_pos = 0 /\ want = 0 /\ told = << >> /\ got = << >>
    /\ keys = 0 /\ writes = 0

-----------------------------------------------------------------------------
(* shell_read_line                                                          *)
ShowPrompt ==
    /\ pc = "prompt" /\ pc' = "read"
    /\ Output(Prompt)
    /\ index' = 0 /\ typed' = << >> /\ base' = tty'.column
    /\ UNCHANGED <<shell_input_buffer, childVars, keys, writes>>

TakeKey == keys < MaxKeys /\ keys' = keys + 1 /\ UNCHANGED writes

\* Mutant: no NUL after the line.
MutantReadEnter ==
    /\ pc = "read" /\ TakeKey
    /\ UNCHANGED shell_input_buffer
    /\ Output(<<"nl">>)
    /\ pc' = "run"
    /\ UNCHANGED <<index, typed, base, childVars>>

ReadEnter ==
    /\ pc = "read" /\ TakeKey
    /\ shell_input_buffer' = [shell_input_buffer EXCEPT ![index] = "nul"]
    /\ Output(<<"nl">>)
    /\ pc' = "run"
    /\ UNCHANGED <<index, typed, base, childVars>>

ReadBackspace ==
    /\ pc = "read" /\ TakeKey
    /\ typed' = Append(typed, "bs")
    /\ IF index > 0 THEN index' = index - 1 /\ Output(<<"bs">>)
       ELSE UNCHANGED <<index, screenVars>>
    /\ UNCHANGED <<pc, shell_input_buffer, base, childVars>>

\* The loop ends when there is just room for the NUL.
ReadChar(c) ==
    /\ pc = "read" /\ TakeKey
    /\ typed' = Append(typed, c)
    /\ index' = index + 1
    /\ Output(<<c>>)
    /\ IF index + 1 < BufferSize - 1
       THEN /\ shell_input_buffer' = [shell_input_buffer EXCEPT ![index] = c]
            /\ UNCHANGED pc
       ELSE /\ shell_input_buffer' = [shell_input_buffer EXCEPT ![index] = c, ![index + 1] = "nul"]
            /\ pc' = "run"
    /\ UNCHANGED <<base, childVars>>

-----------------------------------------------------------------------------
(* shell_parse_command works in the buffer: argv points to the first         *)
(* character of each word, and the blank after a word becomes its NUL.        *)
IsBlank(c) == c \in {" ", "tab"}

\* First position from p on with a character of S.
FirstOf(buf, p, S) ==
    CHOOSE e \in p .. BufferSize - 1 : buf[e] \in S /\ \A a \in p .. e - 1 : buf[a] \notin S

BufString(buf, p) == [k \in 1 .. FirstOf(buf, p, {"nul"}) - p |-> buf[p + k - 1]]

\* Positions of the first ShellMaxArgs words.
WordStarts(buf) ==
    LET isStart(p) ==
            /\ p < FirstOf(buf, 0, {"nul"})
            /\ ~IsBlank(buf[p])
            /\ p > 0 => IsBlank(buf[p - 1])
        before[p \in 0 .. BufferSize] ==
            IF p = 0 THEN << >>
            ELSE IF isStart(p - 1) /\ Len(before[p - 1]) < ShellMaxArgs
            THEN Append(before[p - 1], p - 1)
            ELSE before[p - 1]
    IN  before[BufferSize]

Parsed(buf) ==
    LET ends == {FirstOf(buf, WordStarts(buf)[k], {"nul", " ", "tab"}) :
                    k \in 1 .. Len(WordStarts(buf))}
    IN  [e \in DOMAIN buf |-> IF e \in ends THEN "nul" ELSE buf[e]]

Argv ==
    LET starts == WordStarts(shell_input_buffer)
    IN  [k \in 1 .. Len(starts) |-> BufString(Parsed(shell_input_buffer), starts[k])]

-----------------------------------------------------------------------------
(* shell_execute_command                                                    *)
Kind ==
    IF Len(Argv) = 0 THEN "nothing"
    ELSE IF Argv[1] \in DOMAIN CommandOf THEN CommandOf[Argv[1]] ELSE "program"

\* The shell goes on with its loop.
Done ==
    /\ pc' = "prompt"
    /\ shell_input_buffer' = Parsed(shell_input_buffer)
    /\ UNCHANGED <<index, typed, base, childVars, keys, writes>>

RunNothing == pc = "run" /\ Kind = "nothing" /\ Done /\ UNCHANGED screenVars

\* Commands that print, as help and uname do.  Those that work on files make
\* calls of module Ramfs and print as well.
RunText == pc = "run" /\ Kind = "text" /\ Done /\ \E s \in Texts : Output(s)

RunClear ==
    /\ pc = "run" /\ Kind = "clear" /\ Done
    /\ tty' = terminal_initialize /\ page' = EmptyPage

\* cmd_echo: the words with one blank between them.
EchoText ==
    LET argc == Len(Argv)
        text[i \in 0 .. argc - 1] ==
            IF i = 0 THEN << >>
            ELSE text[i - 1] \o Argv[i + 1] \o (IF i < argc - 1 THEN <<" ">> ELSE << >>)
    IN  text[argc - 1] \o <<"nl">>

RunEcho == pc = "run" /\ Kind = "echo" /\ Done /\ Output(EchoText)

\* cmd_exit ends the shell's task.
RunExit ==
    /\ pc = "run" /\ Kind = "exit"
    /\ pc' = "stopped"
    /\ UNCHANGED <<screenVars, shellVars, childVars, keys, writes>>

\* cmd_reboot resets the machine.
RunReboot ==
    /\ pc = "run" /\ Kind = "reboot"
    /\ pc' = "stopped"
    /\ \E s \in Texts : Output(s)
    /\ UNCHANGED <<shellVars, childVars, keys, writes>>

\* execv: fails without the program or with arguments too long, and may fail
\* for want of memory or for a bad image.
ExecStarts(path, args) ==
    /\ path \in Programs /\ CopyOk(args, << >>) /\ BuildOk(args, << >>)
    /\ pc' = "child"
    /\ stack' = BuildUserStack(args, << >>)
    /\ line_buf' = << >> /\ line_pos' = 0 /\ want' = 0 /\ told' = << >> /\ got' = << >>
    /\ shell_input_buffer' = Parsed(shell_input_buffer)
    /\ UNCHANGED <<screenVars, index, typed, base, keys, writes>>

\* cmd_exec: says nothing when execv fails.
RunExec ==
    /\ pc = "run" /\ Kind = "exec"
    /\ \/ Len(Argv) < 2 /\ Done /\ \E s \in Texts : Output(s)
       \/ Len(Argv) >= 2 /\ Done /\ UNCHANGED screenVars
       \/ Len(Argv) >= 2 /\ ExecStarts(Argv[2], Tail(Argv))

\* BIN_PATH_PREFIX, one character here.  That the path fits is tested by the
\* code as well; a name is shorter than the buffer it was read into.
BinPath(name) == <<"/">> \o name

RunProgram ==
    /\ pc = "run" /\ Kind = "program"
    /\ \/ Done /\ \E s \in Texts : Output(s)
       \/ ExecStarts(BinPath(Argv[1]), <<BinPath(Argv[1])>> \o Tail(Argv))

-----------------------------------------------------------------------------
(* The program.                                                             *)
ChildWrite(s) ==
    /\ pc = "child" /\ writes < MaxWrites /\ writes' = writes + 1
    /\ Output(s)
    /\ UNCHANGED <<pc, shellVars, childVars, keys>>

\* read() copies what is left of the line, at most len characters.
CopyLine(line, pos, len) ==
    LET n == IF len < Len(line) - pos THEN len ELSE Len(line) - pos
    IN  /\ got' = got \o SubSeq(line, pos + 1, pos + n)
        /\ line_buf' = line /\ line_pos' = pos + n

\* read() of stdin finds a rest of a line, or starts read_line().
ChildRead(len) ==
    /\ pc = "child"
    /\ IF len <= 0 \/ line_pos < Len(line_buf)
       THEN /\ CopyLine(line_buf, line_pos, len)
            /\ UNCHANGED <<pc, want>>
       ELSE /\ pc' = "line" /\ want' = len /\ line_buf' = << >> /\ line_pos' = 0
            /\ UNCHANGED got
    /\ UNCHANGED <<screenVars, shellVars, stack, told, keys, writes>>

\* Mutant: the newline is not stored.
MutantLineEnter ==
    /\ pc = "line" /\ TakeKey
    /\ told' = Append(told, "nl")
    /\ Output(<<"nl">>)
    /\ CopyLine(line_buf, 0, want)
    /\ pc' = "child"
    /\ UNCHANGED <<shellVars, stack, want>>

LineEnter ==
    /\ pc = "line" /\ TakeKey
    /\ told' = Append(told, "nl")
    /\ Output(<<"nl">>)
    /\ CopyLine(Append(line_buf, "nl"), 0, want)
    /\ pc' = "child"
    /\ UNCHANGED <<shellVars, stack, want>>

LineBackspace ==
    /\ pc = "line" /\ TakeKey
    /\ told' = Append(told, "bs")
    /\ IF Len(line_buf) > 0
       THEN line_buf' = SubSeq(line_buf, 1, Len(line_buf) - 1) /\ Output(<<"bs">>)
       ELSE UNCHANGED <<line_buf, screenVars>>
    /\ UNCHANGED <<pc, shellVars, stack, line_pos, want, got>>

\* A character that leaves no room for the newline is dropped.
LineChar(c) ==
    /\ pc = "line" /\ TakeKey
    /\ told' = Append(told, c)
    /\ IF Len(line_buf) < LineSize - 1
       THEN line_buf' = Append(line_buf, c) /\ Output(<<c>>)
       ELSE UNCHANGED <<line_buf, screenVars>>
    /\ UNCHANGED <<pc, shellVars, stack, line_pos, want, got>>

ChildExit ==
    /\ pc = "child" /\ pc' = "prompt"
    /\ UNCHANGED <<screenVars, shellVars, childVars, keys, writes>>

Next ==
    \/ ShowPrompt \/ ReadEnter \/ ReadBackspace \/ \E c \in Printable : ReadChar(c)
    \/ RunNothing \/ RunText \/ RunClear \/ RunEcho \/ RunExit \/ RunReboot
    \/ RunExec \/ RunProgram
    \/ \E s \in Texts : ChildWrite(s)
    \/ \E len \in ReadLens : ChildRead(len)
    \/ LineEnter \/ LineBackspace \/ \E c \in Printable : LineChar(c)
    \/ ChildExit

Spec == Init /\ [][Next]_vars

-----------------------------------------------------------------------------
(* References: what the keys mean.                                          *)

\* The finished lines of a sequence of keys and the line begun, of at most
\* limit characters.
Edited(ks, limit) ==
    LET Step(e, c) ==
            CASE c = "nl" -> [done |-> e.done \o e.line \o <<"nl">>, line |-> << >>]
              [] c = "bs" -> [e EXCEPT !.line = SubSeq(@, 1, Len(@) - 1)]
              [] c \in Printable -> IF Len(e.line) < limit THEN [e EXCEPT !.line = Append(@, c)]
                                    ELSE e
        after[n \in 0 .. Len(ks)] ==
            IF n = 0 THEN [done |-> << >>, line |-> << >>] ELSE Step(after[n - 1], ks[n])
    IN  after[Len(ks)]

ShellLine == Edited(typed, BufferSize).line

\* The words of a line.
Words(line) ==
    LET Step(w, c) ==
            IF IsBlank(c) THEN [w EXCEPT !.open = FALSE]
            ELSE IF w.open
            THEN [w EXCEPT !.words[Len(w.words)] = Append(@, c)]
            ELSE [open |-> TRUE, words |-> Append(w.words, <<c>>)]
        after[n \in 0 .. Len(line)] ==
            IF n = 0 THEN [open |-> FALSE, words |-> << >>] ELSE Step(after[n - 1], line[n])
    IN  after[Len(line)].words

-----------------------------------------------------------------------------
(* Properties.                                                              *)

\* The screen is the end of the page: scrolling, wrapping at the right edge and
\* backspace neither lose nor repeat nor leave anything of what was written.
ScreenShowsPage == Shows(tty, page)

\* The longest the line has been.
Peak ==
    LET lens == {Len(Edited(SubSeq(typed, 1, n), BufferSize).line) : n \in 0 .. Len(typed)}
    IN  CHOOSE m \in lens : \A l \in lens : l <= m

\* shell.c: "tty.c both moves the cursor back and blanks it".  As long as the
\* line stays on the row of its prompt, the screen shows the line that will be
\* run: its characters after the prompt, and nothing of those deleted.
ScreenShowsLine ==
    pc = "read" /\ base + Peak <= Width =>
       /\ tty.column = base + index
       /\ \A k \in 0 .. Peak - 1 :
             tty.cells[tty.row][base + k] = IF k < index THEN shell_input_buffer[k] ELSE " "

\* A program finds on its stack the words of the line as it was edited, at most
\* ShellMaxArgs of them: through the shell's buffer, its splitting in place, the
\* kernel's copy and the layout of strings and pointers.
ProgramGetsWords ==
    pc \in {"child", "line"} =>
       LET all == Words(ShellLine)
           ws == SubSeq(all, 1, IF Len(all) < ShellMaxArgs THEN Len(all) ELSE ShellMaxArgs)
       IN  /\ ws # << >>
           /\ Holds(stack, IF ws[1] \in DOMAIN CommandOf THEN Tail(ws)
                           ELSE <<BinPath(ws[1])>> \o Tail(ws), << >>)

\* The reads of a program, whatever their lengths, return the lines typed for
\* it as they were edited, without loss or repetition.
ReadsReturnLines ==
    LET e == Edited(told, LineSize - 1)
    IN  IF pc = "line" THEN got = e.done /\ line_buf = e.line
        ELSE got \o SubSeq(line_buf, line_pos + 1, Len(line_buf)) = e.done
=============================================================================
