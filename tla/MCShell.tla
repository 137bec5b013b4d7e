------------------------------ MODULE MCShell ------------------------------
(* A screen of a few characters, lines that fill their buffers, a program    *)
(* and one built-in command of each kind; and, before the shell is there,     *)
(* the kernel that prints one message and halts, as kernel_main does for want  *)
(* of memory.                                                               *)
EXTENDS Shell, Printk, TLC

SmallCommands ==
    <<"b">> :> "exec" @@ <<"b", "b">> :> "echo" @@ <<"b", "a">> :> "clear"
      @@ <<"a", "b">> :> "exit" @@ <<"a", "a">> :> "text"
      @@ <<"a", "b", "a">> :> "reboot"
SmallPrograms == {<<"/", "a">>, <<"a">>}
SmallTexts == {<<"x", "nl">>, <<"x", "cr">>, <<"bs">>}

\* Arguments and environments, with strings of all lengths.
SmallStrings == UNION {[1 .. n -> {"a", "b"}] : n \in 0 .. 2}
SmallLists == UNION {[1 .. n -> SmallStrings] : n \in 0 .. 2}

\* elf_build_user_stack() with an environment, which the shell does not pass.
ASSUME EnvironmentHolds ==
    \A argv, envp \in SmallLists :
       CopyOk(argv, envp) =>
          BuildOk(argv, envp) /\ Holds(BuildUserStack(argv, envp), argv, envp)

-----------------------------------------------------------------------------
\* All formats of up to three characters, those of four that start with '%',
\* and two directives with a width; no width is above 64.
FormatChars == {"%", "0", "4", "c", "s", "d", "u", "x", "X", "l", "p", "a"}
SmallFormats ==
    UNION {[1 .. n -> FormatChars] : n \in 0 .. 3}
      \cup {f \in {<<"%">> \o g : g \in [1 .. 3 -> FormatChars]} : WidthsFit(f)}
      \cup {<<"%", "0", "4", "x", "%", "4", c, "nl">> : c \in {"d", "i", "u", "s"}}

\* Numbers of 8 bits: 0, the smallest and the largest int, -1, one in between.
Argument(w, c, s) == [word |-> w, char |-> c, str |-> s]
SmallArgLists ==
    {<<Argument(0, "a", << >>), Argument(128, "b", <<"a", "b">>), Argument(7, "a", <<"b">>), Argument(1, "a", << >>)>>,
     <<Argument(127, "a", <<"%", "d">>), Argument(255, "nl", <<"b">>), Argument(7, "a", <<"b">>), Argument(1, "a", << >>)>>,
     <<Argument(200, "b", <<"b", "nl", "a">>), Argument(10, "a", << >>), Argument(7, "a", <<"b">>), Argument(1, "a", << >>)>>}

\* No printing: a call that returned.
Silent == [fn |-> "none", format |-> << >>, args |-> << >>, size |-> 0]

MCInit ==
    /\ Init
    /\ call = Silent /\ at = 1 /\ arg = 0 /\ out = << >> /\ nul = -1 /\ ret = 0

Off ==
    /\ pc = "stopped" /\ tty = terminal_initialize /\ page = EmptyPage
    /\ shell_input_buffer = << >> /\ index = 0 /\ typed = << >> /\ base = 0
    /\ stack = << >> /\ line_buf = << >> /\ line_pos = 0 /\ want = 0 /\ told = << >> /\ got = << >>
    /\ keys = 0 /\ writes = 0

\* What a step of printk prints goes to the terminal, one putchar after the other.
KernelPrints ==
    /\ PrintNext
    /\ IF call.fn = "printk" THEN Output(SubSeq(out', Len(out) + 1, Len(out')))
       ELSE UNCHANGED screenVars
    /\ UNCHANGED <<pc, shellVars, childVars, keys, writes>>

ConsoleNext == KernelPrints \/ (Next /\ UNCHANGED printVars)

ConsoleSpec == (MCInit \/ (PrintInit /\ Off)) /\ [][ConsoleNext]_<<vars, printVars>>
=============================================================================
