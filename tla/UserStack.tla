------------------------------ MODULE UserStack ------------------------------
(***************************************************************************)
(* The arguments of a new program: copy_strings of kernel/arch/i386/exec.c    *)
(* bounds them, elf_build_user_stack of elf.c lays them out at the top of the  *)
(* user stack, crt0 reads them from there.                                   *)
(*                                                                         *)
(* A string is the sequence of its characters without the terminating NUL.    *)
(* Addresses count from the bottom of the stack, a multiple of PtrSize.       *)
(***************************************************************************)
EXTENDS Integers, Sequences

CONSTANTS
    MaxArgs,     \* EXEC_MAX_ARGS
    ArgBytes,    \* EXEC_ARG_BYTES
    StackSize,   \* EXEC_STACK_SIZE
    PtrSize      \* sizeof(char*), sizeof(uint32_t)

\* The largest arguments that copy_strings accepts fit, with the gap below the
\* strings that elf_build_user_stack does not count: 4096 + 67 * 4 + 3 <= 16384.
ASSUME StackAssumption ==
    /\ MaxArgs \in Nat /\ ArgBytes \in Nat /\ PtrSize \in Nat \ {0}
    /\ StackSize \in Nat /\ StackSize % PtrSize = 0
    /\ ArgBytes + (2 * MaxArgs + 3) * PtrSize + PtrSize - 1 <= StackSize

\* strings_total_size() of the first n strings.
TotalSize(strs, n) ==
    LET sum[k \in 0 .. n] == IF k = 0 THEN 0 ELSE sum[k - 1] + Len(strs[k]) + 1
    IN  sum[n]

\* copy_strings() of argv and of envp, which share kargs.
CopyOk(argv, envp) ==
    /\ Len(argv) <= MaxArgs /\ Len(envp) <= MaxArgs
    /\ TotalSize(argv, Len(argv)) + TotalSize(envp, Len(envp)) <= ArgBytes

\* elf_build_user_stack() finds that all fits.
BuildOk(argv, envp) ==
    TotalSize(argv, Len(argv)) + TotalSize(envp, Len(envp))
       + (Len(argv) + Len(envp) + 3) * PtrSize <= StackSize

-----------------------------------------------------------------------------
(* A stack in the making: the cursor, the bytes of strings, and the addresses  *)
(* of the strings copied so far.                                             *)

\* One turn of the loops over argv and envp.
CopyString(m, s) ==
    LET at == m.cursor - (Len(s) + 1)
    IN  [cursor |-> at, copied |-> Append(m.copied, at),
         bytes |-> [a \in DOMAIN m.bytes |->
                      IF a = at + Len(s) THEN "nul"
                      ELSE IF a \in at .. at + Len(s) - 1 THEN s[a - at + 1] ELSE m.bytes[a]]]

Null == -1

\* elf_build_user_stack() when all fits: strings from the top, argv's first;
\* below them, aligned, the two tables of pointers; argc where sp points to.
BuildUserStack(argv, envp) ==
    LET all == argv \o envp
        start == [cursor |-> StackSize, copied |-> << >>,
                  bytes |-> [a \in 0 .. StackSize - 1 |-> "old"]]
        after[k \in 0 .. Len(all)] == IF k = 0 THEN start ELSE CopyString(after[k - 1], all[k])
        m == after[Len(all)]
        words == <<Len(argv)>> \o SubSeq(m.copied, 1, Len(argv)) \o <<Null>>
                   \o SubSeq(m.copied, Len(argv) + 1, Len(all)) \o <<Null>>
        aligned == m.cursor - (m.cursor % PtrSize)
    IN  [sp |-> aligned - Len(words) * PtrSize, words |-> words, bytes |-> m.bytes]

-----------------------------------------------------------------------------
(* What a program finds.                                                    *)

\* The string at address p, up to its NUL.
StringAt(stack, p) ==
    LET end == CHOOSE e \in p .. StackSize - 1 :
                  stack.bytes[e] = "nul" /\ \A a \in p .. e - 1 : stack.bytes[a] # "nul"
    IN  [k \in 1 .. end - p |-> stack.bytes[p + k - 1]]

\* _start of crt0.S, before it calls main: argc where sp points to, argv in the
\* next word, envp behind argv's Null; tables as positions in words.
Start(stack) ==
    LET argc == stack.words[1]
    IN  [argc |-> argc, argv |-> 2, envp |-> 1 + argc + 2]

\* The table of pointers from position p on is the list of strs and a Null.
IsTable(stack, p, strs) ==
    /\ \A k \in 1 .. Len(strs) : StringAt(stack, stack.words[p + k - 1]) = strs[k]
    /\ stack.words[p + Len(strs)] = Null

\* main gets argv and envp, all inside the stack and the words below the strings.
Holds(stack, argv, envp) ==
    /\ 0 <= stack.sp /\ stack.sp % PtrSize = 0
    /\ Start(stack).argc = Len(argv)
    /\ IsTable(stack, Start(stack).argv, argv) /\ IsTable(stack, Start(stack).envp, envp)
    /\ \A a \in stack.sp .. stack.sp + Len(stack.words) * PtrSize - 1 : stack.bytes[a] = "old"
=============================================================================
