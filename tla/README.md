# Verification of chales-os

TLA+ models of the parts of chales-os that keep state and make decisions: the
boot loader, the processes, the kernel heap, interrupts with the keyboard ring and the clock,
the ram file system and its newlib interface, the ELF loader, formatted printing, the terminal
and the shell. TLC checks them on small instances, TLAPS proves the main results for
every instance. `PROJECT.json` has the lists in machine-readable form: which lines each definition
models, the runs, the theorems, the hazards and the findings.

## 1. The system

chales-os is a 32-bit x86 kernel with one address space of 4 MiB, a ram file
system, a shell and a few programs built on newlib.

| Part | State | Operations | Interacts with |
|---|---|---|---|
| Scheduler, `sched.c` | ring of `task_t`, `current_task`, `next_pid` | create, reap, exit, kill, `schedule` | heap (task memory), exec (frames), system calls |
| Exec-and-wait, `exec.c` | save pool, frames in `task_t` | `exec_run`, `exec_restore` | ELF loader, scheduler, user memory, heap break |
| System calls, `interrupt.c` | `user_brk` | exit, execv, wait, kill, sbrk, files, console, time | everything |
| Kernel heap, `kmalloc.c` | chain of block headers, `heap_ptr` | `kmalloc`, `kfree`, `krealloc` | its only client is `sched_task_new`/`sched_reap` |
| Keyboard, `keyboard.c` | ring, head, tail, count | push (IRQ 1), pop (getchar, read) | interrupts against system calls |
| Ram file system, `ramfs.c` | inodes, descriptors, content pool | open, close, read, write, seek, stat, mkdir, rmdir, unlink | exec (reads programs), system calls |
| ELF loader, `elf.c` | none of its own; writes memory and page table | extent, load, build stack | exec, paging |
| Paging, `paging.c` | one page table | map a range for user mode | ELF loader, exec |
| Terminal, `tty.c` | screen, cursor | putchar, scroll, clear | printing |
| Interrupts, `interrupt.c`, `pic.c` | lines in service at the two controllers | real and spurious interrupts, end of interrupt | keyboard, timer, every system call |
| Timer, `timer.c` | tick count | tick (IRQ 0), read | get_ticks, times, gettimeofday; `beep.c` waits for it |
| newlib layer, `newlib_syscalls.c` | line buffer, `errno` | line editing, `read`, wrappers | keyboard, terminal, files |
| Printing, `printk.c`, `snprintk.c` | none of its own | format to terminal or buffer | terminal |
| Shell, `shell.c` | line buffer | line editing, parsing, built-in commands, running programs | keyboard, terminal, files, exec |
| Boot loader, `stage2.S` | memory map, bounce buffer, disk address packet | E820, A20, reads with retries, copy of the kernel's segments | BIOS, disk, `kernel_main` |
| GDT, IDT | hardware set-up | | |

There is one processor and no preemption (`schedule()` is commented out of the
timer interrupt, `interrupt.c:91`), so system calls do not interleave with each
other. What makes the system hard is elsewhere:

* All programs are linked at one address and share one stack. `execv` saves what
  the child will overwrite, blocks the caller, runs the child, and its exit
  copies everything back. Chains of such calls, failures half-way, and a kill of
  an ancestor from below must all leave every caller with its own memory.
* The system call gate is a trap gate: interrupts can arrive inside
  `keyboard_buffer_pop` and inside `gettimeofday`, and spurious ones must be acknowledged at
  one controller and not at the other.
* The boot loader depends on a disk and a BIOS that fail in several ways, and retries in two
  modes through one buffer.
* A task that ends goes on on its own kernel stack, which a later call frees.
* Allocators (heap, file pool, save pool) reuse memory by position, and run full.
* A descriptor can outlive its file, and slots are reused.
* The range that `exec_run` saves and the range that `elf_load` writes are computed by
  two different loops over the file's headers.
* A line goes through the shell's buffer, is split in place, copied by the kernel and
  laid out on a stack with sizes computed before; each stage has limits of its own.

What makes each part correct, in a line: the scheduler keeps one chain of
callers with the running task at its end and loses no wake-up; exec gives each
caller its memory back; the heap is an allocator; the ring is a FIFO; the file system
is a map from numbers to byte sequences whose descriptors keep their file; the
loader writes exactly the segments, inside the range announced; the screen shows the
end of what was written; a program gets the words and the lines that were typed; no interrupt
line stays blocked; the clock is read at one moment and a wait for it ends; the boot loader starts
a complete kernel or stops with a message that is true; printing gives what the format means.

## 2. Modules

| Module | Models | Composition |
|---|---|---|
| `ExecWait` | `sched.c`, `exec.c`, exit/execv/wait/kill/sbrk of `interrupt.c` | |
| `ExecWaitProofs` | | theorems about `ExecWait` |
| `Kmalloc` | the functions of `kmalloc.c`, as functions from heap to heap | |
| `KernelHeap` | `Kmalloc` under any client | implements `Allocator` |
| `KernelHeapProofs` | | theorems about `KernelHeap`, the refinement included, and about `TaskHeap` |
| `Allocator` | what a client of a heap is promised | |
| `TaskHeap` | task creation, reaping and exit of `sched.c` on the heap | composes `Kmalloc` with the ring |
| `Keyboard` | `keyboard.c`, IRQ 1, getchar/read | |
| `Interrupts` | `irq_handler`, `pic.c`, `timer.c`, get_ticks, gettimeofday, `beep.c` | composes `Keyboard` with the controllers and the clock |
| `InterruptsProofs` | | theorems about `Keyboard` and `Interrupts` |
| `Ramfs` | `ramfs.c` and the file system calls | implements `FileStore` |
| `RamfsProofs` | | theorems about `Ramfs`, the refinement of `FileStore` included |
| `FileStore` | what users of files are promised | |
| `Newlib` | the file functions of `newlib_syscalls.c`, `errno` | composes them with `Ramfs` |
| `FileCommands` | the file commands of `shell.c` | composes them with `Ramfs` and `Newlib` |
| `FileCommandsProofs` | | theorems about `Newlib` and `FileCommands` on `Ramfs` |
| `Printk` | `printk.c`, `snprintk.c` | its output goes to `Terminal` in `MCShell` |
| `PrintkProofs` | | theorems about `Printk` |
| `BootLoader` | `stage2.S`, the memory check of `kernel.c` | |
| `Terminal` | `tty.c`, as functions from screen to screen | |
| `UserStack` | `copy_strings`, `elf_build_user_stack`, `crt0.S` | |
| `Shell` | `shell.c`, `read` of `newlib_syscalls.c` | composes `Terminal`, `UserStack` and the line editors |
| `ShellProofs` | | theorems about `Terminal`, `UserStack` and `Shell` |
| `ElfLoader` | `elf_validate`, `elf_extent`, `elf_load`, `paging_map_user_range` | |
| `LoaderProofs` | | theorems about `ElfLoader` and `BootLoader` |

The modules `MC...` give the constants of an instance their values.
`MCHeaps` puts the two users of `Kmalloc` side by side; `MCLoaders` puts the two loaders side by side; `MCShell` has the kernel print before there is a shell. Operators
named `Mutant...` are wrong versions of the definition that follows them. The
specifications do not use them: they show that a property can fail.

### ExecWait

A task is named by its pid; pids are not reused in the model's bound. The task
fields are functions from pids: `state`, `parent`, `zombie`, `elf`, `frame`. A
byte of user memory or of the pool is abstracted to the pid of the task that
stored it last, 0 for what the kernel put there. This is enough to tell whether
a byte was restored. A program image is the contiguous range from its lowest to
its highest address. The content of the user heap is left out, its break is
kept.

One action is one system call, with all it does: `ExecStart` is a successful
`exec_run` from the save to the switch to the child; `ExecFail` is a failure at
each of the three points after the save, with `EXEC_FAIL`; `ExecRefused` is every early
return before it. The exception is `sched_task_exit`: each
call of the recursive `task_exit_noswitch` is one step down (`ExitDescend`) and one
back (`ExitFinish`), then `ExitSwitch` or `ExitHalt`. The order of the ring is
left out: `ProcessChain` shows that `schedule()` has at most one task to find.
`snap` is a history variable with the memory at the time of the `execv`.

### Kmalloc, KernelHeap, TaskHeap

A heap is the map from addresses to the headers on the chain, with `heap_ptr`. The
searches are sets (`NextBlock`, `PrevBlock`, `FindFreeBlock`); `FindWalk` and `PrevWalk` of `KernelHeap` are the loops of
the code, header by header, and that they find the same is the property `WalksAgree`. `KernelHeap` has a client that frees only what
it holds. `TaskHeap` is the real client: `sched_reap` frees along the ring,
stack first (one turn of its loop is `ReapOne`), then `sched_task_new` allocates twice. It takes from `ExecWait`
that live tasks form a chain, so the chain is a sequence here, and keeps the
order of the ring, in which reaping frees.

### Keyboard

A pop is split where an interrupt can make a difference: the test and load of
the count, the store of the count, the read of the character. As the variables
are not volatile the compiler may order the last two either way; the model has
both orders. Keys are numbered by their push.

### Interrupts

A handler is one step, because IRQs enter through interrupt gates. The controllers are external: a
line is accepted when none of the same or higher priority is in service, the
end-of-interrupt command clears the highest one, and a request that was withdrawn gives line 7 of its controller
without setting its bit. `gettimeofday` is a read of the counter and a later store; `beep` is one
step per look at the clock. One program runs at a time. `system_ticks` wraps at `TickWrap`.
`MaxLag` bounds the ticks between two steps of a program: with 2^32 ticks in 49 days this is not a
restriction, and the `ASSUME` asks for no more than that a program looks at the clock within
2^32 - 30 ticks.

### Ramfs

State variables have the names of the code. A path is a sequence of names. A
call is one action; `ret` and `out` are its answer. `Reserve` is
`ramfs_reserve` (grow in place, move to the end, fail), `StoredPool` the effect
of the copies of `ramfs_reserve` and `ramfs_write` on the pool. The `sys_...` actions are
the calls of `interrupt.c`, which give descriptors 0 to 2 to the console.

`FileCommands` adds the shell's `cat`, `touch` and `write`, one step per system
call. While a command runs nobody else makes calls, because all other tasks
are blocked callers; between commands programs make any calls and may leave descriptors open.

`Newlib` wraps the calls: `sys_result` and `FixedErrno` are the two ways an answer
becomes a result and `errno`. Programs call these functions or make the system calls directly. `Why` lists, function by function,
what an `errno` stands for: in the state before the call, one of the reasons for which the code gives that answer. For `unlink`, `rmdir` and
`mkdir` that is weak, and has to be: they have one `errno` for every failure (`newlib_syscalls.c:227,246,255`), so `EEXIST` from `mkdir` may mean a
missing parent or a full table, and `ENOENT` from `unlink` a directory. `Spares` says that the failed call left files and descriptors alone.

### Terminal, UserStack, Shell

The terminal is checked against a page that never scrolls: the screen must be its last
rows. In `Shell` one action takes one key, or is one command, or one call of the program.
Characters, not lines, are the data: the buffers, the splitting in place and the
layout of the stack are modelled by position, because that is where they can go wrong. The
references `Edited` and `Words` say what a sequence of keys means. A message is any of
a few texts, among them ones with newline, carriage return and backspace.
The kernel side of `execv` is `ExecWait`; here it starts the program or fails.

### Printk

One step per round of the loops over the format. A format is a sequence of characters, because
where a directive starts, ends and pads is what can go wrong. `Meaning` is the reference: it goes character by
character and gives numerals by position. Words have 8 bits in the instance.

### BootLoader

One step per call of the BIOS and per piece of work between two calls. The machine is a
record chosen at the start: disk or CD, sectors that cannot be read, a BIOS that refuses reads of
several sectors, one that drops the segment limits, what switches A20 on, whether the keyboard controller works, never answers or never
takes a byte, the memory map and how its end is told. The talk with the controller is step by step: `TalkToKbc` sends or takes a byte when
the bit that `kbc_wait_in` or `kbc_wait_out` polls allows it, `KbcTakes` is the controller, which takes a byte in its own time. The polling loops
have no limit, so where the bit never comes the loader makes no further step; `BootEnds` names these states (`WaitsForever`) beside the kernel and the
messages. A read that fails has put some sectors and some junk in the buffer and has stored the number of
sectors in the packet. A byte is the offset it has in the kernel file. The header and the program headers are taken from the bounce buffer (`FileSeen`, copied
to `phbuf`): where the buffer does not hold the beginning of the file, the loader sees another file, one with nothing to load. `JumpToKernel` includes
the first thing `kernel_main` does, the sum over the memory map in KiB modulo 2^32. `Cause` compares messages with the machine and the file, not with what the loader
has seen of them: "not enough RAM" is true of the map of the BIOS unless that is longer than the table or its sum does not fit in 32 bits (`SumIsExact`), where the
code may say so on a machine with enough memory.

### ElfLoader

One step per program header in each of the three loops. A byte is abstracted to the
offset in the file it was copied from, zero, or old. `Init` chooses any file of a set; the header's
constant fields are one Boolean.

## 3. Runs

| Run | Instance | Shows |
|---|---|---|
| `exec_control` | 4 tasks, one program, 2 cells of memory, exit, kill by every task of every task with signals 0, 15 and 65, sbrk up and down | `ProcessChain`, `BlockedIffChild`, `HaltOnlyWhenDone`, `FailedCallHarmless`, `ExitCompletes` |
| `exec_memory` | 4 tasks, a long and a short program, pool for three frames | `PoolIsStack`, `ExecReturns` |
| `exec_grandparent` | the same | violates `WholeImageRestored` |
| `interrupts` | ring of 3, 7 keys, IRQ lines 0, 1, 3, 7, 12 and 15, a clock that wraps at 8, beeps of 3 ticks, up to 4 ticks between two steps | `CountNeverOver`, `FifoUnlessOverrun`, `NoIrqBlocked`, `BeepLongEnough`, `BeepEnds`, `TimeIsOneMoment` |
| `keyboard_lost` | ring of 3, 4 keys | violates `NullMeansEmpty` |
| `heaps` | 23 bytes, header 1; sizes 0, 2 and 6 for any client; `task_t` of 1, stack of 2, up to 5 live tasks, 10 pids for the scheduler | `ChainTiles`, `FullyMerged`, `NoLeak`, `WalksAgree`, `ImplementsAllocator`; `StacksAreLive`, `TasksLeakNothing` |
| `task_heap_full` | the sizes of the build | violates `NullMeansFull` |
| `ramfs_tree` | 3 slots besides the root, 2 descriptors, 4 paths with one directory level, no contents, direct calls and newlib | `NamesUnique`, `FdKeepsFile`, `ErrnoTells` |
| `ramfs_data` | two paths, two descriptors, pool of 4, largest file 2, programs and the shell's commands | `BlocksApart`, `FailedCallHarmless`, `ImplementsFileStore`, `CommandClosesFile`, `CatShowsFile`, `WriteStoresPrefix` |
| `ramfs_full` | one descriptor, pool of 3, writes of one byte | violates `WriteFailsOnlyWhenFull` |
| `loaders` | 10 519 program files: all of one or two headers from 48, and a defect of each kind in the header; kernels of up to three segments on disks and CDs with sectors of 2 and 4 bytes and a buffer of 8, with up to 6 passing read errors; all pairs of a way to switch A20 on and a kind of keyboard controller; memory maps that are empty, too long, too small, of half KiBs, and of more KiB than the sum holds | `WritesInExtent`, `RefusedUntouched`, `ImageLoaded`; `KernelLoaded`, `BootEnds` |
| `shell` | screen of 5 by 2, 7 keys, lines of at most 6 (shell) and 2 (program) characters; formats of up to 4 characters from 12 and some longer ones, buffers of 0, 1, 3 and 6 | `ScreenShowsPage`, `ScreenShowsLine`, `ProgramGetsWords`, `ReadsReturnLines`; `PrintkMeansFormat`, `SnprintkFillsBuffer` |

Bounds and why they are enough. Four pids allow a chain of four, with a middle
task that is caller and child at once, a kill across two levels, and a dead task that is reaped
while another chain runs. The pool of `exec_memory` holds three frames
but not the largest combination, so the refusal happens as well. A ring of three and seven keys fills, wraps
and overruns. The lines of `interrupts` are the two that matter, a line and the last line of each controller, so
every test of `irq_handler` goes both ways; the clock wraps in the middle of a beep. The heap of 23 bytes holds up to seven blocks, so a free block can have free
neighbours on both sides. The heap of the scheduler runs full with live tasks: the last one gets its `task_t` and no stack. In the file
system runs every table and the pool run full, slots are reused, and a block moves, grows in
place and is released. The ELF files have segments that are empty, overlap, end at the
limit, end or start at the kernel's image, and read past the file. Seven keys fill the shell's
buffer, wrap and scroll the screen, give a program up to its limit of words, and leave
keys for lines of the program that fill its buffer. Six read errors are what it takes to make the loader give up on a good disk: three reads
of several sectors and three of one; the kernels have segments inside a sector, across the buffer, empty and overlapping.
The formats contain every pair of a directive and what follows it. `MCShell` also checks
`UserStack` with environments, which the shell does not pass, over all short lists.

`exec_memory`, `ramfs_tree` and `ramfs_data` have a `VIEW` without the answer of the last call: no
action reads it, and TLC checks the action properties, which do, on every step and not
only on those to new states.

`CHECK_DEADLOCK FALSE` is used where the program may stop: nobody types
(`Keyboard`, `Shell`), the loaders are done, the shell has exited, the message is printed.

Fairness. `ExecWait` has weak fairness of the exit path: straight-line kernel code that the
processor goes on with, after interrupts too. `Interrupts` has weak fairness of IRQ 0, because the PIT is
periodic and a line is delivered once nothing blocks it, and of the programs' steps, because what is
interrupted is resumed; nothing of keys or other devices. `BootLoader` has weak fairness of its next step: a
single program, and BIOS calls return; and of `KbcTakes`, which is never enabled on a machine whose controller takes nothing. A polling loop is
a step that waits for its bit, so nothing makes it end where the bit does not come. Nothing is assumed of user programs in `ExecWait` or of the keyboard.

## 4. Proofs

`ExecWaitProofs`. Constants: any number of pids, programs, addresses, pool
size and alignment under the `ASSUME`s of `ExecWait` (images and stack
inside memory, sizes natural numbers). The invariant `IInv` strengthens the properties by how far an
exit has come: while `task_exit_noswitch` runs, the tasks from `at` to the victim are an initial part of the chain
below it, the youngest of what is left may already be unblocked, and every
frame of a live task holds, for each address it saved, the byte of `snap`. The
last conjunct is what makes `ExecReturns` inductive: a frame
in the pool is not written while its task lives, because frames are
stacked (`PoolIsStack`). Proved: `TypeOK`, `ProcessChain`, `BlockedIffChild`,
`PoolIsStack`, `HaltOnlyWhenDone` as invariants, `ExecReturns` and
`FailedCallHarmless` as action properties.

`KernelHeapProofs`. For every heap size, header size and set of sizes. The
invariant is tiling, complete merging, the first block in use, no leak, and that each block the
client holds is at least as large as what it asked for. Merging twice in `Coalesce` keeps tiling
because each merge replaces two neighbours by one block of their joint extent. Proved:
`TypeOK`, `ChainTiles`, `FullyMerged`, `NoLeak`, and `ImplementsAllocator`: initial
state and every step map to those of `Allocator`. `WalksAgree` needs no more than tiling: a walk that has
passed k headers stands at the k-th block, so the set has an element at or behind it exactly as long as the walk has not found one.

The second half is about `TaskHeap`, for every size of `task_t`, of a stack and of the heap. `TaskInv` says that the ring is a circle of
different tasks whose pids are older than `next_pid` (`RingInv`), that the live ones are on it and the last of them runs
(`ChainInv`), and that the used blocks of the heap are the first one and two for each task with memory, all different and large
enough (`Owns`). A turn of `sched_reap` is proved to keep `Owns` for the tasks that are left (`LoopInv`), and the loop
by the turns. Proved: `StacksAreLive`, `TasksLeakNothing`.

`LoaderProofs`, about `ElfLoader`. For every set of files and every layout with
the load limit at most 2^32 - 1. The invariant says for each
loop what holds of the headers before the counter: in the range, accepted, placed. `WritesInExtent`
follows because the second pass copies only accepted segments that
the first loop has counted in. Proved: `TypeOK`, `WritesInExtent`, `RefusedUntouched`, `ImageLoaded`.

`InterruptsProofs`. For a ring of any size, any set of lines, any width of the counter, duration and
frequency under the `ASSUME`s of `Keyboard` and `Interrupts`: a second has a whole number of microseconds per tick (1000
ticks in the build), and a program looks at the clock before it can wrap past the duration. `IInv` has three parts that do
not depend on each other. `KeyInv` relates the indices of the ring to the two histories, modulo its size,
and says for each point inside `keyboard_buffer_pop` how the register and the count compare with the unread
keys: an interrupt between the load and the store of the count can only make the count too small. Without
an overrun the unread keys lie in the ring in their order. `PicInv`: nothing is in service between handlers, because each
way through `irq_handler` ends exactly what it began. `ClockInv`: what `beep` computes from two readings is the
time that passed, as long as that is less than the duration; `gettimeofday` works on one reading. Proved: the types, `CountNeverOver`,
`FifoUnlessOverrun`, `NoIrqBlocked`, `BeepLongEnough`, `TimeIsOneMoment`.

`RamfsProofs`. For tables, pool, files, paths and buffers of any size; sizes are multiples of the alignment, as in `ramfs.h`. Every action
is first shown to be one of a few effects on the tables (`Effect`: a file opened, made, written, truncated, removed, a descriptor moved or
closed, ...), so that the invariant is preserved effect by effect and not call by call. `RamInv` is the type,
`BlocksApart`, `NamesUnique`, and that all numbers in the tables are below `ramfs_next_inode` (`NumbersOld`). The last is what makes the
others inductive: without it a new inode could get the number of an old one, or a stale descriptor's. The searches for a free
slot take the first one; that there is a first is the only use of well-foundedness. Proved: the type,
`BlocksApart`, `NamesUnique`, and the action properties `FdKeepsFile` and `FailedCallHarmless`.

The second half is `ImplementsFileStore`, with the mapping of `Ramfs`: a file's content is the part of the
pool its inode describes. The additional invariant is that a descriptor never means a directory (`FdFiles`). The
heart is that `Reserve` and the copy of a write change the content of one file only, which follows
from `BlocksApart`, and the content of that file as the store says: the old bytes, zeroes for a hole, the new bytes. The theorem has the hypothesis
`[]RootStays`, that the root stays a directory. It is needed: after `rmdir("/")` (section 5) `open("/")` hands out a descriptor
with the number 0, which is the mark of a closed one. All behaviours without that call satisfy it.

`FileCommandsProofs`. For `SpecCommands`, in which programs call the system or newlib and the shell runs its commands, with
tables, files, `cat` buffer and texts of any size (a text has no empty word and no word longer than the first
capacity of a file). Each step is an effect of `RamfsProofs` or leaves the tables alone, so everything proved there carries over (`TablesHold`).
`ErrnoTells` has a lemma for each newlib function: an answer that is not an error leaves nothing to show, and each error path gives the `errno` and the
reason, and that the effect on the tables is none or one of the two exceptions; those on descriptors need `FdFiles`, and `WriteTells` the arithmetic of the offset and the capacity. `CommandClosesFile` needs that a closed
descriptor is all zeroes (`FreeClean`) and that while a command runs the table is the old one but for its descriptor (`JobFd`);
`CatShowsFile` that what was shown is the file up to the descriptor's offset (`CatInv`). `WriteStoresPrefix` needs three things.
The path is looked up again after the calls: lookup depends on the names, types and parents in the table only, which a write leaves alone (`SameFound`). What
was given to `write` so far is the line up to a word, or with the blank behind it, and the file has it over its old bytes up to the offset
(`WriteInv`). And once a piece did not fit, nothing fits after it: capacities are 0, at least the first capacity, or the largest (`CapInv`), so
a file that cannot grow for a piece of at most the first capacity cannot grow for one byte either. This is where the bound on the words is used; the shell's
lines have at most 256 characters, the first capacity in `ramfs.c`. The last three have the hypothesis `[]RootStays` for the same reason.

`ShellProofs`. For screens, buffers, texts, stacks and words of any size, under `ScreenAssumption` and `BufferAssumption`: printable
characters are none of those with a meaning of their own, and no built-in command is a program. Screen and page agree after every
character (`Agree`), also when the screen scrolls, so they do after every text; with the bounds of the shell's buffer
(`ConsoleInv`) this is `ScreenShowsPage`. `LineInv`: the shell's index is the length of the line as edited, and the widest that the line has been
is the greatest length of a prefix of the keys; from it `ScreenShowsLine`. `ReadInv`: what the program has got and what is left in its buffer are
the finished lines of what it took, and a line begun is in the buffer; from it `ReadsReturnLines`. `StackHolds` is about the sizes that `copy_strings` accepts: the strings
are laid out one below the other (`Laid`), the tables fit below them, aligned, and point to them. `WordsInv`: when a line was read the buffer holds the line as
edited and a NUL; the positions where `shell_parse_command` finds words are, up to `SHELL_MAX_ARGS`, where the reference has them (`Matches`). With `StackHolds` this is
`ProgramGetsWords`.

`LoaderProofs`, about `BootLoader`. For kernel files, memory maps, sectors, buffers and addresses of any size, any machine and any
number of read errors, under `BootAssumption`: the buffer is a whole number of sectors and lies in one real-mode segment, two
sectors are no more than 1 MiB, and a segment has no more bytes in the file than in memory. The loader does not test the
last; the linker sees to it. `BootInv` says what the map tells after the calls made so far (`MapInv`), which part of the buffer holds the
sectors asked for and that the sectors still to read are those behind it (`ReadInv`), and that memory is the image of the headers
before the current one, with the part of the current segment that is in place (`ImageInv`). `ReadInv` covers the read of the header as well, from
which follows that `CheckHeader` finds the file's own header in the buffer (`HeaderSeen`) and that `phbuf` stays the file's table (`phbuf = kernel.phdrs` in `ImageInv`).
`MapInv` also says that the A20 line is on from the first read on. `ReadInv` is what retries depend on: a
failed read may leave anything behind the filled part, and a new start from the first sector forgets it. That the size
computations do not overflow follows from the test of the segment's address. Proved: `KernelLoaded`.

`PrintkProofs`. For every format, words of any width, buffers of any size, and arguments that are enough (half as many as the format has
characters, since a directive has two), under `FormatAssumption`. The hypothesis `Fits` says that an `int` counts the characters of the whole output:
otherwise `printk` stops in the middle with -1, and a text of 2^31 characters does not exist in the machine. A field is no wider than
the 64 bytes in which the code makes it: that is a part of `FormatAssumption` (`WidthsFit`), because the code pads without a test (`printk.c:42`). `PrintInv` says that the output so far and the meaning of the rest of the format, with the arguments that are left, are
the meaning of the whole (`Leads`), and what a finished call has left behind (`Finished`). Each round of the loop has to be shown to print a piece of
that meaning: a run of literal characters (`RunMeans`), a directive (`TextMeans`, with `LetterIs` and `FoundIs` for where it ends and which it is), "%l" before
another letter and an unknown directive (`UnknownMeans`). `UtoaMeans` is the numeral: the code gets the digits by repeated division, lowest first, and
reverses them, the reference by powers of the base; the link is that dividing twice is dividing by the product (`TwiceDivided`). `PrintKeeps` is what
`snprintk_print` stores of a text in the room that is left. Proved: `PrintkMeansFormat`, `SnprintkFillsBuffer`.

The type invariants are theorems only; no run checks them by themselves. TLC finds the
inductive invariants of `InterruptsProofs`, `FileCommandsProofs` (which contains that of `RamfsProofs`) and `LoaderProofs` true on
the instances `interrupts`, `ramfs_data` and `loaders` as well.

Recursive functions. What a loop or a reference computes is a recursive function along a sequence, a path, a ring or a chain, which TLA+ defines
by a `CHOOSE`. The proofs first show that a function with the equation exists (`WalkExists`: by a least length for which there is
none, from `WFMin` of `WellFoundedInduction`), and then argue about its values by a least counterexample in the same way (`WalkKeeps`). No induction
theorem with an operator parameter is needed, since the set of the good numbers is a set and not an operator.

Only model-checked: `ExitCompletes`, `BeepEnds` and `BootEnds`, because they are liveness under fairness, which the prover does not handle.
Every invariant and every action property that a passing run checks is a theorem.

## 5. Findings

1. `exec_grandparent`: a caller's image is not restored where only a grandchild
   overwrote it (`exec.c:89`).
2. `task_heap_full`: each program run enlarges the kernel heap, until no program can be
   started (`kmalloc.c:66`).
3. `keyboard_lost`: a key typed inside a pop is hidden until a later key (`keyboard.c:64`).
4. `ramfs_full`: a write fails with ENOSPC when twice the capacity does not fit, though the byte
   would; the comment at `ramfs.c:363` says otherwise (`ramfs.c:32`).

Seen while modelling, without a run: the model shows what the code does, and no
property says otherwise. `rmdir("/")` turns the root into a file (`ramfs.c:570`); an `open("/")` after it
hands out a descriptor with the number 0, which counts as closed. An `open` that creates a file and
finds no free descriptor answers ENOENT and leaves the new file there (`ramfs.c:437`); `ErrnoTells` allows it by name. `mkdir` answers EEXIST when the parent is missing
or the table is full (`newlib_syscalls.c:246`), `unlink` and `rmdir` ENOENT for an entry of the other type (lines 227 and 255). On a machine whose A20 line needs
a keyboard controller that does not answer, the boot loader polls forever without a message (`stage2.S:314`).
An ELF entry outside all segments is accepted (`elf.c:234`).
A backspace does nothing in column 0 (`tty.c:67`), so a line that has wrapped is not erased on
the row above, though the shell's buffer is; `ScreenShowsLine` is stated for lines that fit on their
row. The shell's `write` does not truncate the file: a shorter text leaves the rest of the old one
(`WriteStoresPrefix` says so). `exec` prints nothing when `execv` fails.

## 6. Not modelled

`stage1.S` reads `stage2.S` with one call of the BIOS and jumps to it; `boot.S` sets the stack and calls
`kernel_main`. The bytes of GDT, IDT and page tables are left out; what matters of them is which gates let
interrupts in and which pages are the user's. The string functions appear as what they do to memory. Of the example
programs only `beep` has a behaviour over time; the others compute and print. The newlib functions for processes
and memory pass on calls of `ExecWait`; their `errno` is a constant for each (`execve`: ENOENT, `sbrk`: ENOMEM), `fork` always fails.

Not modelled inside modelled parts: contents of the user heap (a child may lower the break below
where it started, and then shares cells with its caller); the TLB (page table entries are changed from
supervisor to user without a flush); names longer than the name buffers; arithmetic of
`ramfs_write` with counts near 2^32, which no buffer in 4 MiB has; field widths larger than the 64 bytes of the buffer in `printk`,
which no format of the kernel has and `FormatAssumption` excludes; `ramfs_format`, `elf_exec_file`, `sched_task_create`, `sched_task_kill`,
`pic_set_mask`, which nothing calls. The boot loader's 32-bit sums are modelled, but kernel files with a
program header table near 2^32 or with more bytes in the file than in memory are not enumerated: the build makes none.

## 7. Plan

Done, in this order: `ExecWait` with proofs, `Keyboard`, `Kmalloc`/`KernelHeap` with
proofs, `TaskHeap`, `Ramfs`/`FileStore`, `ElfLoader` with proofs, `Terminal`/`UserStack`/`Shell`,
`FileCommands`, `Interrupts`, `Newlib`, `BootLoader`, `Printk`; then the proofs about `Interrupts` with
`Keyboard`, `Ramfs` with its refinement, `FileCommands` with `Newlib`, `BootLoader`, `TaskHeap`, `Shell` with `Terminal`
and `UserStack`, and `Printk`. Next:

1. `errno` of the newlib functions for processes, composed with `ExecWait`.
2. `ramfs_populate`: the programs of the build as initial contents.
