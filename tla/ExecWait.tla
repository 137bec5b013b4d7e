------------------------------ MODULE ExecWait ------------------------------
(***************************************************************************)
(* Processes of chales-os: the task ring of kernel/arch/i386/sched.c, the   *)
(* exec-and-wait of kernel/arch/i386/exec.c and the exit, kill, wait, sbrk  *)
(* and execv system calls of kernel/arch/i386/interrupt.c.                  *)
(*                                                                         *)
(* All programs are linked at the same address and share one user stack.   *)
(* execv therefore saves what the child will overwrite in a frame of a     *)
(* static pool, blocks the caller, runs the child, and the child's exit    *)
(* copies the frame back.  Frames are pushed and popped in stack order.     *)
(*                                                                         *)
(* A task is named by its pid: pids are never reused, so the pid stands for *)
(* the task_t.  The system calls do not interleave with each other (the     *)
(* timer does not schedule), so each is one step, except the recursive      *)
(* task_exit_noswitch, which is one step per call and return.               *)
(***************************************************************************)
EXTENDS Integers

CONSTANTS
    MaxPid,      \* bound on next_pid
    Progs,       \* executables in the ram file system that pass elf_extent
    ProgLo,      \* [Progs -> Nat], lowest address of the image
    ProgHi,      \* [Progs -> Nat], address after its last byte
    MemTop,      \* ELF_LOAD_LIMIT, addresses are 0 .. MemTop - 1
    StackBase,   \* EXEC_STACK_TOP - EXEC_STACK_SIZE
    StackSize,   \* EXEC_STACK_SIZE
    PoolSize,    \* EXEC_POOL_SIZE
    Align,       \* 16: frames are padded to this
    HeapSize,    \* size of the user heap that sbrk hands out
    Increments,  \* arguments of sbrk
    ExitCodes,   \* arguments of exit
    Signals      \* signal arguments of kill

ASSUME PidAssumption == MaxPid \in Nat \ {0}

ASSUME ImageAssumption ==
    /\ ProgLo \in [Progs -> Nat] /\ ProgHi \in [Progs -> Nat]
    /\ \A g \in Progs : ProgLo[g] <= ProgHi[g] /\ 0 < ProgHi[g] /\ ProgHi[g] <= MemTop

ASSUME LayoutAssumption ==
    /\ MemTop \in Nat /\ StackBase \in Nat /\ StackSize \in Nat \ {0}
    /\ StackBase + StackSize <= MemTop
    /\ PoolSize \in Nat /\ Align \in Nat \ {0} /\ HeapSize \in Nat

ASSUME ArgumentAssumption ==
    Increments \subseteq Int /\ ExitCodes \subseteq Nat /\ Signals \subseteq Nat

VARIABLES
    pc,          \* where the processor is: user code, the exit path, halted
    current_task,
    next_pid,
    state,       \* task_t.state, "FREE" when there is no such task_t
    parent,      \* task_t.parent, 0 is NULL
    zombie,      \* task_t.zombie_valid, zombie_pid, zombie_status
    elf,         \* task_t.elf_lo, elf_hi
    frame,       \* task_t.has_frame and frame_*
    exec_pool,
    exec_pool_used,
    mem,         \* user memory, see Tag
    user_brk,    \* offset from _user_heap_start, NoBrk is NULL
    eax,         \* result of the running task's last system call: Failed,
                 \* the pid from wait, 0 for any other success
    victim,      \* argument task of the sched_task_exit in progress
    exit_status, \* its argument status
    at,          \* argument task of the innermost task_exit_noswitch
    snap         \* history: memory and break when the task was started,
                 \* kept until its caller continues

taskVars == <<state, parent, zombie, elf, frame>>
exitVars == <<victim, exit_status, at>>
poolVars == <<exec_pool, exec_pool_used>>
vars == <<pc, current_task, next_pid, taskVars, poolVars, mem, user_brk, eax,
          exitVars, snap>>

Pids == 1 .. MaxPid
Addr == 0 .. MemTop - 1
task0 == 1
NoBrk == -1

(***************************************************************************)
(* A byte of user memory is abstracted to who wrote it last: 0 for bytes   *)
(* the kernel put there (program image, argv, initial memory), otherwise    *)
(* the pid of the task that stored into it.                                 *)
(***************************************************************************)
Tag == 0 .. MaxPid

Failed == -1     \* -1 or any -errno
SIGKILL == 9
MaxSig == 64

Live(t) == state[t] \in {"READY", "RUNNING", "BLOCKED"}
LiveTasks == {t \in Pids : Live(t)}

StackAddrs == StackBase .. StackBase + StackSize - 1
Image(t) == elf[t].lo .. elf[t].hi - 1
IsElf(t) == elf[t].hi # 0

AlignUp(v) == ((v + Align - 1) \div Align) * Align

NoFrame == [has |-> 0, off |-> 0, stack_len |-> 0, img_base |-> 0,
            img_len |-> 0, brk |-> NoBrk]
FrameLen(f) == AlignUp(f.stack_len) + AlignUp(f.img_len)
NoElf == [lo |-> 0, hi |-> 0]
NoZombie == [valid |-> 0, pid |-> 0, status |-> 0]
NoSnap == [mem |-> [a \in Addr |-> 0], brk |-> NoBrk]

-----------------------------------------------------------------------------
(***************************************************************************)
(* Boot: kernel_main hands task0, which is not an ELF task, to sched_init.  *)
(***************************************************************************)
Init ==
    /\ pc = "user"
    /\ current_task = task0
    /\ next_pid = 2
    /\ state = [t \in Pids |-> IF t = task0 THEN "RUNNING" ELSE "FREE"]
    /\ parent = [t \in Pids |-> 0]
    /\ zombie = [t \in Pids |-> NoZombie]
    /\ elf = [t \in Pids |-> NoElf]
    /\ frame = [t \in Pids |-> NoFrame]
    /\ exec_pool = [i \in 0 .. PoolSize - 1 |-> 0]
    /\ exec_pool_used = 0
    /\ mem = [a \in Addr |-> 0]
    /\ user_brk = NoBrk
    /\ eax = 0
    /\ victim = 0 /\ exit_status = 0 /\ at = 0
    /\ snap = [t \in Pids |-> NoSnap]

-----------------------------------------------------------------------------
(***************************************************************************)
(* schedule(): the walk from current_task finds a READY task other than     *)
(* current_task.  The order of the ring is left out: ExecWaitProofs shows   *)
(* that there is never more than one READY task to find.                    *)
(***************************************************************************)
\* Mutant: the walk stops short of the task it started the ring with.
MutantRunnable(st) == {t \in Pids \ {current_task, task0} : st[t] = "READY"}

Runnable(st) == {t \in Pids \ {current_task} : st[t] = "READY"}

SwitchTo(st, t) ==
    [s \in Pids |->
        IF s = t THEN "RUNNING"
        ELSE IF s = current_task /\ st[s] = "RUNNING" THEN "READY"
        ELSE st[s]]

\* sched_reap(): dead tasks that came from kmalloc leave the ring and their
\* task_t is freed.  f is a field of task_t, null its value for no task.
Reap(f, null) ==
    [t \in Pids |->
        IF t \notin {current_task, task0} /\ state[t] = "DEAD" THEN null ELSE f[t]]

-----------------------------------------------------------------------------
(***************************************************************************)
(* exec_run.                                                                *)
(***************************************************************************)
\* What is saved: the stack and the intersection of the caller's image with
\* the child's, nothing when the caller is not an ELF task.
FrameFor(p, g) ==
    LET base == IF ProgLo[g] > elf[p].lo THEN ProgLo[g] ELSE elf[p].lo
        end  == IF ProgHi[g] < elf[p].hi THEN ProgHi[g] ELSE elf[p].hi
    IN  IF IsElf(p)
        THEN [has |-> 1, off |-> exec_pool_used, stack_len |-> StackSize,
              img_base |-> base, img_len |-> IF end > base THEN end - base ELSE 0,
              brk |-> user_brk]
        ELSE [NoFrame EXCEPT !.has = 1, !.off = exec_pool_used, !.brk = user_brk]

\* The two memcpys into the pool.
FrameSave(f) ==
    [i \in 0 .. PoolSize - 1 |->
        LET j == i - f.off
        IN  IF j \in f.stack_len .. f.stack_len + f.img_len - 1
              THEN mem[f.img_base + j - f.stack_len]
            ELSE IF j \in 0 .. f.stack_len - 1 THEN mem[StackBase + j]
            ELSE exec_pool[i]]

\* Mutant: the image is copied back from the start of the frame, the stack's part.
MutantFrameRestore(f, m, pl) ==
    [a \in Addr |->
        IF a \in f.img_base .. f.img_base + f.img_len - 1 THEN pl[f.off + a - f.img_base]
        ELSE IF a \in StackBase .. StackBase + f.stack_len - 1
          THEN pl[f.off + a - StackBase]
        ELSE m[a]]

\* frame_restore(): the two memcpys back, applied to memory m and pool pl.
FrameRestore(f, m, pl) ==
    [a \in Addr |->
        IF a \in f.img_base .. f.img_base + f.img_len - 1
          THEN pl[f.off + f.stack_len + a - f.img_base]
        ELSE IF a \in StackBase .. StackBase + f.stack_len - 1
          THEN pl[f.off + a - StackBase]
        ELSE m[a]]

\* elf_build_user_stack(): strings, vectors and argc fill the top n bytes.
BuildUserStack(m, n) ==
    [a \in Addr |-> IF a \in StackBase + StackSize - n .. StackBase + StackSize - 1
                    THEN 0 ELSE m[a]]

\* elf_load(): the segments, zero-filled past their file part.
ElfLoad(m, g) == [a \in Addr |-> IF a \in ProgLo[g] .. ProgHi[g] - 1 THEN 0 ELSE m[a]]

PoolFits(f) == f.off + FrameLen(f) <= PoolSize

\* Early returns: no path, no such file, empty, not an ELF, arguments too
\* large, or no room in the pool.  Nothing has been touched.
ExecRefused ==
    /\ pc = "user"
    /\ eax' = Failed
    /\ UNCHANGED <<pc, current_task, next_pid, taskVars, poolVars, mem,
                   user_brk, exitVars, snap>>

\* Mutant: a failure after the save returns without frame_restore.
MutantExecFail(g, n, stage) ==
    LET f  == FrameFor(current_task, g)
        m1 == IF stage = "stack" THEN mem ELSE BuildUserStack(mem, n)
        m2 == IF stage = "task" THEN ElfLoad(m1, g) ELSE m1
    IN  /\ pc = "user"
        /\ PoolFits(f)
        /\ exec_pool' = FrameSave(f)
        /\ exec_pool_used' = f.off
        /\ mem' = m2
        /\ eax' = Failed
        /\ UNCHANGED <<pc, current_task, next_pid, taskVars, user_brk, exitVars, snap>>

\* EXEC_FAIL(): the arguments do not fit the stack, elf_load refuses a
\* segment, or sched_task_new is out of kernel heap.  The caller's memory has
\* been overwritten up to that point and is put back.
ExecFail(g, n, stage) ==
    LET f  == FrameFor(current_task, g)
        m1 == IF stage = "stack" THEN mem ELSE BuildUserStack(mem, n)
        m2 == IF stage = "task" THEN ElfLoad(m1, g) ELSE m1
    IN  /\ pc = "user"
        /\ PoolFits(f)
        /\ exec_pool' = FrameSave(f)
        /\ exec_pool_used' = f.off
        /\ mem' = FrameRestore(f, m2, FrameSave(f))
        /\ IF stage = "task"
           THEN /\ state' = Reap(state, "FREE")
                /\ parent' = Reap(parent, 0) /\ zombie' = Reap(zombie, NoZombie)
                /\ elf' = Reap(elf, NoElf) /\ frame' = Reap(frame, NoFrame)
           ELSE UNCHANGED taskVars
        /\ eax' = Failed
        /\ UNCHANGED <<pc, current_task, next_pid, user_brk, exitVars, snap>>

\* The child is created, the caller blocks and schedule() runs the child.
ExecStart(g, n) ==
    LET f == FrameFor(current_task, g)
        child == next_pid
        blocked == [Reap(state, "FREE") EXCEPT ![child] = "READY", ![current_task] = "BLOCKED"]
    IN  /\ pc = "user"
        /\ child <= MaxPid
        /\ PoolFits(f)
        /\ exec_pool' = FrameSave(f)
        /\ exec_pool_used' = f.off + FrameLen(f)
        /\ mem' = ElfLoad(BuildUserStack(mem, n), g)
        /\ next_pid' = next_pid + 1
        /\ parent' = [Reap(parent, 0) EXCEPT ![child] = current_task]
        /\ zombie' = [Reap(zombie, NoZombie) EXCEPT ![child] = NoZombie]
        /\ elf' = [Reap(elf, NoElf) EXCEPT ![child] = [lo |-> ProgLo[g], hi |-> ProgHi[g]]]
        /\ frame' = [Reap(frame, NoFrame) EXCEPT ![child] = f]
        /\ snap' = [snap EXCEPT ![child] = [mem |-> mem, brk |-> user_brk]]
        /\ eax' = 0
        /\ \E t \in Runnable(blocked) :
              current_task' = t /\ state' = SwitchTo(blocked, t)
        /\ UNCHANGED <<pc, user_brk, exitVars>>

ExecStages == {"stack", "load", "task"}

Exec ==
    \/ ExecRefused
    \/ \E g \in Progs, n \in 1 .. StackSize :
          \/ ExecStart(g, n)
          \/ \E stage \in ExecStages : ExecFail(g, n, stage)

-----------------------------------------------------------------------------
(***************************************************************************)
(* Ending a task: exit, kill and the recursion of task_exit_noswitch.       *)
(***************************************************************************)
BeginExit(t, status) ==
    /\ pc' = "exit"
    /\ victim' = t /\ exit_status' = status /\ at' = t
    /\ eax' = 0
    /\ UNCHANGED <<current_task, next_pid, taskVars, poolVars, mem, user_brk, snap>>

\* System call 0: the status is the low byte of the code, shifted left by 8.
SysExit ==
    /\ pc = "user"
    /\ \E code \in ExitCodes : BeginExit(current_task, (code % 256) * 256)

\* System call 28.  Any signal but 0 terminates the target.
SysKill(t, sig) ==
    /\ pc = "user"
    /\ sig \in 1 .. MaxSig
    /\ Live(t)
    /\ BeginExit(t, sig)

SysKillNothing(t, sig) ==
    /\ pc = "user"
    /\ sig \notin 1 .. MaxSig \/ ~Live(t)
    /\ eax' = IF sig > MaxSig \/ ~Live(t) THEN Failed ELSE 0
    /\ UNCHANGED <<pc, current_task, next_pid, taskVars, poolVars, mem,
                   user_brk, exitVars, snap>>

\* Mutant: a child that is itself waiting for a child is left alone.
MutantLiveChildren(t) == {c \in Pids : parent[c] = t /\ state[c] \in {"READY", "RUNNING"}}

LiveChildren(t) == {c \in Pids : parent[c] = t /\ state[c] # "FREE" /\ state[c] # "DEAD"}

\* The loop over the ring calls task_exit_noswitch(t, 9) on a live child.
ExitDescend ==
    /\ pc = "exit"
    /\ \E c \in LiveChildren(at) : at' = c
    /\ UNCHANGED <<pc, current_task, next_pid, taskVars, poolVars, mem, user_brk,
                   eax, victim, exit_status, snap>>

\* Mutant: the frame is copied back and its part of the pool is not given back.
MutantExecRestore(t) ==
    /\ mem' = IF frame[t].has = 1 THEN FrameRestore(frame[t], mem, exec_pool) ELSE mem
    /\ user_brk' = IF frame[t].has = 1 THEN frame[t].brk ELSE user_brk
    /\ frame' = [frame EXCEPT ![t].has = 0]
    /\ UNCHANGED exec_pool_used

\* exec_restore(child).
ExecRestore(t) ==
    IF frame[t].has = 1
    THEN /\ mem' = FrameRestore(frame[t], mem, exec_pool)
         /\ user_brk' = frame[t].brk
         /\ exec_pool_used' = frame[t].off
         /\ frame' = [frame EXCEPT ![t].has = 0]
    ELSE UNCHANGED <<mem, user_brk, exec_pool_used, frame>>

\* Mutant: the waiting caller is not made READY.
MutantNoWakeup ==
    LET p == parent[at]
    IN  /\ pc = "exit"
        /\ LiveChildren(at) = {}
        /\ IF p # 0 THEN ExecRestore(at) ELSE UNCHANGED <<mem, user_brk, exec_pool_used, frame>>
        /\ state' = [state EXCEPT ![at] = "DEAD"]
        /\ IF at = victim THEN pc' = "switch" /\ at' = at ELSE pc' = pc /\ at' = p
        /\ UNCHANGED <<current_task, next_pid, parent, zombie, elf, exec_pool, eax, victim,
                       exit_status, snap>>

\* Mutant: after a child's end the scan goes on with that child, not its caller.
MutantNoReturn ==
    LET p == parent[at]
    IN  /\ pc = "exit"
        /\ LiveChildren(at) = {}
        /\ IF p # 0 THEN ExecRestore(at) ELSE UNCHANGED <<mem, user_brk, exec_pool_used, frame>>
        /\ state' = [s \in Pids |-> IF s = at THEN "DEAD"
                                    ELSE IF s = p /\ state[s] = "BLOCKED" THEN "READY"
                                    ELSE state[s]]
        /\ pc' = IF at = victim THEN "switch" ELSE pc
        /\ UNCHANGED <<current_task, next_pid, parent, zombie, elf, exec_pool, eax, exitVars,
                       snap>>

\* The rest of task_exit_noswitch(at, ...), and its return: to the caller,
\* whose task is at's parent, or to sched_task_exit.
ExitFinish ==
    LET p == parent[at]
        status == IF at = victim THEN exit_status ELSE SIGKILL
    IN  /\ pc = "exit"
        /\ LiveChildren(at) = {}
        /\ IF p # 0
           THEN /\ ExecRestore(at)
                /\ zombie' = [zombie EXCEPT ![p] =
                                 [valid |-> 1, pid |-> at, status |-> status]]
                /\ state' = [state EXCEPT ![p] = IF @ = "BLOCKED" THEN "READY" ELSE @,
                                          ![at] = "DEAD"]
           ELSE /\ state' = [state EXCEPT ![at] = "DEAD"]
                /\ UNCHANGED <<mem, user_brk, exec_pool_used, frame, zombie>>
        /\ IF at = victim
           THEN pc' = "switch" /\ at' = at /\ snap' = snap
           ELSE pc' = pc /\ at' = p /\ snap' = [snap EXCEPT ![at] = NoSnap]
        /\ UNCHANGED <<current_task, next_pid, parent, elf, exec_pool, eax, victim,
                       exit_status>>

\* The tail of sched_task_exit: switch away if the running task died.  The
\* task switched to returns 0 from the exec_run it was blocked in.
ExitSwitch ==
    /\ pc = "switch"
    /\ \E t \in IF state[current_task] = "DEAD" THEN Runnable(state) ELSE {current_task} :
          current_task' = t /\ state' = SwitchTo(state, t)
    /\ pc' = "user" /\ eax' = 0
    /\ victim' = 0 /\ exit_status' = 0 /\ at' = 0
    /\ snap' = [snap EXCEPT ![victim] = NoSnap]
    /\ UNCHANGED <<next_pid, parent, zombie, elf, frame, poolVars, mem, user_brk>>

\* schedule() came back: nothing is runnable.
ExitHalt ==
    /\ pc = "switch"
    /\ state[current_task] = "DEAD" /\ Runnable(state) = {}
    /\ pc' = "halted"
    /\ UNCHANGED <<current_task, next_pid, taskVars, poolVars, mem, user_brk, eax,
                   exitVars, snap>>

\* for (;;) hlt
Halted == pc = "halted" /\ UNCHANGED vars

-----------------------------------------------------------------------------
(***************************************************************************)
(* The other system calls on this state, and user code.                     *)
(***************************************************************************)
\* What the running program may store to: its image and the shared stack.
Writable(t) == IF IsElf(t) THEN (Image(t) \cup StackAddrs) \cap Addr ELSE {}

\* System call 31.  The status goes to user memory when a is given.
SysWait(a) ==
    LET z == zombie[current_task]
    IN  /\ pc = "user"
        /\ IF z.valid = 0
           THEN eax' = Failed /\ UNCHANGED <<zombie, mem>>
           ELSE /\ eax' = z.pid
                /\ zombie' = [zombie EXCEPT ![current_task].valid = 0]
                /\ mem' = IF a \in Addr THEN [mem EXCEPT ![a] = current_task] ELSE mem
        /\ UNCHANGED <<pc, current_task, next_pid, state, parent, elf, frame,
                       poolVars, user_brk, exitVars, snap>>

\* System call 4, sbrk_handler.
SysSbrk(inc) ==
    LET old == IF user_brk = NoBrk THEN 0 ELSE user_brk
        new == old + inc
        ok  == ~(inc < 0 /\ new < 0) /\ new <= HeapSize
    IN  /\ pc = "user"
        /\ user_brk' = IF ok THEN new ELSE old
        /\ eax' = IF ok THEN 0 ELSE Failed
        /\ UNCHANGED <<pc, current_task, next_pid, taskVars, poolVars, mem,
                       exitVars, snap>>

UserWrite(a) ==
    /\ pc = "user"
    /\ mem' = [mem EXCEPT ![a] = current_task]
    /\ eax' = 0
    /\ UNCHANGED <<pc, current_task, next_pid, taskVars, poolVars, user_brk,
                   exitVars, snap>>

ExitPath == ExitDescend \/ ExitFinish \/ ExitSwitch \/ ExitHalt

Next ==
    \/ Exec
    \/ SysExit
    \/ \E t \in Pids, sig \in Signals : SysKill(t, sig) \/ SysKillNothing(t, sig)
    \/ ExitPath
    \/ Halted
    \/ \E a \in Writable(current_task) \cup {-1} : SysWait(a)
    \/ \E inc \in Increments : SysSbrk(inc)
    \/ \E a \in Writable(current_task) : UserWrite(a)

\* The exit path is straight-line kernel code: the processor runs it.
Spec == Init /\ [][Next]_vars /\ WF_vars(ExitPath)

-----------------------------------------------------------------------------
(***************************************************************************)
(* Properties.                                                              *)
(***************************************************************************)
FrameType == [has : {0, 1}, off : Nat, stack_len : Nat, img_base : Nat,
              img_len : Nat, brk : Int]

\* Type correctness: every field of the task table, the pool and user memory
\* holds a value of its C type.
TypeOK ==
    /\ pc \in {"user", "exit", "switch", "halted"}
    /\ current_task \in Pids
    /\ next_pid \in Nat \ {0, 1}
    /\ state \in [Pids -> {"FREE", "READY", "RUNNING", "BLOCKED", "DEAD"}]
    /\ parent \in [Pids -> 0 .. MaxPid]
    /\ zombie \in [Pids -> [valid : {0, 1}, pid : Nat, status : Nat]]
    /\ elf \in [Pids -> [lo : Nat, hi : Nat]]
    /\ frame \in [Pids -> FrameType]
    /\ exec_pool \in [0 .. PoolSize - 1 -> Tag]
    /\ exec_pool_used \in Nat
    /\ mem \in [Addr -> Tag]
    /\ user_brk \in Int
    /\ eax \in Int
    /\ victim \in 0 .. MaxPid /\ exit_status \in Nat /\ at \in 0 .. MaxPid
    /\ snap \in [Pids -> [mem : [Addr -> Tag], brk : Int]]

\* The live tasks form one chain of callers: of two live tasks the older one
\* is blocked and an ancestor-or-equal of the younger one's caller, and in
\* user mode the youngest is the running one.  So schedule() has at most one
\* task to choose from, and sched.h's "task blocked in execv waiting for us"
\* is what task_t.parent is.
ProcessChain ==
    /\ \A s, t \in LiveTasks : s < t => state[s] = "BLOCKED" /\ s <= parent[t]
    /\ \A t \in LiveTasks \ {task0} : parent[t] \in LiveTasks /\ parent[t] < t
    /\ pc = "user" => state[current_task] = "RUNNING"

\* A live task is blocked exactly while a child it started is alive
\* (TASK_BLOCKED, "waiting for a child started by execv to finish"): no wake-up
\* of exec_run is lost and none comes early, even when a descendant kills an
\* ancestor.
BlockedIffChild ==
    \A t \in LiveTasks : state[t] = "BLOCKED" <=> LiveChildren(t) # {}

\* End of the part of the pool that task t's frame occupies.
FrameEnd(t) == frame[t].off + FrameLen(frame[t])

\* The frames of live tasks are stacked in the pool in the order of their
\* pids without overlap or gap, and exec_pool_used is the end of the youngest:
\* "their saved frames are popped in LIFO order".  With task0 alone, or no
\* task, the pool is empty again: no exit, kill or failed exec leaks a part.
PoolIsStack ==
    /\ \A s, t \in LiveTasks : s < t => FrameEnd(s) <= frame[t].off
    /\ \A t \in LiveTasks \ {task0} :
          frame[t].has = 1 /\ frame[t].off = FrameEnd(parent[t])
    /\ \A t \in LiveTasks : state[t] # "BLOCKED" => exec_pool_used = FrameEnd(t)
    /\ LiveTasks = {} => exec_pool_used = 0
    /\ exec_pool_used <= PoolSize

\* What exec_run has to save for the parent of t.
Saved(t) ==
    IF IsElf(parent[t])
    THEN StackAddrs \cup (Image(parent[t]) \cap Image(t)) ELSE {}

\* exec-and-wait: when the exit path goes back to user mode it is to the
\* caller of the task that was ended, whose wait() slot names that task and
\* its status, whose heap break is the one it had, and whose stack and the
\* part of its image that the child's image covers hold what they held when
\* it called execv, whatever the child, its descendants, failed execs and
\* kills from below did in between.
ExecReturns ==
    [][pc = "switch" /\ pc' = "user" =>
          LET p == current_task'
          IN  /\ p = parent[victim]
              /\ zombie'[p] = [valid |-> 1, pid |-> victim, status |-> exit_status]
              /\ user_brk' = snap[victim].brk
              /\ \A a \in Saved(victim) : mem'[a] = snap[victim].mem[a]]_vars

BrkPos == IF user_brk = NoBrk THEN 0 ELSE user_brk

\* A system call that answers -1 or -errno had no effect on its caller: no byte of its
\* image or stack, no live task, no part of the pool and no heap changed
\* ("Failure from here on must put the caller's memory back", exec.c).
FailedCallHarmless ==
    [][eax' = Failed =>
          /\ \A a \in Writable(current_task) : mem'[a] = mem[a]
          /\ BrkPos' = BrkPos /\ exec_pool_used' = exec_pool_used
          /\ current_task' = current_task /\ LiveTasks' = LiveTasks
          /\ \A t \in LiveTasks : state'[t] = state[t] /\ frame'[t] = frame[t]]_vars

\* The kernel halts only when every task has ended: it never stops with a
\* caller still blocked ("no runnable tasks left, halting").
HaltOnlyWhenDone == pc = "halted" => LiveTasks = {}

\* Ending a task terminates: the recursion over the descendants comes to an
\* end and the processor goes back to user code or halts.
ExitCompletes == pc = "exit" ~> pc \in {"user", "halted"}

\* README.md: the kernel "saves the parts of its image, stack and heap break
\* that the child would overwrite, runs the child to completion, then restores
\* them": a caller that continues finds its whole image as it left it.
WholeImageRestored ==
    [][pc = "switch" /\ pc' = "user" =>
          \A a \in Image(parent[victim]) : mem'[a] = snap[victim].mem[a]]_vars
=============================================================================
