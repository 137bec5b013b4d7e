------------------------------ MODULE TaskHeap ------------------------------
(***************************************************************************)
(* The task ring of kernel/arch/i386/sched.c and the kernel heap it lives    *)
(* in: sched_task_new takes a task_t and a kernel stack from kmalloc,        *)
(* sched_reap gives those of dead tasks back.                                *)
(*                                                                         *)
(* ExecWait shows that the live tasks are a chain of callers of which the    *)
(* last one runs, and that the end of a task ends the tasks after it and      *)
(* switches to the one before it.  Here that chain is a sequence.             *)
(***************************************************************************)
EXTENDS Kmalloc, Sequences, SequencesExt

CONSTANTS
    TaskSize,    \* sizeof(task_t)
    StackSize,   \* of a kernel stack
    MaxPid,      \* bound on next_pid
    MaxDepth     \* bound on the number of live tasks

ASSUME TaskAssumption == {TaskSize, StackSize, MaxPid, MaxDepth} \subseteq Nat \ {0}

VARIABLES
    taskHeap,  \* the heap
    ring,      \* the tasks in the order of task_t.next, from current_task
    chain,     \* the live tasks, each the caller of the next
    mem,       \* task_t.stack and the address of the task_t: blocks, by pid
    next_pid,
    refused    \* history: live tasks when sched_task_new last failed, or 0

taskVars == <<taskHeap, ring, chain, mem, next_pid, refused>>

task0 == 1     \* static: heap_alloc is 0
Live == ToSet(chain)
current_task == Head(ring)

TaskInit ==
    /\ taskHeap = EmptyHeap
    /\ ring = <<task0>> /\ chain = <<task0>>
    /\ mem = [t \in {} |-> [task |-> Null, stack |-> Null]]
    /\ next_pid = 2 /\ refused = 0

\* No task was made or ended yet.
Idle == chain = <<task0>> /\ next_pid = 2 /\ refused = 0

-----------------------------------------------------------------------------
\* What sched_reap() removes: dead tasks, but not the running one or task0.
Reaped(t) == t \notin Live \cup {task0}

\* Mutant: the state of the task is not looked at before its memory is freed.
MutantFreeTask(h, t) == IF t # task0 THEN Free(Free(h, mem[t].stack), mem[t].task) ELSE h
\* The stack first.
FreeTask(h, t) == IF Reaped(t) THEN Free(Free(h, mem[t].stack), mem[t].task) ELSE h

\* Task t is unlinked when its memory is freed, else it stays on the ring.
LinkTask(r, t) == IF Reaped(t) THEN r ELSE Append(r, t)
ReapOne(s, t) == [heap |-> FreeTask(s.heap, t), ring |-> LinkTask(s.ring, t)]

\* sched_reap(): the heap and the ring after k turns of the loop, which goes
\* along the ring from the task after current_task.
ReapLoop[k \in 0 .. Len(ring) - 1] ==
    IF k = 0 THEN [heap |-> taskHeap, ring |-> <<current_task>>]
    ELSE ReapOne(ReapLoop[k - 1], ring[k + 1])

ReapHeap == ReapLoop[Len(ring) - 1].heap
ReapRing == ReapLoop[Len(ring) - 1].ring
ReapMem == [t \in {s \in DOMAIN mem : ~Reaped(s)} |-> mem[t]]

\* Mutant: the task_t is not given back when there is no stack.
MutantGiveBack(h, task) == h
\* kfree(task) of the failure path; without a task_t there is nothing to free.
GiveBack(h, task) == IF task = Null THEN h ELSE Free(h, task)

\* sched_task_new(), called by current_task: reap, a task_t, a stack.  When
\* there is no stack the task_t goes back.
sched_task_new ==
    LET h1 == ReapHeap
        task == MallocBlock(h1, TaskSize)
        h2 == MallocHeap(h1, TaskSize)
        stack == MallocBlock(h2, StackSize)
        pid == next_pid
    IN  /\ chain # << >> /\ next_pid <= MaxPid /\ Len(chain) < MaxDepth
        /\ IF task # Null /\ stack # Null
           THEN /\ taskHeap' = MallocHeap(h2, StackSize)
                /\ mem' = [t \in DOMAIN ReapMem \cup {pid} |->
                             IF t = pid THEN [task |-> task, stack |-> stack] ELSE ReapMem[t]]
                \* linked in after the caller; schedule() makes it current_task
                /\ ring' = <<pid>> \o Tail(ReapRing) \o <<current_task>>
                /\ chain' = Append(chain, pid)
                /\ next_pid' = next_pid + 1
                /\ refused' = 0
           ELSE /\ taskHeap' = GiveBack(h2, task)
                /\ mem' = ReapMem /\ ring' = ReapRing
                /\ refused' = Len(chain)
                /\ UNCHANGED <<chain, next_pid>>

\* exit by the last task of the chain or kill of the i-th: it and those it
\* waits for die, and its caller runs.
Rotate(r, t) == LET i == CHOOSE j \in DOMAIN r : r[j] = t
                IN  SubSeq(r, i, Len(r)) \o SubSeq(r, 1, i - 1)

EndTask(i) ==
    /\ chain' = SubSeq(chain, 1, i - 1)
    /\ ring' = IF i = 1 THEN ring ELSE Rotate(ring, chain[i - 1])
    /\ refused' = 0
    /\ UNCHANGED <<taskHeap, mem, next_pid>>

Halted == chain = << >> /\ UNCHANGED taskVars

TaskNext == sched_task_new \/ (\E i \in DOMAIN chain : EndTask(i)) \/ Halted

TaskSpec == TaskInit /\ [][TaskNext]_taskVars

-----------------------------------------------------------------------------
(* Properties.                                                              *)

BlocksOf(t) == {mem[t].task, mem[t].stack}

\* No use after free: each task on the ring, also one that is dead and still
\* runs on its stack in sched_task_exit, has its own two blocks in use, large
\* enough, shared with no other task.
StacksAreLive ==
    /\ \A t \in DOMAIN mem :
          /\ BlocksOf(t) \subseteq Blocks(taskHeap)
          /\ \A b \in BlocksOf(t) : taskHeap.blk[b].is_free = 0 /\ b # heap_base
          /\ taskHeap.blk[mem[t].task].size >= TaskSize /\ taskHeap.blk[mem[t].stack].size >= StackSize
          /\ mem[t].task # mem[t].stack
    /\ \A s, t \in DOMAIN mem : s # t => BlocksOf(s) \cap BlocksOf(t) = {}

\* No leak: every block in use belongs to a task on the ring, also after a
\* sched_task_new that got its task_t and no stack.
TasksLeakNothing ==
    \A b \in Blocks(taskHeap) :
       taskHeap.blk[b].is_free = 1 \/ b = heap_base \/ \E t \in DOMAIN mem : b \in BlocksOf(t)

\* sched.h: "NULL if out of memory".  When sched_task_new fails, the tasks that
\* are alive and one more do not fit the heap.
Need(n) == MetaSize + n * (2 * MetaSize + TaskSize + StackSize)
NullMeansFull == refused # 0 => Need(refused) > HeapEnd
=============================================================================
