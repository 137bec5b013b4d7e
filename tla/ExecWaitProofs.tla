--------------------------- MODULE ExecWaitProofs ---------------------------
(***************************************************************************)
(* Proofs about ExecWait for every number of pids, every set of programs    *)
(* and every size of memory, stack and pool.                                *)
(*                                                                         *)
(* No property of ExecWait is inductive alone: that a frame can be copied    *)
(* back needs the order of the frames in the pool, which needs that the      *)
(* tasks end youngest first, which needs that the live tasks form a chain    *)
(* whose blocked members are exactly those with a live child.                *)
(***************************************************************************)
EXTENDS ExecWait, TLAPS

-----------------------------------------------------------------------------
(* The inductive invariant.                                                 *)

\* Pids that have not been given out name no task, and task0 has no caller.
Fresh ==
    /\ \A t \in Pids : t >= next_pid => state[t] = "FREE"
    /\ parent[task0] = 0 /\ frame[task0] = NoFrame

\* Only current_task can be RUNNING; it stays in the ring when it dies.
CurrentOK ==
    /\ \A t \in Pids : state[t] = "RUNNING" => t = current_task
    /\ state[current_task] \in {"RUNNING", "DEAD"}

\* The recursion of task_exit_noswitch stands between its first argument and
\* the youngest live task.
ExitOK ==
    pc = "exit" => victim \in LiveTasks /\ at \in LiveTasks /\ victim <= at

\* After it, victim and every task younger are dead and its caller is READY.
SwitchOK ==
    pc = "switch" =>
        /\ victim \in Pids /\ victim = at /\ state[victim] = "DEAD"
        /\ state[current_task] = "DEAD"
        /\ parent[victim] = 0 => LiveTasks = {}
        /\ parent[victim] # 0 =>
              /\ parent[victim] \in Pids /\ state[parent[victim]] = "READY"

TreeInv == Fresh /\ CurrentOK /\ ProcessChain /\ BlockedIffChild
           /\ ExitOK /\ SwitchOK /\ HaltOnlyWhenDone

\* A frame lies inside the pool, and the image part it saves inside memory.
FramesFit ==
    \A t \in Pids : /\ FrameEnd(t) <= PoolSize
                    /\ frame[t].stack_len \in {0, StackSize}
                    /\ frame[t].img_len # 0 => frame[t].img_base + frame[t].img_len <= MemTop

\* The frame of a live task describes all that its caller must get back.
FrameShape ==
    \A t \in LiveTasks \ {task0} :
        /\ frame[t].brk = snap[t].brk
        /\ IsElf(parent[t]) =>
              /\ frame[t].stack_len = StackSize
              /\ \A a \in Image(parent[t]) \cap Image(t) :
                    a \in frame[t].img_base .. frame[t].img_base + frame[t].img_len - 1

\* The frame f of pool pl is a copy of the stack and image part of memory m.
FrameHolds(pl, f, m) ==
    /\ \A j \in 0 .. f.stack_len - 1 : pl[f.off + j] = m[StackBase + j]
    /\ \A j \in 0 .. f.img_len - 1 : pl[f.off + f.stack_len + j] = m[f.img_base + j]

\* The pool holds, in the frames of the live tasks, memory as it was when
\* they were started.
PoolHolds ==
    \A t \in LiveTasks \ {task0} : FrameHolds(exec_pool, frame[t], snap[t].mem)

\* Once victim is dead its caller has everything back.
Restored ==
    pc = "switch" /\ parent[victim] # 0 =>
        /\ zombie[parent[victim]] = [valid |-> 1, pid |-> victim, status |-> exit_status]
        /\ user_brk = snap[victim].brk
        /\ \A a \in Saved(victim) : mem[a] = snap[victim].mem[a]

IInv == TypeOK /\ TreeInv /\ FramesFit /\ PoolIsStack /\ FrameShape /\ PoolHolds /\ Restored

-----------------------------------------------------------------------------
(* Frames.                                                                  *)

\* Padding to a multiple of Align never makes a length smaller.
LEMMA AlignProps ==
    ASSUME NEW v \in Nat
    PROVE  AlignUp(v) \in Nat /\ v <= AlignUp(v) /\ AlignUp(0) = 0
<1>1. Align \in Nat /\ Align > 0
  BY LayoutAssumption
<1> DEFINE w == v + Align - 1
           q == w \div Align
           r == w % Align
<1>2. w \in Nat /\ q \in Nat /\ r \in 0 .. Align - 1 /\ w = q * Align + r
  BY <1>1
<1>3. q * Align \in Nat
  BY <1>1, <1>2
<1>4. v <= q * Align
  BY <1>1, <1>2, <1>3
<1>5. (0 + Align - 1) \div Align = 0
  BY <1>1
<1> QED BY <1>1, <1>3, <1>4, <1>5 DEF AlignUp

\* The length of a frame covers its two parts.
LEMMA FrameLenProps ==
    ASSUME NEW f \in FrameType
    PROVE  /\ FrameLen(f) \in Nat
           /\ f.stack_len + f.img_len <= FrameLen(f)
<1>1. f.stack_len \in Nat /\ f.img_len \in Nat
  BY DEF FrameType
<1> QED BY <1>1, AlignProps DEF FrameLen

\* What FrameFor computes: a frame at the end of the used pool, whose parts
\* lie in memory and which covers everything that must be saved.
LEMMA FrameForProps ==
    ASSUME TypeOK, NEW p \in Pids, NEW g \in Progs
    PROVE  /\ FrameFor(p, g) \in FrameType
           /\ FrameFor(p, g).has = 1
           /\ FrameFor(p, g).off = exec_pool_used
           /\ FrameFor(p, g).brk = user_brk
           /\ FrameFor(p, g).stack_len \in {0, StackSize}
           /\ FrameFor(p, g).img_len # 0 =>
                 FrameFor(p, g).img_base + FrameFor(p, g).img_len <= MemTop
           /\ IsElf(p) =>
                /\ FrameFor(p, g).stack_len = StackSize
                /\ \A a \in Image(p) \cap (ProgLo[g] .. ProgHi[g] - 1) :
                      a \in FrameFor(p, g).img_base ..
                            FrameFor(p, g).img_base + FrameFor(p, g).img_len - 1
<1> DEFINE f == FrameFor(p, g)
           base == IF ProgLo[g] > elf[p].lo THEN ProgLo[g] ELSE elf[p].lo
           end  == IF ProgHi[g] < elf[p].hi THEN ProgHi[g] ELSE elf[p].hi
           len  == IF end > base THEN end - base ELSE 0
<1>1. /\ ProgLo[g] \in Nat /\ ProgHi[g] \in Nat /\ ProgHi[g] <= MemTop
      /\ elf[p].lo \in Nat /\ elf[p].hi \in Nat
      /\ exec_pool_used \in Nat /\ user_brk \in Int
      /\ MemTop \in Nat /\ StackSize \in Nat
  BY ImageAssumption, LayoutAssumption DEF TypeOK
<1>2. /\ base \in Nat /\ len \in Nat /\ (end > base => base + len <= MemTop)
      /\ \A a \in Image(p) \cap (ProgLo[g] .. ProgHi[g] - 1) : a \in base .. base + len - 1
  BY <1>1 DEF Image
<1>3. CASE IsElf(p)
  <2>1. f = [has |-> 1, off |-> exec_pool_used, stack_len |-> StackSize,
             img_base |-> base, img_len |-> len, brk |-> user_brk]
    BY <1>3 DEF FrameFor
  <2> QED BY <1>1, <1>2, <1>3, <2>1 DEF FrameType
<1>4. CASE ~IsElf(p)
  <2>1. f = [has |-> 1, off |-> exec_pool_used, stack_len |-> 0,
             img_base |-> 0, img_len |-> 0, brk |-> user_brk]
    BY <1>4 DEF FrameFor, NoFrame
  <2> QED BY <1>1, <1>4, <2>1 DEF FrameType
<1> QED BY <1>3, <1>4

\* A frame that can be copied from memory to the pool and back.
GoodFrame(f) ==
    /\ f \in FrameType
    /\ f.off + FrameLen(f) <= PoolSize
    /\ f.stack_len \in {0, StackSize}
    /\ f.img_len # 0 => f.img_base + f.img_len <= MemTop

\* A frame that fits the pool and memory stays within both, part by part.
LEMMA GoodFrameProps ==
    ASSUME NEW f, GoodFrame(f)
    PROVE  /\ f.off \in Nat /\ f.stack_len \in Nat /\ f.img_base \in Nat /\ f.img_len \in Nat
           /\ f.off + f.stack_len + f.img_len <= PoolSize
<1>1. f.off \in Nat /\ f.stack_len \in Nat /\ f.img_base \in Nat /\ f.img_len \in Nat
  BY DEF GoodFrame, FrameType
<1>2. FrameLen(f) \in Nat /\ f.stack_len + f.img_len <= FrameLen(f)
  BY FrameLenProps DEF GoodFrame
<1>3. f.off + FrameLen(f) <= PoolSize /\ PoolSize \in Nat
  BY LayoutAssumption DEF GoodFrame
<1> QED BY <1>1, <1>2, <1>3

\* Saving a frame writes memory into the frame's part of the pool and leaves
\* the part before it alone.
LEMMA SaveProps ==
    ASSUME TypeOK, NEW f, GoodFrame(f)
    PROVE  /\ FrameSave(f) \in [0 .. PoolSize - 1 -> Tag]
           /\ \A i \in 0 .. PoolSize - 1 : i < f.off => FrameSave(f)[i] = exec_pool[i]
           /\ FrameHolds(FrameSave(f), f, mem)
<1>1. /\ f.off \in Nat /\ f.stack_len \in Nat /\ f.img_base \in Nat /\ f.img_len \in Nat
      /\ f.off + f.stack_len + f.img_len <= PoolSize
  BY GoodFrameProps
<1>2. /\ MemTop \in Nat /\ StackBase \in Nat /\ StackSize \in Nat
      /\ StackBase + StackSize <= MemTop /\ PoolSize \in Nat
  BY LayoutAssumption
<1>3. \A j \in 0 .. f.stack_len - 1 : StackBase + j \in Addr
  BY <1>1, <1>2 DEF GoodFrame, Addr
<1>4. \A j \in 0 .. f.img_len - 1 : f.img_base + j \in Addr
  BY <1>1, <1>2 DEF GoodFrame, Addr
<1>5. mem \in [Addr -> Tag] /\ exec_pool \in [0 .. PoolSize - 1 -> Tag]
  BY DEF TypeOK
<1>6. ASSUME NEW i \in 0 .. PoolSize - 1
      PROVE  FrameSave(f)[i] \in Tag
  <2>1. CASE i - f.off \in f.stack_len .. f.stack_len + f.img_len - 1
    <3>1. f.img_base + (i - f.off) - f.stack_len \in Addr
      BY <1>1, <1>4, <2>1
    <3> QED BY <2>1, <3>1, <1>5 DEF FrameSave
  <2>2. CASE i - f.off \notin f.stack_len .. f.stack_len + f.img_len - 1
    BY <2>2, <1>1, <1>3, <1>5 DEF FrameSave
  <2> QED BY <2>1, <2>2
<1>7. FrameSave(f) \in [0 .. PoolSize - 1 -> Tag]
  BY <1>6 DEF FrameSave
<1>8. ASSUME NEW i \in 0 .. PoolSize - 1, i < f.off
      PROVE  FrameSave(f)[i] = exec_pool[i]
  BY <1>1, <1>8 DEF FrameSave
<1>9. ASSUME NEW j \in 0 .. f.stack_len - 1
      PROVE  FrameSave(f)[f.off + j] = mem[StackBase + j]
  <2>1. f.off + j \in 0 .. PoolSize - 1 /\ (f.off + j) - f.off = j
    BY <1>1, <1>2
  <2>2. j \notin f.stack_len .. f.stack_len + f.img_len - 1
    BY <1>1
  <2> QED BY <2>1, <2>2, <1>1 DEF FrameSave
<1>10. ASSUME NEW j \in 0 .. f.img_len - 1
       PROVE  FrameSave(f)[f.off + f.stack_len + j] = mem[f.img_base + j]
  <2>1. /\ f.off + f.stack_len + j \in 0 .. PoolSize - 1
        /\ (f.off + f.stack_len + j) - f.off = f.stack_len + j
        /\ f.stack_len + j \in f.stack_len .. f.stack_len + f.img_len - 1
        /\ f.img_base + (f.stack_len + j) - f.stack_len = f.img_base + j
    BY <1>1, <1>2
  <2> QED BY <2>1, <1>1 DEF FrameSave
<1> QED BY <1>7, <1>8, <1>9, <1>10 DEF FrameHolds

\* Copying a frame back yields memory that agrees, on the frame's stack and
\* image part, with any memory s that the frame holds, and elsewhere with m.
LEMMA RestoreBack ==
    ASSUME NEW f, GoodFrame(f), NEW m \in [Addr -> Tag],
           NEW pl \in [0 .. PoolSize - 1 -> Tag], NEW s \in [Addr -> Tag],
           FrameHolds(pl, f, s), NEW a \in Addr
    PROVE  /\ FrameRestore(f, m, pl)[a] = s[a] \/ FrameRestore(f, m, pl)[a] = m[a]
           /\ a \in StackBase .. StackBase + f.stack_len - 1
                 => FrameRestore(f, m, pl)[a] = s[a]
           /\ a \in f.img_base .. f.img_base + f.img_len - 1
                 => FrameRestore(f, m, pl)[a] = s[a]
<1>1. /\ f.off \in Nat /\ f.stack_len \in Nat /\ f.img_base \in Nat /\ f.img_len \in Nat
      /\ f.off + f.stack_len + f.img_len <= PoolSize
  BY GoodFrameProps
<1>2. /\ MemTop \in Nat /\ StackBase \in Nat /\ StackSize \in Nat /\ PoolSize \in Nat
  BY LayoutAssumption
<1>3. CASE a \in f.img_base .. f.img_base + f.img_len - 1
  <2>1. FrameRestore(f, m, pl)[a] = pl[f.off + f.stack_len + a - f.img_base]
    BY <1>3 DEF FrameRestore
  <2>2. /\ f.off + f.stack_len + a - f.img_base = f.off + f.stack_len + (a - f.img_base)
        /\ a - f.img_base \in 0 .. f.img_len - 1
        /\ f.img_base + (a - f.img_base) = a
    BY <1>1, <1>2, <1>3, SMTT(30) DEF Addr
  <2> QED BY <2>1, <2>2 DEF FrameHolds
<1>4. CASE /\ a \notin f.img_base .. f.img_base + f.img_len - 1
           /\ a \in StackBase .. StackBase + f.stack_len - 1
  <2>1. FrameRestore(f, m, pl)[a] = pl[f.off + a - StackBase]
    BY <1>4 DEF FrameRestore
  <2>2. /\ f.off + a - StackBase = f.off + (a - StackBase)
        /\ a - StackBase \in 0 .. f.stack_len - 1
        /\ StackBase + (a - StackBase) = a
    BY <1>1, <1>2, <1>4 DEF Addr
  <2> QED BY <1>4, <2>1, <2>2 DEF FrameHolds
<1>5. CASE /\ a \notin f.img_base .. f.img_base + f.img_len - 1
           /\ a \notin StackBase .. StackBase + f.stack_len - 1
  BY <1>5 DEF FrameRestore
<1> QED BY <1>3, <1>4, <1>5

\* Copying a frame back keeps memory a map of tags.
LEMMA RestoreProps ==
    ASSUME NEW f, GoodFrame(f), NEW m \in [Addr -> Tag],
           NEW pl \in [0 .. PoolSize - 1 -> Tag]
    PROVE  FrameRestore(f, m, pl) \in [Addr -> Tag]
<1>1. /\ f.off \in Nat /\ f.stack_len \in Nat /\ f.img_base \in Nat /\ f.img_len \in Nat
      /\ f.off + f.stack_len + f.img_len <= PoolSize
  BY GoodFrameProps
<1>2. /\ MemTop \in Nat /\ StackBase \in Nat /\ StackSize \in Nat /\ PoolSize \in Nat
  BY LayoutAssumption
<1>3. ASSUME NEW a \in Addr PROVE FrameRestore(f, m, pl)[a] \in Tag
  <2>1. CASE a \in f.img_base .. f.img_base + f.img_len - 1
    <3>1. /\ f.off + f.stack_len + a - f.img_base = f.off + f.stack_len + (a - f.img_base)
          /\ a - f.img_base \in 0 .. f.img_len - 1
      BY <1>1, <1>2, <2>1, SMTT(30) DEF Addr
    <3>2. f.off + f.stack_len + (a - f.img_base) \in 0 .. PoolSize - 1
      BY <1>1, <1>2, <3>1, SMTT(30)
    <3> QED BY <2>1, <3>1, <3>2 DEF FrameRestore
  <2>2. CASE /\ a \notin f.img_base .. f.img_base + f.img_len - 1
             /\ a \in StackBase .. StackBase + f.stack_len - 1
    <3>1. /\ f.off + a - StackBase = f.off + (a - StackBase)
          /\ a - StackBase \in 0 .. f.stack_len - 1
      BY <1>1, <1>2, <2>2 DEF Addr
    <3>2. f.off + (a - StackBase) \in 0 .. PoolSize - 1
      BY <1>1, <1>2, <3>1, SMTT(30)
    <3> QED BY <2>2, <3>1, <3>2 DEF FrameRestore
  <2>3. CASE /\ a \notin f.img_base .. f.img_base + f.img_len - 1
             /\ a \notin StackBase .. StackBase + f.stack_len - 1
    BY <2>3 DEF FrameRestore
  <2> QED BY <2>1, <2>2, <2>3
<1> QED BY <1>3 DEF FrameRestore

-----------------------------------------------------------------------------
(* Steps.                                                                   *)

\* In user mode the running task is the youngest, so exec_pool_used is past
\* every live frame.
LEMMA UserTop ==
    ASSUME IInv, pc = "user"
    PROVE  /\ current_task \in LiveTasks /\ state[current_task] = "RUNNING"
           /\ exec_pool_used = FrameEnd(current_task)
           /\ \A t \in LiveTasks : /\ t <= current_task
                                   /\ t # current_task => state[t] = "BLOCKED"
                                   /\ FrameEnd(t) \in Nat
                                   /\ FrameEnd(t) <= exec_pool_used
<1>1. current_task \in Pids /\ state[current_task] = "RUNNING"
  BY DEF IInv, TypeOK, TreeInv, ProcessChain
<1>2. current_task \in LiveTasks
  BY <1>1 DEF LiveTasks, Live
<1>3. exec_pool_used = FrameEnd(current_task)
  BY <1>1, <1>2 DEF IInv, PoolIsStack
<1>4. \A t \in LiveTasks : t \in Nat /\ current_task \in Nat
  BY <1>1, PidAssumption DEF LiveTasks, Pids
<1>5. \A t \in LiveTasks : t <= current_task
  BY <1>1, <1>2, <1>4 DEF IInv, TreeInv, ProcessChain
<1>6. \A t \in LiveTasks : t # current_task => state[t] = "BLOCKED"
  BY <1>2, <1>4, <1>5 DEF IInv, TreeInv, ProcessChain
<1>7. \A t \in Pids : frame[t] \in FrameType /\ FrameEnd(t) \in Nat
                      /\ frame[t].off \in Nat /\ frame[t].off <= FrameEnd(t)
  <2>1. ASSUME NEW t \in Pids
        PROVE  frame[t] \in FrameType /\ frame[t].off \in Nat
    BY DEF IInv, TypeOK, FrameType
  <2>2. ASSUME NEW t \in Pids
        PROVE  FrameLen(frame[t]) \in Nat
    BY <2>1, FrameLenProps
  <2> QED BY <2>1, <2>2 DEF FrameEnd
<1>8. ASSUME NEW t \in LiveTasks
      PROVE  FrameEnd(t) <= exec_pool_used
  <2>1. t \in Pids
    BY DEF LiveTasks
  <2>2. CASE t = current_task
    BY <2>2, <1>3, <1>7, <2>1
  <2>3. CASE t # current_task
    <3>1. t < current_task
      BY <2>3, <1>4, <1>5
    <3>2. FrameEnd(t) <= frame[current_task].off
      BY <3>1, <1>2 DEF IInv, PoolIsStack
    <3> QED BY <3>2, <1>1, <1>3, <1>7, <2>1
  <2> QED BY <2>2, <2>3
<1> QED BY <1>1, <1>2, <1>3, <1>5, <1>6, <1>7, <1>8 DEF LiveTasks

\* A step in user mode that neither starts nor ends a task, keeps the frames
\* and what the pool holds for them, and at most reaps dead tasks.
LEMMA SameLive ==
    ASSUME IInv, pc = "user", pc' = "user", TypeOK', FramesFit',
           current_task' = current_task, next_pid' = next_pid, snap' = snap,
           exec_pool_used' = exec_pool_used,
           \A t \in Pids : \/ state'[t] = state[t]
                           \/ /\ state[t] = "DEAD" /\ state'[t] = "FREE"
                              /\ t \notin {current_task, task0},
           \A t \in Pids : state[t] # "DEAD" \/ t = task0 =>
                              parent'[t] = parent[t] /\ elf'[t] = elf[t]
                              /\ frame'[t] = frame[t],
           \A i \in 0 .. PoolSize - 1 : i < exec_pool_used => exec_pool'[i] = exec_pool[i]
    PROVE  IInv'
<1> USE DEF LiveTasks, Live
<1>1. LiveTasks' = LiveTasks
  BY DEF IInv, TypeOK
<1>2. \A t \in LiveTasks : /\ state'[t] = state[t] /\ parent'[t] = parent[t]
                           /\ elf'[t] = elf[t] /\ frame'[t] = frame[t]
                           /\ FrameEnd(t)' = FrameEnd(t) /\ Image(t)' = Image(t)
  BY DEF IInv, TypeOK, FrameEnd, Image
<1>3. task0 \in Pids /\ parent'[task0] = parent[task0] /\ frame'[task0] = frame[task0]
  BY PidAssumption DEF task0, Pids
<1>4. Fresh'
  BY <1>3 DEF IInv, TreeInv, Fresh, NoFrame
<1>5. CurrentOK'
  BY SMTT(30) DEF IInv, TreeInv, CurrentOK, TypeOK
<1>6. ProcessChain'
  BY <1>1, <1>2, UserTop DEF IInv, TreeInv, ProcessChain
<1>7. ASSUME NEW t \in LiveTasks
      PROVE  LiveChildren(t)' = LiveChildren(t)
  <2>1. \A c \in Pids : c \in LiveTasks <=> state[c] # "FREE" /\ state[c] # "DEAD"
    BY DEF IInv, TypeOK
  <2>2. \A c \in Pids : c \in LiveTasks' <=> state'[c] # "FREE" /\ state'[c] # "DEAD"
    <3>1. state' \in [Pids -> {"FREE", "READY", "RUNNING", "BLOCKED", "DEAD"}]
      BY DEF TypeOK
    <3> QED BY <3>1
  <2>3. \A c \in Pids : c \in LiveChildren(t) <=> parent[c] = t /\ c \in LiveTasks
    BY <2>1 DEF LiveChildren
  <2>4. \A c \in Pids : c \in LiveChildren(t)' <=> parent'[c] = t /\ c \in LiveTasks'
    BY <2>2 DEF LiveChildren
  <2> QED BY <1>1, <1>2, <2>3, <2>4 DEF LiveChildren
<1>8. BlockedIffChild'
  BY <1>1, <1>2, <1>7 DEF IInv, TreeInv, BlockedIffChild
<1>9. ExitOK' /\ SwitchOK' /\ HaltOnlyWhenDone' /\ Restored'
  BY DEF ExitOK, SwitchOK, HaltOnlyWhenDone, Restored
<1>10. PoolIsStack'
  <2>1. \A t \in LiveTasks \ {task0} : parent[t] \in LiveTasks
    BY DEF IInv, TreeInv, ProcessChain
  <2> QED BY <1>1, <1>2, <2>1 DEF IInv, PoolIsStack
<1>11. FrameShape'
  <2>1. \A t \in LiveTasks \ {task0} : parent[t] \in LiveTasks
    BY DEF IInv, TreeInv, ProcessChain
  <2> QED BY <1>1, <1>2, <2>1 DEF IInv, FrameShape, IsElf
<1>12. PoolHolds'
  <2> SUFFICES ASSUME NEW t \in LiveTasks \ {task0}
               PROVE  /\ \A j \in 0 .. frame[t].stack_len - 1 :
                          exec_pool'[frame[t].off + j] = snap[t].mem[StackBase + j]
                      /\ \A j \in 0 .. frame[t].img_len - 1 :
                          exec_pool'[frame[t].off + frame[t].stack_len + j]
                             = snap[t].mem[frame[t].img_base + j]
    BY <1>1, <1>2 DEF PoolHolds, FrameHolds
  <2>1. /\ frame[t] \in FrameType /\ frame[t].off \in Nat /\ frame[t].stack_len \in Nat
        /\ frame[t].img_len \in Nat
    BY DEF IInv, TypeOK, FrameType
  <2>2. /\ FrameLen(frame[t]) \in Nat
        /\ frame[t].stack_len + frame[t].img_len <= FrameLen(frame[t])
    BY <2>1, FrameLenProps
  <2>3. frame[t].off + FrameLen(frame[t]) <= exec_pool_used
    BY UserTop DEF FrameEnd
  <2>4. exec_pool_used \in Nat /\ PoolSize \in Nat /\ exec_pool_used <= PoolSize
    BY LayoutAssumption DEF IInv, TypeOK, PoolIsStack
  <2>5. \A j \in 0 .. frame[t].stack_len - 1 :
           /\ frame[t].off + j \in 0 .. PoolSize - 1
           /\ frame[t].off + j < exec_pool_used
    BY <2>1, <2>2, <2>3, <2>4
  <2>6. \A j \in 0 .. frame[t].img_len - 1 :
           /\ frame[t].off + frame[t].stack_len + j \in 0 .. PoolSize - 1
           /\ frame[t].off + frame[t].stack_len + j < exec_pool_used
    BY <2>1, <2>2, <2>3, <2>4
  <2> QED BY <2>5, <2>6 DEF IInv, PoolHolds, FrameHolds
<1> QED BY <1>4, <1>5, <1>6, <1>8, <1>9, <1>10, <1>11, <1>12 DEF IInv, TreeInv

\* Loading a program or its arguments keeps memory a map of tags.
LEMMA LoadType ==
    ASSUME NEW m \in [Addr -> Tag], NEW g, NEW n
    PROVE  /\ BuildUserStack(m, n) \in [Addr -> Tag]
           /\ ElfLoad(m, g) \in [Addr -> Tag]
<1>1. 0 \in Tag
  BY PidAssumption DEF Tag
<1> QED BY <1>1 DEF BuildUserStack, ElfLoad

\* The frame that exec_run saves can be copied both ways.
LEMMA ExecFrameGood ==
    ASSUME TypeOK, NEW g \in Progs, PoolFits(FrameFor(current_task, g))
    PROVE  GoodFrame(FrameFor(current_task, g))
<1>1. current_task \in Pids
  BY DEF TypeOK
<1> QED BY <1>1, FrameForProps DEF GoodFrame, PoolFits

\* The fields of no task have their types.
LEMMA NullTypes ==
    /\ "FREE" \in {"FREE", "READY", "RUNNING", "BLOCKED", "DEAD"}
    /\ 0 \in 0 .. MaxPid
    /\ NoZombie \in [valid : {0, 1}, pid : Nat, status : Nat]
    /\ NoElf \in [lo : Nat, hi : Nat]
    /\ NoFrame \in FrameType
    /\ NoSnap \in [mem : [Addr -> Tag], brk : Int]
BY PidAssumption DEF NoZombie, NoElf, NoFrame, NoBrk, NoSnap, FrameType, Tag

\* An empty frame takes no room.
LEMMA NoFrameFits ==
    FrameLen(NoFrame) = 0 /\ NoFrame.off + FrameLen(NoFrame) <= PoolSize
    /\ NoFrame.img_len = 0 /\ NoFrame.off = 0 /\ NoFrame.stack_len = 0
<1>1. AlignUp(0) = 0
  BY AlignProps
<1> QED BY <1>1, LayoutAssumption DEF NoFrame, FrameLen

\* A failed execv, reaped tasks included, preserves the inductive invariant.
LEMMA ExecFailStep ==
    ASSUME IInv, NEW g \in Progs, NEW n \in 1 .. StackSize, NEW stage \in ExecStages,
           ExecFail(g, n, stage)
    PROVE  IInv'
<1> DEFINE f == FrameFor(current_task, g)
           m1 == IF stage = "stack" THEN mem ELSE BuildUserStack(mem, n)
           m2 == IF stage = "task" THEN ElfLoad(m1, g) ELSE m1
<1>0. TypeOK /\ pc = "user"
  BY DEF IInv, ExecFail
<1>1. GoodFrame(f) /\ f.off = exec_pool_used
  BY <1>0, ExecFrameGood, FrameForProps DEF ExecFail, TypeOK
<1>2. /\ FrameSave(f) \in [0 .. PoolSize - 1 -> Tag]
      /\ \A i \in 0 .. PoolSize - 1 : i < f.off => FrameSave(f)[i] = exec_pool[i]
  BY <1>0, <1>1, SaveProps
<1>3. m2 \in [Addr -> Tag]
  <2>1. m1 \in [Addr -> Tag]
    BY <1>0, LoadType DEF TypeOK
  <2> QED BY <2>1, LoadType
<1>4. mem' = FrameRestore(f, m2, FrameSave(f)) /\ exec_pool' = FrameSave(f)
  BY DEF ExecFail
<1>5. mem' \in [Addr -> Tag] /\ exec_pool' \in [0 .. PoolSize - 1 -> Tag]
  BY <1>1, <1>2, <1>3, <1>4, RestoreProps
<1>6. \/ UNCHANGED taskVars
      \/ /\ state' = Reap(state, "FREE") /\ parent' = Reap(parent, 0)
         /\ zombie' = Reap(zombie, NoZombie) /\ elf' = Reap(elf, NoElf)
         /\ frame' = Reap(frame, NoFrame)
  BY DEF ExecFail
<1>7. /\ state' \in [Pids -> {"FREE", "READY", "RUNNING", "BLOCKED", "DEAD"}]
      /\ parent' \in [Pids -> 0 .. MaxPid]
      /\ zombie' \in [Pids -> [valid : {0, 1}, pid : Nat, status : Nat]]
      /\ elf' \in [Pids -> [lo : Nat, hi : Nat]]
      /\ frame' \in [Pids -> FrameType]
  <2>1. state' \in [Pids -> {"FREE", "READY", "RUNNING", "BLOCKED", "DEAD"}]
    BY <1>0, <1>6 DEF TypeOK, taskVars, Reap
  <2>2. parent' \in [Pids -> 0 .. MaxPid]
    <3>1. 0 \in 0 .. MaxPid /\ parent \in [Pids -> 0 .. MaxPid]
      BY <1>0, NullTypes DEF TypeOK
    <3> QED BY <1>6, <3>1, Zenon DEF taskVars, Reap
  <2>3. zombie' \in [Pids -> [valid : {0, 1}, pid : Nat, status : Nat]]
    <3>1. zombie \in [Pids -> [valid : {0, 1}, pid : Nat, status : Nat]]
      BY <1>0 DEF TypeOK
    <3> QED BY <1>6, <3>1, NullTypes, Zenon DEF taskVars, Reap
  <2>4. elf' \in [Pids -> [lo : Nat, hi : Nat]]
    <3>1. elf \in [Pids -> [lo : Nat, hi : Nat]]
      BY <1>0 DEF TypeOK
    <3> QED BY <1>6, <3>1, NullTypes, Zenon DEF taskVars, Reap
  <2>5. frame' \in [Pids -> FrameType]
    <3>1. frame \in [Pids -> FrameType]
      BY <1>0 DEF TypeOK
    <3> QED BY <1>6, <3>1, NullTypes, Zenon DEF taskVars, Reap
  <2> QED BY <2>1, <2>2, <2>3, <2>4, <2>5
<1>8. TypeOK'
  <2>1. /\ pc' = pc /\ current_task' = current_task /\ next_pid' = next_pid
        /\ exec_pool_used' = exec_pool_used /\ user_brk' = user_brk /\ eax' \in Int
        /\ victim' = victim /\ exit_status' = exit_status /\ at' = at /\ snap' = snap
    BY <1>1 DEF ExecFail, exitVars, Failed
  <2> QED BY <1>0, <1>5, <1>7, <2>1, Zenon DEF TypeOK
<1>9. \A t \in Pids : frame'[t] = frame[t] \/ frame'[t] = NoFrame
  BY <1>0, <1>6, NullTypes DEF TypeOK, taskVars, Reap
<1>10. FramesFit'
  BY <1>9, NoFrameFits DEF IInv, FramesFit, FrameEnd
<1>11. \A t \in Pids : \/ state'[t] = state[t]
                       \/ /\ state[t] = "DEAD" /\ state'[t] = "FREE"
                          /\ t \notin {current_task, task0}
  BY <1>0, <1>6, NullTypes, SMTT(30) DEF TypeOK, taskVars, Reap
<1>12. \A t \in Pids : state[t] # "DEAD" \/ t = task0 =>
                          parent'[t] = parent[t] /\ elf'[t] = elf[t]
                          /\ frame'[t] = frame[t]
  <2>1. ASSUME NEW t \in Pids, state[t] # "DEAD" \/ t = task0, NEW h, NEW null
        PROVE  Reap(h, null)[t] = h[t]
    BY <2>1 DEF Reap
  <2>2. ASSUME NEW t \in Pids, state[t] # "DEAD" \/ t = task0
        PROVE  parent'[t] = parent[t] /\ elf'[t] = elf[t] /\ frame'[t] = frame[t]
    <3>1. CASE UNCHANGED taskVars
      BY <3>1 DEF taskVars
    <3>2. CASE parent' = Reap(parent, 0) /\ elf' = Reap(elf, NoElf) /\ frame' = Reap(frame, NoFrame)
      BY <3>2, <2>1, <2>2
    <3> QED BY <1>6, <3>1, <3>2
  <2> QED BY <2>2
<1>13. /\ pc' = "user" /\ current_task' = current_task /\ next_pid' = next_pid
       /\ snap' = snap /\ exec_pool_used' = exec_pool_used
  BY <1>0, <1>1 DEF ExecFail
<1>14. \A i \in 0 .. PoolSize - 1 : i < exec_pool_used => exec_pool'[i] = exec_pool[i]
  BY <1>1, <1>2, <1>4
<1> QED BY <1>0, <1>8, <1>10, <1>11, <1>12, <1>13, <1>14, SameLive

\* System calls and stores that change neither tasks nor frames.
LEMMA QuietStep ==
    ASSUME IInv, pc = "user",
           UNCHANGED <<pc, current_task, next_pid, state, parent, elf, frame, poolVars,
                       snap>>,
           TypeOK'
    PROVE  IInv'
<1>1. FramesFit'
  BY DEF IInv, FramesFit, FrameEnd
<1> QED BY <1>1, SameLive DEF poolVars

\* Starting a child preserves the inductive invariant: its frame goes on top
\* of the pool and the child becomes the youngest and only running task.
LEMMA ExecStartStep ==
    ASSUME IInv, NEW g \in Progs, NEW n \in 1 .. StackSize, ExecStart(g, n)
    PROVE  IInv'
<1> DEFINE f == FrameFor(current_task, g)
           c == next_pid
           p == current_task
           blocked == [Reap(state, "FREE") EXCEPT ![c] = "READY", ![p] = "BLOCKED"]
<1>0. TypeOK /\ pc = "user" /\ pc' = "user"
  BY DEF IInv, ExecStart
<1>1. /\ GoodFrame(f) /\ f.off = exec_pool_used /\ f.has = 1 /\ f.brk = user_brk
      /\ f \in FrameType
  BY <1>0, ExecFrameGood, FrameForProps DEF ExecStart, TypeOK
<1>2. /\ p \in LiveTasks /\ p \in Pids /\ state[p] = "RUNNING"
      /\ exec_pool_used = FrameEnd(p)
      /\ \A t \in LiveTasks : /\ t <= p /\ (t # p => state[t] = "BLOCKED")
                              /\ FrameEnd(t) \in Nat /\ FrameEnd(t) <= exec_pool_used
  BY <1>0, UserTop DEF TypeOK
<1>3. /\ c \in Pids /\ c \in Nat /\ c > 1 /\ state[c] = "FREE" /\ p \in Nat /\ p < c
      /\ task0 \in Pids
  <2>1. c \in Pids /\ c \in Nat /\ c > 1 /\ p \in Nat /\ task0 \in Pids
    BY <1>0, <1>2, PidAssumption DEF ExecStart, TypeOK, Pids, task0
  <2>2. state[c] = "FREE" /\ ~(p >= c)
    BY <2>1, <1>2 DEF IInv, TreeInv, Fresh
  <2> QED BY <2>1, <2>2
<1>4. /\ current_task' = c
      /\ state'[c] = "RUNNING" /\ state'[p] = "BLOCKED"
      /\ \A t \in Pids \ {c, p} :
            state'[t] = IF t # task0 /\ state[t] = "DEAD" THEN "FREE" ELSE state[t]
      /\ state' \in [Pids -> {"FREE", "READY", "RUNNING", "BLOCKED", "DEAD"}]
  <2>1. PICK t \in Runnable(blocked) : current_task' = t /\ state' = SwitchTo(blocked, t)
    BY DEF ExecStart
  <2>2. /\ blocked[c] = "READY" /\ blocked[p] = "BLOCKED"
        /\ \A s \in Pids \ {c, p} :
              blocked[s] = IF s # task0 /\ state[s] = "DEAD" THEN "FREE" ELSE state[s]
    BY <1>2, <1>3 DEF Reap
  <2>3. \A s \in Pids \ {c, p} : state[s] # "READY"
    BY <1>2 DEF LiveTasks, Live
  <2>4. t = c
    BY <2>2, <2>3 DEF Runnable
  <2>5. state' = [s \in Pids |-> IF s = c THEN "RUNNING" ELSE blocked[s]]
    BY <2>1, <2>2, <2>4 DEF SwitchTo
  <2> HIDE DEF blocked
  <2>6. \A s \in Pids : state'[s] = IF s = c THEN "RUNNING" ELSE blocked[s]
    BY <2>5
  <2>7. \A s \in Pids : state'[s] \in {"FREE", "READY", "RUNNING", "BLOCKED", "DEAD"}
    <3>1. state \in [Pids -> {"FREE", "READY", "RUNNING", "BLOCKED", "DEAD"}]
      BY <1>0 DEF TypeOK
    <3>2. ASSUME NEW s \in Pids
          PROVE  blocked[s] \in {"FREE", "READY", "RUNNING", "BLOCKED", "DEAD"}
      <4>1. state[s] \in {"FREE", "READY", "RUNNING", "BLOCKED", "DEAD"}
        BY <3>1
      <4> QED BY <4>1, <2>2
    <3> QED BY <2>6, <3>2
  <2> QED BY <1>2, <1>3, <2>1, <2>2, <2>4, <2>5, <2>6, <2>7
<1>5. /\ next_pid' = c + 1
      /\ parent'[c] = p /\ elf'[c] = [lo |-> ProgLo[g], hi |-> ProgHi[g]]
      /\ frame'[c] = f /\ snap'[c] = [mem |-> mem, brk |-> user_brk]
      /\ exec_pool' = FrameSave(f) /\ exec_pool_used' = f.off + FrameLen(f)
  BY <1>0, <1>3 DEF ExecStart, Reap, TypeOK
<1>6. \A t \in Pids \ {c} :
         /\ snap'[t] = snap[t]
         /\ frame'[t] = frame[t] \/ frame'[t] = NoFrame
         /\ state[t] # "DEAD" \/ t = task0 =>
               parent'[t] = parent[t] /\ elf'[t] = elf[t] /\ frame'[t] = frame[t]
  BY <1>0, <1>3 DEF ExecStart, Reap, TypeOK
<1>7. TypeOK'
  <2>1. parent' \in [Pids -> 0 .. MaxPid]
    <3>1. 0 \in 0 .. MaxPid /\ p \in 0 .. MaxPid /\ parent \in [Pids -> 0 .. MaxPid]
      BY <1>0, <1>2, NullTypes DEF TypeOK, Pids
    <3>2. Reap(parent, 0) \in [Pids -> 0 .. MaxPid]
      BY <3>1, Zenon DEF Reap
    <3>3. parent' = [Reap(parent, 0) EXCEPT ![c] = p]
      BY DEF ExecStart
    <3> QED BY <3>1, <3>2, <3>3
  <2>2. zombie' \in [Pids -> [valid : {0, 1}, pid : Nat, status : Nat]]
    <3>1. Reap(zombie, NoZombie) \in [Pids -> [valid : {0, 1}, pid : Nat, status : Nat]]
      BY <1>0, NullTypes, Zenon DEF Reap, TypeOK
    <3> QED BY <3>1, NullTypes DEF ExecStart
  <2>3. elf' \in [Pids -> [lo : Nat, hi : Nat]]
    <3>1. Reap(elf, NoElf) \in [Pids -> [lo : Nat, hi : Nat]]
      BY <1>0, NullTypes, Zenon DEF Reap, TypeOK
    <3>2. [lo |-> ProgLo[g], hi |-> ProgHi[g]] \in [lo : Nat, hi : Nat]
      BY ImageAssumption
    <3> QED BY <3>1, <3>2 DEF ExecStart
  <2>4. frame' \in [Pids -> FrameType]
    <3>1. Reap(frame, NoFrame) \in [Pids -> FrameType]
      BY <1>0, NullTypes, Zenon DEF Reap, TypeOK
    <3> QED BY <3>1, <1>1 DEF ExecStart
  <2>5. exec_pool' \in [0 .. PoolSize - 1 -> Tag]
    BY <1>0, <1>1, <1>5, SaveProps
  <2>6. exec_pool_used' \in Nat
    BY <1>0, <1>1, <1>5, FrameLenProps, SMTT(30) DEF TypeOK
  <2>7. mem' \in [Addr -> Tag]
    BY <1>0, LoadType DEF ExecStart, TypeOK
  <2>8. snap' \in [Pids -> [mem : [Addr -> Tag], brk : Int]]
    <3>1. [mem |-> mem, brk |-> user_brk] \in [mem : [Addr -> Tag], brk : Int]
      BY <1>0 DEF TypeOK
    <3> QED BY <1>0, <3>1 DEF ExecStart, TypeOK
  <2>9. /\ pc' \in {"user", "exit", "switch", "halted"} /\ current_task' \in Pids
        /\ next_pid' \in Nat \ {0, 1} /\ user_brk' \in Int /\ eax' \in Int
        /\ victim' \in 0 .. MaxPid /\ exit_status' \in Nat /\ at' \in 0 .. MaxPid
    <3>1. next_pid' \in Nat \ {0, 1} /\ current_task' \in Pids
      BY <1>3, <1>4, <1>5
    <3>2. UNCHANGED <<pc, user_brk, victim, exit_status, at>> /\ eax' \in Int
      BY DEF ExecStart, exitVars
    <3> QED BY <1>0, <3>1, <3>2 DEF TypeOK
  <2> QED BY <1>4, <2>1, <2>2, <2>3, <2>4, <2>5, <2>6, <2>7, <2>8, <2>9, Zenon DEF TypeOK
<1>8. /\ LiveTasks' = LiveTasks \cup {c} /\ c \notin LiveTasks
      /\ \A t \in LiveTasks : /\ t \in Pids /\ t \in Nat /\ t < c /\ state[t] # "DEAD"
                              /\ parent'[t] = parent[t] /\ elf'[t] = elf[t]
                              /\ frame'[t] = frame[t] /\ snap'[t] = snap[t]
                              /\ state'[t] = "BLOCKED"
                              /\ FrameEnd(t)' = FrameEnd(t)
  <2>1. c \notin LiveTasks
    BY <1>3 DEF LiveTasks, Live
  <2>2. \A t \in LiveTasks : /\ t \in Pids /\ t \in Nat /\ t < c /\ state[t] # "DEAD"
                             /\ state'[t] = "BLOCKED"
    BY <1>2, <1>3, <1>4, <2>1 DEF LiveTasks, Live, Pids
  <2>3. \A t \in Pids : t \in LiveTasks' <=> t \in LiveTasks \cup {c}
    BY <1>2, <1>3, <1>4, <2>1, <2>2 DEF LiveTasks, Live
  <2>4. LiveTasks' \subseteq Pids /\ LiveTasks \subseteq Pids
    BY DEF LiveTasks
  <2>5. \A t \in LiveTasks : /\ parent'[t] = parent[t] /\ elf'[t] = elf[t]
                             /\ frame'[t] = frame[t] /\ snap'[t] = snap[t]
    BY <1>6, <2>1, <2>2
  <2>6. \A t \in LiveTasks : FrameEnd(t)' = FrameEnd(t)
    BY <2>5 DEF FrameEnd
  <2> QED BY <1>3, <2>1, <2>2, <2>3, <2>4, <2>5, <2>6
<1> HIDE DEF f, c, p, blocked
<1>9. Fresh'
  <2>1. \A t \in Pids : t >= next_pid' => state'[t] = "FREE"
    <3>1. ASSUME NEW t \in Pids, t >= next_pid' PROVE state'[t] = "FREE"
      <4>1. t \in Nat /\ t >= c /\ t # c /\ t # p
        BY <3>1, <1>3, <1>5 DEF Pids
      <4>2. state[t] = "FREE"
        BY <4>1 DEF IInv, TreeInv, Fresh, c
      <4> QED BY <4>1, <4>2, <1>4
    <3> QED BY <3>1
  <2>2. task0 # c
    BY <1>3 DEF task0
  <2> QED BY <1>3, <1>6, <2>1, <2>2 DEF IInv, TreeInv, Fresh
<1>10. CurrentOK'
  <2>1. \A t \in Pids : state'[t] = "RUNNING" => t = c
    BY <1>2, <1>4 DEF IInv, TreeInv, CurrentOK, p
  <2> QED BY <2>1, <1>4 DEF CurrentOK
<1>11. ProcessChain'
  <2>1. ASSUME NEW s \in LiveTasks', NEW t \in LiveTasks', s < t
        PROVE  state'[s] = "BLOCKED" /\ s <= parent'[t]
    <3>1. CASE t = c
      <4>1. s \in LiveTasks /\ s \in Nat /\ state'[s] = "BLOCKED"
        BY <2>1, <3>1, <1>3, <1>8
      <4>2. s <= p
        BY <4>1, <1>2
      <4> QED BY <3>1, <4>1, <4>2, <1>5
    <3>2. CASE t # c
      <4>1. t \in LiveTasks /\ s \in LiveTasks
        BY <2>1, <3>2, <1>3, <1>8
      <4> QED BY <2>1, <4>1, <1>8 DEF IInv, TreeInv, ProcessChain
    <3> QED BY <3>1, <3>2
  <2>2. ASSUME NEW t \in LiveTasks' \ {task0}
        PROVE  parent'[t] \in LiveTasks' /\ parent'[t] < t
    <3>1. CASE t = c
      BY <3>1, <1>2, <1>3, <1>5, <1>8
    <3>2. CASE t # c
      BY <3>2, <1>8 DEF IInv, TreeInv, ProcessChain
    <3> QED BY <3>1, <3>2
  <2> QED BY <2>1, <2>2, <1>4 DEF ProcessChain
<1>12. BlockedIffChild'
  <2>1. \A t, s \in Pids : s \in LiveChildren(t) <=> parent[s] = t /\ s \in LiveTasks
    BY <1>0 DEF LiveChildren, LiveTasks, Live, TypeOK
  <2>2. \A t, s \in Pids : s \in LiveChildren(t)' <=> parent'[s] = t /\ s \in LiveTasks'
    BY <1>7 DEF LiveChildren, LiveTasks, Live, TypeOK
  <2>3. ASSUME NEW t \in Pids, t = c PROVE LiveChildren(t)' = {}
    <3>1. ASSUME NEW s \in Pids, s \in LiveTasks', parent'[s] = c PROVE FALSE
      <4>1. CASE s = c
        BY <4>1, <3>1, <1>3, <1>5
      <4>2. CASE s # c
        <5>1. s \in LiveTasks /\ parent[s] = c
          BY <4>2, <3>1, <1>8
        <5>2. s = task0 \/ parent[s] \in LiveTasks
          BY <5>1 DEF IInv, TreeInv, ProcessChain
        <5> QED BY <5>1, <5>2, <1>3, <1>8 DEF IInv, TreeInv, Fresh
      <4> QED BY <4>1, <4>2
    <3>2. \A s \in Pids : s \notin LiveChildren(t)'
      BY <3>1, <2>2, <2>3
    <3> QED BY <3>2 DEF LiveChildren
  <2>4. ASSUME NEW t \in LiveTasks PROVE LiveChildren(t)' # {}
    <3>1. CASE t = p
      BY <3>1, <2>2, <1>2, <1>3, <1>5, <1>8
    <3>2. CASE t # p
      <4>1. state[t] = "BLOCKED"
        BY <3>2, <1>2
      <4>2. PICK s \in LiveChildren(t) : TRUE
        BY <4>1 DEF IInv, TreeInv, BlockedIffChild
      <4>3. s \in Pids /\ t \in Pids /\ parent[s] = t /\ s \in LiveTasks
        BY <4>2, <2>1, <1>8 DEF LiveChildren
      <4> QED BY <4>3, <2>2, <1>8
    <3> QED BY <3>1, <3>2
  <2>5. ASSUME NEW t \in LiveTasks'
        PROVE  state'[t] = "BLOCKED" <=> LiveChildren(t)' # {}
    BY <2>3, <2>4, <1>3, <1>4, <1>8
  <2> QED BY <2>5 DEF BlockedIffChild
<1>13. ExitOK' /\ SwitchOK' /\ HaltOnlyWhenDone' /\ Restored'
  BY <1>0 DEF ExitOK, SwitchOK, HaltOnlyWhenDone, Restored
<1>14. FramesFit'
  <2>1. \A t \in Pids : frame'[t] = f \/ frame'[t] = frame[t] \/ frame'[t] = NoFrame
    BY <1>5, <1>6
  <2> QED BY <2>1, <1>1, NoFrameFits DEF IInv, FramesFit, FrameEnd, GoodFrame
<1>15. PoolIsStack'
  <2>0. FrameLen(f) \in Nat /\ f.off \in Nat /\ exec_pool_used \in Nat
    BY <1>0, <1>1, FrameLenProps DEF TypeOK
  <2>1. ASSUME NEW t \in Pids, t = c
        PROVE  FrameEnd(t)' = exec_pool_used' /\ frame'[t].off = exec_pool_used
    BY <2>1, <1>1, <1>5 DEF FrameEnd
  <2>2. ASSUME NEW s \in LiveTasks', NEW t \in LiveTasks', s < t
        PROVE  FrameEnd(s)' <= frame'[t].off
    <3>1. s \in LiveTasks
      BY <2>2, <1>3, <1>8
    <3>2. CASE t = c
      BY <3>1, <3>2, <2>1, <1>2, <1>3, <1>8
    <3>3. CASE t # c
      BY <3>1, <3>3, <2>2, <1>8 DEF IInv, PoolIsStack
    <3> QED BY <3>2, <3>3
  <2>3. ASSUME NEW t \in LiveTasks' \ {task0}
        PROVE  frame'[t].has = 1 /\ frame'[t].off = FrameEnd(parent[t])'
               /\ parent'[t] \in LiveTasks
    <3>1. CASE t = c
      <4>1. parent'[t] = p /\ p \in LiveTasks /\ frame'[t] = f
        BY <3>1, <1>2, <1>5
      <4> QED BY <3>1, <4>1, <1>1, <1>2, <1>8
    <3>2. CASE t # c
      <4>1. t \in LiveTasks \ {task0} /\ parent'[t] = parent[t] /\ frame'[t] = frame[t]
        BY <3>2, <1>8
      <4>2. parent[t] \in LiveTasks
        BY <4>1 DEF IInv, TreeInv, ProcessChain
      <4> QED BY <4>1, <4>2, <1>8 DEF IInv, PoolIsStack
    <3> QED BY <3>1, <3>2
  <2>4. ASSUME NEW t \in LiveTasks', state'[t] # "BLOCKED"
        PROVE  exec_pool_used' = FrameEnd(t)'
    BY <2>4, <2>1, <1>3, <1>8
  <2>5. exec_pool_used' <= PoolSize
    BY <1>1, <1>5 DEF GoodFrame
  <2> QED BY <2>2, <2>3, <2>4, <2>5, <1>8 DEF PoolIsStack
<1>16. FrameShape'
  <2>1. ASSUME NEW t \in LiveTasks' \ {task0}
        PROVE  /\ frame'[t].brk = snap'[t].brk
               /\ IsElf(parent[t])' =>
                    /\ frame'[t].stack_len = StackSize
                    /\ \A a \in Image(parent[t])' \cap Image(t)' :
                          a \in frame'[t].img_base ..
                                frame'[t].img_base + frame'[t].img_len - 1
    <3>1. CASE t = c
      <4>1. /\ parent'[t] = p /\ p \in LiveTasks /\ elf'[p] = elf[p] /\ frame'[t] = f
            /\ snap'[t].brk = user_brk
            /\ elf'[t].lo = ProgLo[g] /\ elf'[t].hi = ProgHi[g]
        BY <3>1, <1>2, <1>5, <1>8
      <4>2. elf[p].hi # 0 =>
                /\ f.stack_len = StackSize
                /\ \A a \in (elf[p].lo .. elf[p].hi - 1) \cap (ProgLo[g] .. ProgHi[g] - 1) :
                      a \in f.img_base .. f.img_base + f.img_len - 1
        BY <1>0, <1>2, FrameForProps DEF f, IsElf, Image, p
      <4> QED BY <4>1, <4>2, <1>1 DEF IsElf, Image
    <3>2. CASE t # c
      <4>1. /\ t \in LiveTasks \ {task0} /\ parent'[t] = parent[t] /\ frame'[t] = frame[t]
            /\ elf'[t] = elf[t] /\ snap'[t] = snap[t]
        BY <3>2, <1>8
      <4>2. parent[t] \in LiveTasks /\ elf'[parent[t]] = elf[parent[t]]
        BY <4>1, <1>8 DEF IInv, TreeInv, ProcessChain
      <4> QED BY <4>1, <4>2 DEF IInv, FrameShape, IsElf, Image
    <3> QED BY <3>1, <3>2
  <2> QED BY <2>1 DEF FrameShape
<1>17. PoolHolds'
  <2>1. ASSUME NEW t \in LiveTasks' \ {task0}
        PROVE  FrameHolds(exec_pool', frame'[t], snap'[t].mem)
    <3>1. CASE t = c
      <4>1. frame'[t] = f /\ snap'[t].mem = mem /\ exec_pool' = FrameSave(f)
        BY <3>1, <1>5
      <4> QED BY <4>1, <1>0, <1>1, SaveProps
    <3>2. CASE t # c
      <4>1. t \in LiveTasks \ {task0} /\ frame'[t] = frame[t] /\ snap'[t] = snap[t]
        BY <3>2, <1>8
      <4>2. /\ frame[t] \in FrameType /\ frame[t].off \in Nat
            /\ frame[t].stack_len \in Nat /\ frame[t].img_len \in Nat
        BY <4>1, <1>0, <1>8 DEF TypeOK, FrameType
      <4>3. /\ FrameLen(frame[t]) \in Nat
            /\ frame[t].stack_len + frame[t].img_len <= FrameLen(frame[t])
        BY <4>2, FrameLenProps
      <4>4. /\ frame[t].off + FrameLen(frame[t]) <= exec_pool_used
            /\ exec_pool_used \in Nat /\ PoolSize \in Nat /\ exec_pool_used <= PoolSize
        BY <4>1, <1>0, <1>2, LayoutAssumption DEF FrameEnd, IInv, TypeOK, PoolIsStack
      <4>5. \A i \in 0 .. PoolSize - 1 : i < exec_pool_used => exec_pool'[i] = exec_pool[i]
        BY <1>0, <1>1, <1>5, SaveProps
      <4>6. \A j \in 0 .. frame[t].stack_len - 1 :
               /\ frame[t].off + j \in 0 .. PoolSize - 1
               /\ frame[t].off + j < exec_pool_used
        BY <4>2, <4>3, <4>4
      <4>7. \A j \in 0 .. frame[t].img_len - 1 :
               /\ frame[t].off + frame[t].stack_len + j \in 0 .. PoolSize - 1
               /\ frame[t].off + frame[t].stack_len + j < exec_pool_used
        BY <4>2, <4>3, <4>4
      <4> QED BY <4>1, <4>5, <4>6, <4>7 DEF IInv, PoolHolds, FrameHolds
    <3> QED BY <3>1, <3>2
  <2> QED BY <2>1 DEF PoolHolds
<1> QED BY <1>7, <1>9, <1>10, <1>11, <1>12, <1>13, <1>14, <1>15, <1>16, <1>17
        DEF IInv, TreeInv

\* A step that moves only the program counter and the variables of the exit
\* path, outside the states after the recursion.
LEMMA ControlStep ==
    ASSUME IInv, TypeOK', pc' \in {"user", "exit"}, ExitOK',
           pc' = "user" => pc = "user",
           UNCHANGED <<current_task, next_pid, taskVars, poolVars, mem, user_brk, snap>>
    PROVE  IInv'
<1> USE DEF taskVars, poolVars, LiveTasks, Live
<1>1. Fresh' /\ CurrentOK' /\ ProcessChain'
  BY DEF IInv, TreeInv, Fresh, CurrentOK, ProcessChain
<1>2. BlockedIffChild'
  BY DEF IInv, TreeInv, BlockedIffChild, LiveChildren
<1>3. SwitchOK' /\ HaltOnlyWhenDone' /\ Restored'
  BY DEF SwitchOK, HaltOnlyWhenDone, Restored
<1>4. FramesFit' /\ PoolIsStack'
  BY DEF IInv, FramesFit, PoolIsStack, FrameEnd
<1>5. FrameShape' /\ PoolHolds'
  BY DEF IInv, FrameShape, PoolHolds, IsElf, Image
<1> QED BY <1>1, <1>2, <1>3, <1>4, <1>5 DEF IInv, TreeInv

\* exit and kill enter the exit path with a live task and no dead ancestor.
LEMMA BeginExitStep ==
    ASSUME IInv, pc = "user", NEW t \in LiveTasks, NEW status \in Nat,
           BeginExit(t, status)
    PROVE  IInv'
<1>1. TypeOK /\ t \in Pids /\ t \in 0 .. MaxPid
  BY DEF IInv, LiveTasks, Pids
<1>2. /\ UNCHANGED <<current_task, next_pid, taskVars, poolVars, mem, user_brk, snap>>
      /\ pc' = "exit" /\ victim' = t /\ at' = t /\ exit_status' = status /\ eax' = 0
  BY DEF BeginExit
<1>3. TypeOK'
  <2>1. eax' \in Int
    BY <1>2
  <2> QED BY <1>1, <1>2, <2>1, Zenon DEF TypeOK, taskVars, poolVars
<1>4. LiveTasks' = LiveTasks /\ t \in Nat
  BY <1>1, <1>2 DEF LiveTasks, Live, taskVars, Pids
<1>5. ExitOK'
  BY <1>2, <1>4 DEF ExitOK
<1> QED BY <1>2, <1>3, <1>5, ControlStep

\* LiveChildren in terms of LiveTasks.
LEMMA ChildrenProps ==
    ASSUME TypeOK, NEW t \in Pids
    PROVE  \A c : c \in LiveChildren(t) <=> c \in LiveTasks /\ parent[c] = t
BY DEF LiveChildren, LiveTasks, Live, TypeOK

\* A recursive call goes to the one live child of the task being ended.
LEMMA ExitDescendStep ==
    ASSUME IInv, ExitDescend
    PROVE  IInv'
<1>1. /\ TypeOK /\ pc = "exit" /\ victim \in LiveTasks /\ at \in LiveTasks /\ victim <= at
      /\ at \in Pids /\ victim \in Pids
  BY DEF IInv, TreeInv, ExitOK, ExitDescend, LiveTasks
<1>2. PICK c \in LiveChildren(at) : at' = c
  BY DEF ExitDescend
<1>3. c \in LiveTasks /\ parent[c] = at /\ c \in Pids
  BY <1>1, <1>2, ChildrenProps DEF LiveChildren
<1>4. c # task0 /\ at < c
  <2>1. parent[c] # 0
    BY <1>1, <1>3 DEF Pids
  <2> QED BY <2>1, <1>3 DEF IInv, TreeInv, Fresh, ProcessChain
<1>5. UNCHANGED <<pc, current_task, next_pid, taskVars, poolVars, mem, user_brk,
                  eax, victim, exit_status, snap>>
  BY DEF ExitDescend
<1>6. TypeOK'
  BY <1>1, <1>2, <1>3, <1>5 DEF TypeOK, taskVars, poolVars, Pids
<1>7. LiveTasks' = LiveTasks
  BY <1>5 DEF LiveTasks, Live, taskVars
<1>8. ExitOK'
  BY <1>1, <1>2, <1>3, <1>4, <1>5, <1>7 DEF ExitOK, Pids
<1> QED BY <1>1, <1>5, <1>6, <1>8, ControlStep

\* Halting when schedule() finds no READY task leaves no live task behind.
LEMMA ExitHaltStep ==
    ASSUME IInv, ExitHalt
    PROVE  IInv'
<1> USE DEF taskVars, poolVars, exitVars, LiveTasks, Live
<1>0. /\ UNCHANGED <<current_task, next_pid, taskVars, poolVars, mem, user_brk, eax,
                     exitVars, snap>>
      /\ pc = "switch" /\ pc' = "halted"
  BY DEF ExitHalt
<1>1. TypeOK'
  BY <1>0, Zenon DEF IInv, TypeOK
<1>2. Fresh' /\ CurrentOK' /\ ProcessChain'
  BY <1>0 DEF IInv, TreeInv, Fresh, CurrentOK, ProcessChain
<1>3. BlockedIffChild'
  BY <1>0 DEF IInv, TreeInv, BlockedIffChild, LiveChildren
<1>4. HaltOnlyWhenDone'
  <2>1. LiveTasks = {}
    <3>1. SUFFICES ASSUME parent[victim] # 0 PROVE FALSE
      BY <1>0 DEF IInv, TreeInv, SwitchOK
    <3>2. parent[victim] \in Pids /\ state[parent[victim]] = "READY"
      BY <1>0, <3>1 DEF IInv, TreeInv, SwitchOK
    <3>3. state[current_task] = "DEAD"
      BY DEF ExitHalt
    <3>4. parent[victim] \in Runnable(state)
      BY <3>2, <3>3 DEF Runnable
    <3> QED BY <3>4 DEF ExitHalt
  <2> QED BY <1>0, <2>1 DEF HaltOnlyWhenDone
<1>5. SwitchOK' /\ ExitOK' /\ Restored'
  BY <1>0 DEF SwitchOK, ExitOK, Restored
<1>6. FramesFit' /\ PoolIsStack'
  BY <1>0 DEF IInv, FramesFit, PoolIsStack, FrameEnd
<1>7. FrameShape' /\ PoolHolds'
  BY <1>0 DEF IInv, FrameShape, PoolHolds, IsElf, Image
<1> QED BY <1>1, <1>2, <1>3, <1>4, <1>5, <1>6, <1>7 DEF IInv, TreeInv

\* The end of task_exit_noswitch(at): at is the youngest live task, its frame
\* is the last of the pool, and copying it back gives the caller its memory.
LEMMA ExitFinishStep ==
    ASSUME IInv, ExitFinish
    PROVE  IInv'
<1>0. /\ TypeOK /\ pc = "exit" /\ at \in LiveTasks /\ victim \in LiveTasks /\ victim <= at
      /\ at \in Pids /\ victim \in Pids /\ at \in Nat /\ victim \in Nat
      /\ LiveChildren(at) = {}
  BY DEF IInv, TreeInv, ExitOK, ExitFinish, LiveTasks, Pids
<1> PICK v \in Pids : v = at
  BY <1>0
<1> PICK p \in 0 .. MaxPid : p = parent[v]
  BY <1>0 DEF TypeOK
<1>1. /\ state[v] # "BLOCKED"
      /\ \A t \in LiveTasks : /\ t \in Pids /\ t \in Nat /\ t <= v
                              /\ t # v => state[t] = "BLOCKED"
  <2>1. state[v] # "BLOCKED"
    BY <1>0 DEF IInv, TreeInv, BlockedIffChild
  <2>2. \A t \in LiveTasks : t \in Pids /\ t \in Nat
    BY DEF LiveTasks, Pids
  <2> QED BY <1>0, <2>1, <2>2 DEF IInv, TreeInv, ProcessChain
<1>2. task0 \in Pids /\ task0 \in Nat /\ (p = 0 <=> v = task0)
  <2>1. task0 \in Pids /\ 0 \notin Pids /\ task0 \in Nat
    BY PidAssumption DEF Pids, task0
  <2>2. v # task0 => p \in LiveTasks
    BY <1>0 DEF IInv, TreeInv, ProcessChain
  <2>3. v = task0 => p = 0
    BY DEF IInv, TreeInv, Fresh
  <2> QED BY <2>1, <2>2, <2>3 DEF LiveTasks
<1>3. p # 0 => /\ p \in LiveTasks /\ p \in Pids /\ p < v /\ state[p] = "BLOCKED"
               /\ frame[v].has = 1 /\ frame[v].off = FrameEnd(p)
  BY <1>0, <1>1, <1>2 DEF IInv, TreeInv, ProcessChain, PoolIsStack
<1>4. p = 0 => LiveTasks = {v} /\ victim = v
  <2>1. v = 1 /\ v \in LiveTasks => \A t \in LiveTasks : t = v
    BY <1>1 DEF Pids
  <2> QED BY <1>0, <1>2, <2>1 DEF task0
<1>5. /\ state'[v] = "DEAD"
      /\ \A t \in Pids \ {v, p} : state'[t] = state[t]
      /\ p # 0 => state'[p] = "READY"
      /\ state' \in [Pids -> {"FREE", "READY", "RUNNING", "BLOCKED", "DEAD"}]
  <2>1. CASE p # 0
    <3>1. state' = [state EXCEPT ![p] = IF @ = "BLOCKED" THEN "READY" ELSE @, ![v] = "DEAD"]
      BY <2>1 DEF ExitFinish
    <3>2. p \in Pids /\ p # v /\ state[p] = "BLOCKED" /\ DOMAIN state = Pids
      BY <1>0, <1>1, <1>3, <2>1 DEF TypeOK
    <3>3. state' = [state EXCEPT ![p] = "READY", ![v] = "DEAD"]
      BY <3>1, <3>2
    <3> QED BY <1>0, <2>1, <3>2, <3>3 DEF TypeOK
  <2>2. CASE p = 0
    <3>1. state' = [state EXCEPT ![v] = "DEAD"]
      BY <2>2 DEF ExitFinish
    <3> QED BY <1>0, <2>2, <3>1 DEF TypeOK
  <2> QED BY <2>1, <2>2
<1>6. /\ UNCHANGED <<current_task, next_pid, parent, elf, exec_pool, eax, victim, exit_status>>
      /\ v = victim => pc' = "switch" /\ at' = v /\ snap' = snap
      /\ v # victim => pc' = "exit" /\ at' = p /\ snap' = [snap EXCEPT ![v] = NoSnap]
  BY <1>0 DEF ExitFinish
<1>7. p = 0 => UNCHANGED <<mem, user_brk, exec_pool_used, frame, zombie>>
  BY DEF ExitFinish
<1>8. p # 0 =>
         /\ mem' = FrameRestore(frame[v], mem, exec_pool)
         /\ user_brk' = frame[v].brk
         /\ exec_pool_used' = frame[v].off
         /\ frame' = [frame EXCEPT ![v].has = 0]
         /\ zombie' = [zombie EXCEPT ![p] = [valid |-> 1, pid |-> v,
                          status |-> IF v = victim THEN exit_status ELSE SIGKILL]]
  BY <1>3 DEF ExitFinish, ExecRestore
<1>9. frame[v] \in FrameType
  BY <1>0 DEF TypeOK
<1>10. p # 0 => GoodFrame(frame[v])
  BY <1>9 DEF GoodFrame, IInv, FramesFit, FrameEnd
<1>11. \A t \in Pids : /\ t # v => frame'[t] = frame[t] /\ snap'[t] = snap[t]
                       /\ frame'[t].off = frame[t].off
                       /\ frame'[t].stack_len = frame[t].stack_len
                       /\ frame'[t].img_base = frame[t].img_base
                       /\ frame'[t].img_len = frame[t].img_len
                       /\ FrameEnd(t)' = FrameEnd(t)
  <2>1. \A t \in Pids : t # v => frame'[t] = frame[t]
    BY <1>0, <1>7, <1>8 DEF TypeOK
  <2>2. \A t \in Pids : t # v => snap'[t] = snap[t]
    BY <1>0, <1>6 DEF TypeOK
  <2>3. /\ frame'[v].off = frame[v].off /\ frame'[v].stack_len = frame[v].stack_len
        /\ frame'[v].img_base = frame[v].img_base /\ frame'[v].img_len = frame[v].img_len
    <3>1. CASE p = 0
      BY <3>1, <1>7
    <3>2. CASE p # 0
      <4>1. frame'[v] = [frame[v] EXCEPT !.has = 0]
        BY <3>2, <1>0, <1>8 DEF TypeOK
      <4> QED BY <4>1, <1>9 DEF FrameType
    <3> QED BY <3>1, <3>2
  <2> QED BY <2>1, <2>2, <2>3 DEF FrameEnd, FrameLen
<1>12. TypeOK'
  <2>1. zombie' \in [Pids -> [valid : {0, 1}, pid : Nat, status : Nat]]
    <3>1. CASE p = 0
      BY <3>1, <1>0, <1>7 DEF TypeOK
    <3>2. CASE p # 0
      <4> DEFINE z == [valid |-> 1, pid |-> v,
                       status |-> IF v = victim THEN exit_status ELSE SIGKILL]
      <4>1. z \in [valid : {0, 1}, pid : Nat, status : Nat]
        BY <1>0 DEF TypeOK, SIGKILL
      <4>2. /\ zombie' = [zombie EXCEPT ![p] = z]
            /\ zombie \in [Pids -> [valid : {0, 1}, pid : Nat, status : Nat]]
        BY <3>2, <1>0, <1>8 DEF TypeOK
      <4> HIDE DEF z
      <4> QED BY <4>1, <4>2
    <3> QED BY <3>1, <3>2
  <2>2. frame' \in [Pids -> FrameType]
    <3>1. CASE p = 0
      BY <3>1, <1>0, <1>7 DEF TypeOK
    <3>2. CASE p # 0
      <4>1. [frame[v] EXCEPT !.has = 0] \in FrameType
        BY <1>9 DEF FrameType
      <4>2. frame \in [Pids -> FrameType]
        BY <1>0 DEF TypeOK
      <4> QED BY <3>2, <4>1, <4>2, <1>8
    <3> QED BY <3>1, <3>2
  <2>3. mem' \in [Addr -> Tag]
    <3>1. mem \in [Addr -> Tag] /\ exec_pool \in [0 .. PoolSize - 1 -> Tag]
      BY <1>0 DEF TypeOK
    <3>2. p # 0 => FrameRestore(frame[v], mem, exec_pool) \in [Addr -> Tag]
      BY <3>1, <1>10, RestoreProps
    <3> QED BY <3>1, <3>2, <1>7, <1>8
  <2>4. exec_pool_used' \in Nat /\ user_brk' \in Int
    BY <1>0, <1>7, <1>8, <1>9 DEF TypeOK, FrameType
  <2>5. snap' \in [Pids -> [mem : [Addr -> Tag], brk : Int]]
    BY <1>0, <1>6, NullTypes DEF TypeOK
  <2>6. /\ pc' \in {"user", "exit", "switch", "halted"} /\ at' \in 0 .. MaxPid
    BY <1>0, <1>6 DEF TypeOK
  <2> QED BY <1>0, <1>5, <1>6, <2>1, <2>2, <2>3, <2>4, <2>5, <2>6, Zenon DEF TypeOK
<1>13. /\ LiveTasks' = LiveTasks \ {v}
       /\ \A t \in LiveTasks' : /\ t \in Pids /\ t \in LiveTasks /\ t # v
                                /\ t # p => state'[t] = "BLOCKED" /\ state'[t] = state[t]
  <2>1. v \notin LiveTasks'
    BY <1>5 DEF LiveTasks, Live
  <2>2. \A t \in Pids \ {v} : t \in LiveTasks' <=> t \in LiveTasks
    <3>1. 0 \notin Pids
      BY DEF Pids
    <3> QED BY <3>1, <1>3, <1>5 DEF LiveTasks, Live
  <2>3. LiveTasks' = LiveTasks \ {v}
    BY <2>1, <2>2 DEF LiveTasks
  <2> QED BY <2>3, <1>1, <1>5
<1>14. ASSUME NEW t \in LiveTasks', p # 0 PROVE t <= p
  BY <1>0, <1>1, <1>13, <1>14 DEF IInv, TreeInv, ProcessChain
<1>15. Fresh'
  <2>1. \A t \in Pids : t >= next_pid => state[t] = "FREE" /\ t # v /\ t # p
    <3>1. state[v] # "FREE" /\ (p # 0 => state[p] # "FREE")
      BY <1>0, <1>3 DEF LiveTasks, Live
    <3>2. 0 \notin Pids
      BY DEF Pids
    <3> QED BY <3>1, <3>2 DEF IInv, TreeInv, Fresh
  <2>2. frame'[task0] = frame[task0]
    BY <1>2, <1>7, <1>11
  <2> QED BY <2>1, <2>2, <1>5, <1>6 DEF IInv, TreeInv, Fresh, NoFrame
<1>16. CurrentOK'
  <2>1. current_task \in Pids /\ current_task' = current_task
    BY <1>0, <1>6 DEF TypeOK
  <2>2. \A t \in Pids : state[t] = "RUNNING" => t = current_task
    BY DEF IInv, TreeInv, CurrentOK
  <2>3. state[current_task] \in {"RUNNING", "DEAD"}
    BY DEF IInv, TreeInv, CurrentOK
  <2>4. current_task # p
    BY <2>1, <2>3, <1>3 DEF Pids
  <2>5. \A t \in Pids : state'[t] = "RUNNING" => t = current_task
    <3>1. 0 \notin Pids
      BY DEF Pids
    <3> QED BY <3>1, <2>2, <1>3, <1>5
  <2>6. state'[current_task] \in {"RUNNING", "DEAD"}
    BY <2>1, <2>3, <2>4, <1>5
  <2> QED BY <2>1, <2>5, <2>6 DEF CurrentOK
<1>17. ProcessChain'
  <2>1. ASSUME NEW s \in LiveTasks', NEW t \in LiveTasks', s < t
        PROVE  state'[s] = "BLOCKED" /\ s <= parent'[t]
    <3>1. s \in LiveTasks /\ t \in LiveTasks /\ s \in Nat /\ t \in Nat
      BY <1>1, <1>13
    <3>2. s # p
      <4>1. CASE p = 0
        BY <4>1, <1>4, <1>13
      <4>2. CASE p # 0
        BY <4>2, <1>14, <2>1, <3>1
      <4> QED BY <4>1, <4>2
    <3> QED BY <2>1, <3>1, <3>2, <1>6, <1>13 DEF IInv, TreeInv, ProcessChain
  <2>2. ASSUME NEW t \in LiveTasks' \ {task0}
        PROVE  parent'[t] \in LiveTasks' /\ parent'[t] < t
    <3>1. parent[t] \in LiveTasks /\ parent[t] < t
      BY <1>13 DEF IInv, TreeInv, ProcessChain
    <3>2. parent[t] # v
      BY <3>1, <1>1, <1>13
    <3> QED BY <3>1, <3>2, <1>6, <1>13
  <2>3. pc' # "user"
    BY <1>6
  <2> QED BY <2>1, <2>2, <2>3 DEF ProcessChain
<1>18. BlockedIffChild'
  <2>1. \A t \in Pids : \A s : s \in LiveChildren(t) <=> s \in LiveTasks /\ parent[s] = t
    BY <1>0, ChildrenProps
  <2>2. \A t \in Pids : \A s : s \in LiveChildren(t)' <=> s \in LiveTasks' /\ parent'[s] = t
    BY <1>12 DEF LiveChildren, LiveTasks, Live, TypeOK
  <2>3. ASSUME NEW t \in LiveTasks', t = p PROVE LiveChildren(t)' = {}
    <3>1. p # 0
      BY <1>4, <1>13
    <3>2. ASSUME NEW s, s \in LiveChildren(t)' PROVE FALSE
      <4>1. s \in LiveTasks' /\ parent[s] = p
        BY <3>2, <2>2, <2>3, <1>6, <1>13
      <4>2. s <= p
        BY <4>1, <3>1, <1>14
      <4>3. s # task0
        BY <3>1, <4>1 DEF IInv, TreeInv, Fresh
      <4>4. p < s
        BY <4>1, <4>3, <1>13 DEF IInv, TreeInv, ProcessChain
      <4> QED BY <4>1, <4>2, <4>4, <1>1, <1>13
    <3> QED BY <3>2
  <2>4. ASSUME NEW t \in LiveTasks', t # p PROVE LiveChildren(t)' # {}
    <3>1. state[t] = "BLOCKED" /\ t \in LiveTasks /\ t \in Pids
      BY <2>4, <1>13
    <3>2. PICK s \in LiveChildren(t) : TRUE
      BY <3>1 DEF IInv, TreeInv, BlockedIffChild
    <3>3. s \in LiveTasks /\ parent[s] = t /\ s # v
      BY <3>1, <3>2, <2>1, <2>4
    <3> QED BY <3>1, <3>3, <2>2, <1>6, <1>13
  <2>5. ASSUME NEW t \in LiveTasks', t = p PROVE state'[t] # "BLOCKED"
    BY <2>5, <1>4, <1>5, <1>13
  <2> QED BY <2>3, <2>4, <2>5, <1>13 DEF BlockedIffChild
<1>19. ExitOK'
  <2>1. SUFFICES ASSUME v # victim
                 PROVE  victim \in LiveTasks' /\ p \in LiveTasks' /\ victim <= p
    BY <1>6 DEF ExitOK
  <2>2. p # 0 /\ victim \in LiveTasks'
    BY <2>1, <1>0, <1>4, <1>13
  <2> QED BY <2>2, <1>0, <1>1, <1>3, <1>13, <1>14
<1>20. SwitchOK'
  <2>1. SUFFICES ASSUME v = victim
                 PROVE  /\ state'[current_task] = "DEAD"
                        /\ p = 0 => LiveTasks' = {}
                        /\ p # 0 => p \in Pids /\ state'[p] = "READY"
    BY <1>5, <1>6 DEF SwitchOK
  <2>2. current_task \in Pids /\ state[current_task] \in {"RUNNING", "DEAD"}
    BY <1>0 DEF TypeOK, IInv, TreeInv, CurrentOK
  <2>3. state[current_task] = "RUNNING" => current_task = v
    BY <2>2, <1>1 DEF LiveTasks, Live
  <2>4. current_task # p
    BY <2>2, <1>3 DEF Pids
  <2> QED BY <2>2, <2>3, <2>4, <1>3, <1>4, <1>5, <1>13
<1>21. HaltOnlyWhenDone'
  BY <1>6 DEF HaltOnlyWhenDone
<1>22. FramesFit'
  BY <1>11 DEF IInv, FramesFit
<1>23. PoolIsStack'
  <2>1. ASSUME NEW s \in LiveTasks', NEW t \in LiveTasks', s < t
        PROVE  FrameEnd(s)' <= frame'[t].off
    BY <2>1, <1>11, <1>13 DEF IInv, PoolIsStack
  <2>2. ASSUME NEW t \in LiveTasks' \ {task0}
        PROVE  frame'[t].has = 1 /\ frame'[t].off = FrameEnd(parent[t])'
    <3>1. t \in LiveTasks \ {task0} /\ t # v /\ t \in Pids
      BY <1>13
    <3>2. parent[t] \in Pids
      BY <3>1 DEF IInv, TreeInv, ProcessChain, LiveTasks
    <3>3. FrameEnd(parent[t])' = FrameEnd(parent[t])
      BY <3>2, <1>6, <1>11
    <3> QED BY <3>1, <3>3, <1>11 DEF IInv, PoolIsStack
  <2>3. ASSUME NEW t \in LiveTasks', state'[t] # "BLOCKED"
        PROVE  exec_pool_used' = FrameEnd(t)'
    <3>1. t = p /\ p # 0
      BY <2>3, <1>4, <1>13
    <3> QED BY <3>1, <1>3, <1>8, <1>11, <1>13
  <2>4. LiveTasks' = {} => exec_pool_used' = 0
    <3>1. SUFFICES ASSUME LiveTasks' = {} PROVE exec_pool_used' = 0
      OBVIOUS
    <3>2. p = 0
      BY <3>1, <1>0, <1>3, <1>13
    <3>3. exec_pool_used = FrameEnd(v) /\ v = task0
      BY <3>2, <1>0, <1>1, <1>2 DEF IInv, PoolIsStack
    <3>4. FrameEnd(v) = 0
      BY <3>3, NoFrameFits DEF FrameEnd, IInv, TreeInv, Fresh
    <3> QED BY <3>2, <3>3, <3>4, <1>7
  <2>5. exec_pool_used' <= PoolSize
    <3>1. CASE p = 0
      BY <3>1, <1>7 DEF IInv, PoolIsStack
    <3>2. CASE p # 0
      <4>1. frame[v].off \in Nat /\ frame[v].off + frame[v].stack_len + frame[v].img_len <= PoolSize
            /\ frame[v].stack_len \in Nat /\ frame[v].img_len \in Nat
        BY <3>2, <1>10, GoodFrameProps
      <4> QED BY <4>1, <3>2, <1>8, LayoutAssumption
    <3> QED BY <3>1, <3>2
  <2> QED BY <2>1, <2>2, <2>3, <2>4, <2>5 DEF PoolIsStack
<1>24. FrameShape'
  BY <1>6, <1>11, <1>13 DEF IInv, FrameShape, IsElf, Image
<1>25. PoolHolds'
  BY <1>6, <1>11, <1>13 DEF IInv, PoolHolds
<1>26. Restored'
  <2>1. SUFFICES ASSUME v = victim, p # 0
                 PROVE  /\ zombie'[p] = [valid |-> 1, pid |-> victim, status |-> exit_status]
                        /\ user_brk' = snap[victim].brk
                        /\ \A a \in Saved(victim) : mem'[a] = snap[victim].mem[a]
    BY <1>6 DEF Restored, Saved, IsElf, Image
  <2>2. zombie'[p] = [valid |-> 1, pid |-> victim, status |-> exit_status]
    BY <2>1, <1>0, <1>3, <1>8 DEF TypeOK
  <2>3. v \in LiveTasks \ {task0}
    BY <2>1, <1>0, <1>2
  <2>4. user_brk' = snap[victim].brk
    BY <2>1, <2>3, <1>8 DEF IInv, FrameShape
  <2>5. ASSUME NEW a \in Saved(victim) PROVE mem'[a] = snap[victim].mem[a]
    <3>1. /\ IsElf(p) /\ frame[v].stack_len = StackSize
          /\ \/ a \in StackBase .. StackBase + frame[v].stack_len - 1
             \/ a \in frame[v].img_base .. frame[v].img_base + frame[v].img_len - 1
      BY <2>1, <2>3, <2>5 DEF IInv, FrameShape, Saved, StackAddrs
    <3>2. a \in Addr
      <4>1. GoodFrame(frame[v]) /\ frame[v].img_base \in Nat /\ frame[v].img_len \in Nat
        BY <2>1, <1>10, GoodFrameProps
      <4> QED BY <3>1, <4>1, LayoutAssumption DEF Addr, GoodFrame
    <3>3. FrameHolds(exec_pool, frame[v], snap[v].mem)
      BY <2>3 DEF IInv, PoolHolds
    <3>4. /\ snap[v].mem \in [Addr -> Tag] /\ mem \in [Addr -> Tag]
          /\ exec_pool \in [0 .. PoolSize - 1 -> Tag] /\ GoodFrame(frame[v])
      BY <2>1, <1>0, <1>10 DEF TypeOK
    <3>5. FrameRestore(frame[v], mem, exec_pool)[a] = snap[v].mem[a]
      BY <3>1, <3>2, <3>3, <3>4, RestoreBack
    <3> QED BY <3>5, <2>1, <1>8
  <2> QED BY <2>2, <2>4, <2>5
<1> QED BY <1>12, <1>15, <1>16, <1>17, <1>18, <1>19, <1>20, <1>21, <1>22, <1>23, <1>24,
           <1>25, <1>26 DEF IInv, TreeInv

\* The tail of sched_task_exit switches to the caller of the ended task.
LEMMA ExitSwitchTarget ==
    ASSUME IInv, ExitSwitch
    PROVE  /\ pc = "switch" /\ parent[victim] # 0 /\ parent[victim] \in Pids
           /\ current_task' = parent[victim]
           /\ state[parent[victim]] = "READY"
           /\ state' = [state EXCEPT ![parent[victim]] = "RUNNING"]
<1>0. TypeOK /\ pc = "switch" /\ state[current_task] = "DEAD" /\ current_task \in Pids
  BY DEF IInv, TypeOK, TreeInv, SwitchOK, ExitSwitch
<1>1. PICK t \in Runnable(state) : current_task' = t /\ state' = SwitchTo(state, t)
  BY <1>0 DEF ExitSwitch
<1>2. t \in Pids /\ state[t] = "READY" /\ t # current_task
  BY <1>1 DEF Runnable
<1>3. t \in LiveTasks
  BY <1>2 DEF LiveTasks, Live
<1>4. parent[victim] # 0
  BY <1>0, <1>3 DEF IInv, TreeInv, SwitchOK
<1>5. parent[victim] \in Pids /\ state[parent[victim]] = "READY"
  BY <1>0, <1>4 DEF IInv, TreeInv, SwitchOK
<1>6. parent[victim] \in LiveTasks
  BY <1>5 DEF LiveTasks, Live
<1>7. t = parent[victim]
  <2>1. \A r, s \in LiveTasks : r < s => state[r] = "BLOCKED"
    BY DEF IInv, TreeInv, ProcessChain
  <2>2. t \in Nat /\ parent[victim] \in Nat
    BY <1>2, <1>5 DEF Pids
  <2> QED BY <2>1, <2>2, <1>2, <1>3, <1>5, <1>6
<1>8. state' = [state EXCEPT ![t] = "RUNNING"]
  BY <1>0, <1>1, <1>2 DEF SwitchTo, TypeOK
<1> QED BY <1>0, <1>1, <1>4, <1>5, <1>7, <1>8

\* Switching to the caller of the ended task preserves the inductive invariant.
LEMMA ExitSwitchStep ==
    ASSUME IInv, ExitSwitch
    PROVE  IInv'
<1> PICK p \in Pids : p = parent[victim]
  BY ExitSwitchTarget
<1>0. TypeOK
  BY DEF IInv
<1>1. /\ pc = "switch" /\ p # 0 /\ current_task' = p /\ state[p] = "READY"
      /\ state' = [state EXCEPT ![p] = "RUNNING"]
      /\ victim \in Pids /\ state[victim] = "DEAD" /\ state[current_task] = "DEAD"
  BY ExitSwitchTarget DEF IInv, TreeInv, SwitchOK
<1>2. /\ pc' = "user" /\ eax' = 0 /\ victim' = 0 /\ exit_status' = 0 /\ at' = 0
      /\ snap' = [snap EXCEPT ![victim] = NoSnap]
      /\ UNCHANGED <<next_pid, parent, zombie, elf, frame, poolVars, mem, user_brk>>
  BY DEF ExitSwitch
<1>3. /\ state'[p] = "RUNNING" /\ \A t \in Pids \ {p} : state'[t] = state[t]
      /\ state' \in [Pids -> {"FREE", "READY", "RUNNING", "BLOCKED", "DEAD"}]
      /\ p \in LiveTasks
  BY <1>0, <1>1 DEF TypeOK, LiveTasks, Live
<1>4. TypeOK'
  <2>1. snap' \in [Pids -> [mem : [Addr -> Tag], brk : Int]]
    BY <1>0, <1>2, NullTypes DEF TypeOK
  <2>2. 0 \in 0 .. MaxPid /\ 0 \in Nat /\ 0 \in Int
    BY PidAssumption
  <2> QED BY <1>0, <1>1, <1>2, <1>3, <2>1, <2>2, Zenon DEF TypeOK, poolVars
<1>5. LiveTasks' = LiveTasks
  <2>1. \A t \in Pids : t \in LiveTasks' <=> t \in LiveTasks
    BY <1>1, <1>3 DEF LiveTasks, Live
  <2> QED BY <2>1 DEF LiveTasks
<1>6. \A t \in LiveTasks : t \in Pids /\ snap'[t] = snap[t]
  BY <1>0, <1>1, <1>2 DEF LiveTasks, Live, TypeOK
<1>7. Fresh'
  BY <1>1, <1>2, <1>3 DEF IInv, TreeInv, Fresh
<1>8. CurrentOK'
  <2>1. \A t \in Pids : state[t] # "RUNNING"
    BY <1>1 DEF IInv, TreeInv, CurrentOK
  <2> QED BY <2>1, <1>1, <1>3 DEF CurrentOK
<1>9. ProcessChain'
  <2>1. ASSUME NEW s \in LiveTasks, NEW t \in LiveTasks, s < t
        PROVE  state'[s] = "BLOCKED" /\ s <= parent'[t]
    <3>1. state[s] = "BLOCKED" /\ s <= parent[t]
      BY <2>1 DEF IInv, TreeInv, ProcessChain
    <3> QED BY <3>1, <1>1, <1>2, <1>3, <1>6
  <2>2. \A t \in LiveTasks \ {task0} : parent'[t] \in LiveTasks /\ parent'[t] < t
    BY <1>2 DEF IInv, TreeInv, ProcessChain
  <2> QED BY <2>1, <2>2, <1>1, <1>3, <1>5 DEF ProcessChain
<1>10. BlockedIffChild'
  <2>1. \A t \in LiveTasks : LiveChildren(t)' = LiveChildren(t)
    <3>1. \A c \in Pids : state'[c] \in {"FREE", "DEAD"} <=> state[c] \in {"FREE", "DEAD"}
      BY <1>1, <1>3
    <3> QED BY <3>1, <1>2 DEF LiveChildren
  <2> QED BY <2>1, <1>1, <1>3, <1>5, <1>6 DEF IInv, TreeInv, BlockedIffChild
<1>11. ExitOK' /\ SwitchOK' /\ HaltOnlyWhenDone' /\ Restored'
  BY <1>2 DEF ExitOK, SwitchOK, HaltOnlyWhenDone, Restored
<1>12. FramesFit'
  BY <1>2 DEF IInv, FramesFit, FrameEnd
<1>13. PoolIsStack'
  <2>1. \A t \in LiveTasks : state'[t] # "BLOCKED" => state[t] # "BLOCKED"
    BY <1>1, <1>3, <1>6
  <2> QED BY <2>1, <1>2, <1>5 DEF IInv, PoolIsStack, FrameEnd, poolVars
<1>14. FrameShape' /\ PoolHolds'
  BY <1>2, <1>5, <1>6 DEF IInv, FrameShape, PoolHolds, IsElf, Image, poolVars
<1> QED BY <1>4, <1>7, <1>8, <1>9, <1>10, <1>11, <1>12, <1>13, <1>14 DEF IInv, TreeInv

-----------------------------------------------------------------------------
(* Theorems.                                                                *)

\* The boot state satisfies the inductive invariant.
LEMMA InitInv == Init => IInv
<1> SUFFICES ASSUME Init PROVE IInv
  OBVIOUS
<1> USE DEF Init
<1>1. task0 \in Pids /\ task0 = 1 /\ 0 \in Tag
  BY PidAssumption DEF Pids, task0, Tag
<1>2. TypeOK
  <2>1. /\ zombie \in [Pids -> [valid : {0, 1}, pid : Nat, status : Nat]]
        /\ elf \in [Pids -> [lo : Nat, hi : Nat]]
        /\ frame \in [Pids -> FrameType]
        /\ snap \in [Pids -> [mem : [Addr -> Tag], brk : Int]]
    BY NullTypes
  <2>2. /\ parent \in [Pids -> 0 .. MaxPid] /\ victim \in 0 .. MaxPid /\ at \in 0 .. MaxPid
        /\ exit_status \in Nat /\ user_brk \in Int /\ eax \in Int /\ exec_pool_used \in Nat
        /\ next_pid \in Nat \ {0, 1}
    BY PidAssumption DEF NoBrk
  <2>3. /\ state \in [Pids -> {"FREE", "READY", "RUNNING", "BLOCKED", "DEAD"}]
        /\ exec_pool \in [0 .. PoolSize - 1 -> Tag] /\ mem \in [Addr -> Tag]
    BY <1>1
  <2> QED BY <1>1, <2>1, <2>2, <2>3, Zenon DEF TypeOK
<1>3. LiveTasks = {task0} /\ state[task0] = "RUNNING"
  BY <1>1 DEF LiveTasks, Live
<1>4. Fresh /\ CurrentOK
  BY <1>1 DEF Fresh, CurrentOK, Pids
<1>5. ProcessChain /\ BlockedIffChild
  <2>1. LiveChildren(task0) = {}
    BY <1>1 DEF LiveChildren
  <2> QED BY <1>1, <1>3, <2>1 DEF ProcessChain, BlockedIffChild
<1>6. ExitOK /\ SwitchOK /\ HaltOnlyWhenDone /\ Restored
  BY DEF ExitOK, SwitchOK, HaltOnlyWhenDone, Restored
<1>7. \A t \in Pids : frame[t] = NoFrame
  OBVIOUS
<1>8. FramesFit /\ FrameEnd(task0) = 0
  BY <1>1, <1>7, NoFrameFits DEF FramesFit, FrameEnd
<1>9. PoolIsStack
  BY <1>1, <1>3, <1>8, LayoutAssumption DEF PoolIsStack
<1>10. FrameShape /\ PoolHolds
  BY <1>3 DEF FrameShape, PoolHolds
<1> QED BY <1>2, <1>4, <1>5, <1>6, <1>8, <1>9, <1>10 DEF IInv, TreeInv

\* One step of the system preserves the inductive invariant, action by action.
LEMMA NextInv == IInv /\ [Next]_vars => IInv'
<1> SUFFICES ASSUME IInv, [Next]_vars PROVE IInv'
  OBVIOUS
<1>0. TypeOK /\ current_task \in Pids
  BY DEF IInv, TypeOK
<1>1. ASSUME ExecRefused PROVE IInv'
  <2>1. TypeOK'
    <3>1. eax' \in Int
      BY <1>1 DEF ExecRefused, Failed
    <3> QED BY <1>0, <1>1, <3>1, Zenon DEF ExecRefused, TypeOK, taskVars, poolVars, exitVars
  <2> QED BY <2>1, <1>1, QuietStep DEF ExecRefused, taskVars
<1>2. ASSUME NEW g \in Progs, NEW n \in 1 .. StackSize, ExecStart(g, n) PROVE IInv'
  BY <1>2, ExecStartStep
<1>3. ASSUME NEW g \in Progs, NEW n \in 1 .. StackSize, NEW stage \in ExecStages,
             ExecFail(g, n, stage)
      PROVE  IInv'
  BY <1>3, ExecFailStep
<1>4. ASSUME SysExit PROVE IInv'
  <2>1. PICK code \in ExitCodes : BeginExit(current_task, (code % 256) * 256)
    BY <1>4 DEF SysExit
  <2>2. (code % 256) * 256 \in Nat
    BY ArgumentAssumption
  <2>3. pc = "user"
    BY <1>4 DEF SysExit
  <2> QED BY <2>1, <2>2, <2>3, UserTop, BeginExitStep
<1>5. ASSUME NEW t \in Pids, NEW sig \in Signals, SysKill(t, sig) PROVE IInv'
  <2>1. t \in LiveTasks /\ sig \in Nat /\ pc = "user" /\ BeginExit(t, sig)
    BY <1>5, ArgumentAssumption DEF SysKill, LiveTasks
  <2> QED BY <2>1, BeginExitStep
<1>6. ASSUME NEW t \in Pids, NEW sig \in Signals, SysKillNothing(t, sig) PROVE IInv'
  <2>1. TypeOK'
    <3>1. eax' \in Int
      BY <1>6 DEF SysKillNothing, Failed
    <3> QED BY <1>0, <1>6, <3>1, Zenon DEF SysKillNothing, TypeOK, taskVars, poolVars, exitVars
  <2> QED BY <2>1, <1>6, QuietStep DEF SysKillNothing, taskVars
<1>7. ASSUME ExitPath PROVE IInv'
  BY <1>7, ExitDescendStep, ExitFinishStep, ExitSwitchStep, ExitHaltStep DEF ExitPath
<1>8. ASSUME UNCHANGED vars PROVE IInv'
  <2> USE <1>8 DEF vars, taskVars, poolVars, exitVars, LiveTasks, Live
  <2>1. TypeOK'
    BY <1>0, Zenon DEF TypeOK
  <2>2. Fresh' /\ CurrentOK' /\ ProcessChain' /\ ExitOK' /\ SwitchOK' /\ HaltOnlyWhenDone'
    BY DEF IInv, TreeInv, Fresh, CurrentOK, ProcessChain, ExitOK, SwitchOK, HaltOnlyWhenDone
  <2>3. BlockedIffChild'
    BY DEF IInv, TreeInv, BlockedIffChild, LiveChildren
  <2>4. FramesFit' /\ PoolIsStack'
    BY DEF IInv, FramesFit, PoolIsStack, FrameEnd
  <2>5. FrameShape' /\ PoolHolds' /\ Restored'
    BY DEF IInv, FrameShape, PoolHolds, Restored, Saved, IsElf, Image
  <2> QED BY <2>1, <2>2, <2>3, <2>4, <2>5 DEF IInv, TreeInv
<1>9. ASSUME NEW a \in Writable(current_task) \cup {-1}, SysWait(a) PROVE IInv'
  <2>1. mem' \in [Addr -> Tag]
    <3>1. mem \in [Addr -> Tag] /\ current_task \in Tag
      BY <1>0 DEF TypeOK, Tag, Pids
    <3> QED BY <3>1, <1>9 DEF SysWait
  <2>2. zombie' \in [Pids -> [valid : {0, 1}, pid : Nat, status : Nat]]
    <3>1. zombie[current_task] \in [valid : {0, 1}, pid : Nat, status : Nat]
      BY <1>0 DEF TypeOK
    <3>2. [zombie[current_task] EXCEPT !.valid = 0]
             \in [valid : {0, 1}, pid : Nat, status : Nat]
      BY <3>1
    <3> QED BY <3>2, <1>0, <1>9 DEF SysWait, TypeOK
  <2>3. eax' \in Int
    BY <1>0, <1>9 DEF SysWait, TypeOK, Failed
  <2>4. TypeOK'
    BY <1>0, <1>9, <2>1, <2>2, <2>3, Zenon DEF SysWait, TypeOK, poolVars, exitVars
  <2> QED BY <2>4, <1>9, QuietStep DEF SysWait
<1>10. ASSUME NEW inc \in Increments, SysSbrk(inc) PROVE IInv'
  <2>1. user_brk' \in Int /\ eax' \in Int
    BY <1>0, <1>10, ArgumentAssumption DEF SysSbrk, TypeOK, Failed
  <2>2. TypeOK'
    BY <1>0, <1>10, <2>1, Zenon DEF SysSbrk, TypeOK, taskVars, poolVars, exitVars
  <2> QED BY <2>2, <1>10, QuietStep DEF SysSbrk, taskVars
<1>11. ASSUME NEW a \in Writable(current_task), UserWrite(a) PROVE IInv'
  <2>1. mem' \in [Addr -> Tag] /\ eax' \in Int
    <3>1. mem \in [Addr -> Tag] /\ current_task \in Tag
      BY <1>0 DEF TypeOK, Tag, Pids
    <3>2. mem' = [mem EXCEPT ![a] = current_task] /\ eax' = 0
      BY <1>11 DEF UserWrite
    <3>3. mem' \in [Addr -> Tag]
      BY <3>1, <3>2
    <3> QED BY <3>2, <3>3
  <2>2. TypeOK'
    BY <1>0, <1>11, <2>1, Zenon DEF UserWrite, TypeOK, taskVars, poolVars, exitVars
  <2> QED BY <2>2, <1>11, QuietStep DEF UserWrite, taskVars
<1> QED BY <1>1, <1>2, <1>3, <1>4, <1>5, <1>6, <1>7, <1>8, <1>9, <1>10, <1>11
        DEF Next, Exec, Halted

\* The inductive invariant holds in every reachable state.
THEOREM Invariance == Spec => []IInv
BY InitInv, NextInv, PTL DEF Spec

\* Every field of the task table, the pool and user memory keeps its type.
THEOREM TypeCorrect == Spec => []TypeOK
<1>1. IInv => TypeOK
  BY DEF IInv
<1> QED BY <1>1, Invariance, PTL

\* The live tasks are one chain of callers with the running task at its end,
\* so schedule() never has two tasks to choose from.
THEOREM ChainHolds == Spec => []ProcessChain
<1>1. IInv => ProcessChain
  BY DEF IInv, TreeInv
<1> QED BY <1>1, Invariance, PTL

\* A caller of execv is blocked exactly as long as the child it started lives.
THEOREM NoLostWakeup == Spec => []BlockedIffChild
<1>1. IInv => BlockedIffChild
  BY DEF IInv, TreeInv
<1> QED BY <1>1, Invariance, PTL

\* The save frames are a stack without overlap, gap or leak.
THEOREM PoolStackHolds == Spec => []PoolIsStack
<1>1. IInv => PoolIsStack
  BY DEF IInv
<1> QED BY <1>1, Invariance, PTL

\* The kernel halts only when no task is left.
THEOREM HaltHolds == Spec => []HaltOnlyWhenDone
<1>1. IInv => HaltOnlyWhenDone
  BY DEF IInv, TreeInv
<1> QED BY <1>1, Invariance, PTL

\* exec-and-wait gives its caller back, whatever happened below it: the switch
\* at the end of the exit path goes to the caller of the ended task, with its
\* wait() slot, heap break, stack and overwritten image part as they must be.
THEOREM ExecReturnsHolds == Spec => ExecReturns
<1>1. IInv /\ [Next]_vars =>
        [pc = "switch" /\ pc' = "user" =>
          LET p == current_task'
          IN  /\ p = parent[victim]
              /\ zombie'[p] = [valid |-> 1, pid |-> victim, status |-> exit_status]
              /\ user_brk' = snap[victim].brk
              /\ \A a \in Saved(victim) : mem'[a] = snap[victim].mem[a]]_vars
  <2> SUFFICES ASSUME IInv, [Next]_vars, pc = "switch", pc' = "user"
               PROVE  /\ current_task' = parent[victim]
                      /\ zombie'[current_task']
                            = [valid |-> 1, pid |-> victim, status |-> exit_status]
                      /\ user_brk' = snap[victim].brk
                      /\ \A a \in Saved(victim) : mem'[a] = snap[victim].mem[a]
    OBVIOUS
  <2>1. ExitSwitch
    BY DEF Next, Exec, ExecRefused, ExecStart, ExecFail, SysExit, SysKill, SysKillNothing,
           ExitPath, ExitDescend, ExitFinish, ExitHalt, Halted, SysWait, SysSbrk, UserWrite,
           vars
  <2>2. current_task' = parent[victim] /\ parent[victim] # 0
    BY <2>1, ExitSwitchTarget
  <2>3. zombie' = zombie /\ user_brk' = user_brk /\ mem' = mem
    BY <2>1 DEF ExitSwitch
  <2> QED BY <2>2, <2>3 DEF IInv, Restored
<1> QED BY <1>1, Invariance, PTL DEF Spec, ExecReturns

\* On the exit path eax no longer holds the result of a failed call.
EaxOK == pc # "user" => eax = 0

\* Every entry into the exit path sets eax, and none of its steps changes it.
LEMMA EaxInv == Spec => []EaxOK
<1>1. Init => EaxOK
  BY DEF Init, EaxOK
<1>2. EaxOK /\ [Next]_vars => EaxOK'
  BY DEF EaxOK, Next, Exec, ExecRefused, ExecStart, ExecFail, SysExit, SysKill, SysKillNothing,
         BeginExit, ExitPath, ExitDescend, ExitFinish, ExitSwitch, ExitHalt, Halted,
         SysWait, SysSbrk, UserWrite, vars
<1> QED BY <1>1, <1>2, PTL DEF Spec

\* EXEC_FAIL() puts back every byte that its caller may look at.
LEMMA ExecFailMemory ==
    ASSUME IInv, NEW g \in Progs, NEW n \in 1 .. StackSize, NEW stage \in ExecStages,
           ExecFail(g, n, stage), NEW a \in Writable(current_task)
    PROVE  mem'[a] = mem[a]
<1> DEFINE f == FrameFor(current_task, g)
           m1 == IF stage = "stack" THEN mem ELSE BuildUserStack(mem, n)
           m2 == IF stage = "task" THEN ElfLoad(m1, g) ELSE m1
<1>0. TypeOK /\ pc = "user" /\ current_task \in Pids
  BY DEF IInv, ExecFail, TypeOK
<1>1. GoodFrame(f)
  BY <1>0, ExecFrameGood DEF ExecFail
<1>2. /\ FrameSave(f) \in [0 .. PoolSize - 1 -> Tag] /\ FrameHolds(FrameSave(f), f, mem)
  BY <1>0, <1>1, SaveProps
<1>3. m1 \in [Addr -> Tag] /\ m2 \in [Addr -> Tag] /\ mem \in [Addr -> Tag]
  <2>1. m1 \in [Addr -> Tag] /\ mem \in [Addr -> Tag]
    BY <1>0, LoadType DEF TypeOK
  <2> QED BY <2>1, LoadType
<1>4. mem' = FrameRestore(f, m2, FrameSave(f))
  BY DEF ExecFail
<1>5. /\ IsElf(current_task) /\ a \in Addr
      /\ a \in Image(current_task) \/ a \in StackAddrs
  BY DEF Writable
<1>6. /\ f.stack_len = StackSize
      /\ \A b \in Image(current_task) \cap (ProgLo[g] .. ProgHi[g] - 1) :
            b \in f.img_base .. f.img_base + f.img_len - 1
  BY <1>0, <1>5, FrameForProps
<1>7. a \in StackBase .. StackBase + StackSize - 1
        \/ a \in ProgLo[g] .. ProgHi[g] - 1 \/ m2[a] = mem[a]
  <2>1. a \notin StackBase .. StackBase + StackSize - 1 => m1[a] = mem[a]
    <3>1. /\ n \in Nat /\ n <= StackSize /\ StackBase \in Nat /\ StackSize \in Nat
          /\ a \in Int
      BY <1>5, LayoutAssumption DEF Addr
    <3>2. a \in StackBase + StackSize - n .. StackBase + StackSize - 1
             => a \in StackBase .. StackBase + StackSize - 1
      BY <3>1
    <3> QED BY <3>2, <1>5 DEF BuildUserStack
  <2>2. a \notin ProgLo[g] .. ProgHi[g] - 1 => m2[a] = m1[a]
    BY <1>5 DEF ElfLoad
  <2> QED BY <2>1, <2>2
<1> HIDE DEF f, m1, m2
<1>8. /\ FrameRestore(f, m2, FrameSave(f))[a] = mem[a]
           \/ FrameRestore(f, m2, FrameSave(f))[a] = m2[a]
      /\ a \in StackBase .. StackBase + f.stack_len - 1
           => FrameRestore(f, m2, FrameSave(f))[a] = mem[a]
      /\ a \in f.img_base .. f.img_base + f.img_len - 1
           => FrameRestore(f, m2, FrameSave(f))[a] = mem[a]
  BY <1>1, <1>2, <1>3, <1>5, RestoreBack
<1> QED BY <1>4, <1>5, <1>6, <1>7, <1>8 DEF StackAddrs

\* No system call that fails changes what its caller, or any other task, has.
THEOREM FailedCallHolds == Spec => FailedCallHarmless
<1>1. IInv /\ EaxOK /\ [Next]_vars =>
        [eax' = Failed =>
          /\ \A a \in Writable(current_task) : mem'[a] = mem[a]
          /\ BrkPos' = BrkPos /\ exec_pool_used' = exec_pool_used
          /\ current_task' = current_task /\ LiveTasks' = LiveTasks
          /\ \A t \in LiveTasks : state'[t] = state[t] /\ frame'[t] = frame[t]]_vars
  <2> DEFINE Harmless ==
          /\ \A a \in Writable(current_task) : mem'[a] = mem[a]
          /\ BrkPos' = BrkPos /\ exec_pool_used' = exec_pool_used
          /\ current_task' = current_task /\ LiveTasks' = LiveTasks
          /\ \A t \in LiveTasks : state'[t] = state[t] /\ frame'[t] = frame[t]
  <2> SUFFICES ASSUME IInv, EaxOK, Next, eax' = Failed
               PROVE  Harmless
    OBVIOUS
  <2>0. TypeOK /\ current_task \in Pids
    BY DEF IInv, TypeOK
  <2>1. ASSUME NEW g \in Progs, NEW n \in 1 .. StackSize, NEW stage \in ExecStages,
               ExecFail(g, n, stage)
        PROVE  Harmless
    <3>1. \A a \in Writable(current_task) : mem'[a] = mem[a]
      BY <2>1, ExecFailMemory
    <3>2. /\ exec_pool_used' = exec_pool_used
          /\ user_brk' = user_brk /\ current_task' = current_task
      BY <2>0, <2>1, FrameForProps DEF ExecFail
    <3>3. \A t \in Pids : \/ state'[t] = state[t] /\ frame'[t] = frame[t]
                          \/ state[t] = "DEAD" /\ state'[t] = "FREE"
      <4>1. \/ UNCHANGED <<state, frame>>
            \/ state' = Reap(state, "FREE") /\ frame' = Reap(frame, NoFrame)
        BY <2>1 DEF ExecFail, taskVars
      <4> QED BY <4>1 DEF Reap
    <3>4. LiveTasks' = LiveTasks
           /\ \A t \in LiveTasks : state'[t] = state[t] /\ frame'[t] = frame[t]
      BY <3>3 DEF LiveTasks, Live
    <3> QED BY <3>1, <3>2, <3>4 DEF BrkPos
  <2>2. ASSUME mem' = mem, BrkPos' = BrkPos,
               UNCHANGED <<exec_pool_used, current_task, state, frame>>
        PROVE  Harmless
    BY <2>2 DEF LiveTasks, Live
  <2>3. ASSUME ExecRefused PROVE Harmless
    BY <2>3, <2>2 DEF ExecRefused, taskVars, poolVars, BrkPos
  <2>4. ASSUME NEW t \in Pids, NEW sig \in Signals, SysKillNothing(t, sig)
        PROVE  Harmless
    BY <2>4, <2>2 DEF SysKillNothing, taskVars, poolVars, BrkPos
  <2>5. ASSUME NEW a \in Writable(current_task) \cup {-1}, SysWait(a)
        PROVE  Harmless
    <3>1. zombie[current_task].pid \in Nat
      BY <2>0 DEF TypeOK
    <3>2. mem' = mem
      BY <2>5, <3>1 DEF SysWait, Failed
    <3> QED BY <2>5, <3>2, <2>2 DEF SysWait, poolVars, BrkPos
  <2>6. ASSUME NEW inc \in Increments, SysSbrk(inc) PROVE Harmless
    <3>1. BrkPos' = BrkPos
      <4>1. user_brk \in Int /\ inc \in Int /\ HeapSize \in Nat
        BY <2>0, ArgumentAssumption, LayoutAssumption DEF TypeOK
      <4>2. user_brk' = IF user_brk = NoBrk THEN 0 ELSE user_brk
        BY <2>6, <4>1 DEF SysSbrk, Failed
      <4> QED BY <4>1, <4>2 DEF BrkPos, NoBrk
    <3> QED BY <3>1, <2>6, <2>2 DEF SysSbrk, taskVars, poolVars
  <2>7. ASSUME Halted PROVE Harmless
    BY <2>7, <2>2 DEF Halted, vars, taskVars, poolVars, BrkPos
  <2>8. ~ExitPath
    BY DEF ExitPath, ExitDescend, ExitFinish, ExitSwitch, ExitHalt, Failed, EaxOK
  <2>9. /\ ~SysExit
        /\ \A t \in Pids, sig \in Signals : ~SysKill(t, sig)
        /\ \A g \in Progs, n \in 1 .. StackSize : ~ExecStart(g, n)
        /\ \A a \in Writable(current_task) : ~UserWrite(a)
    BY DEF SysExit, SysKill, BeginExit, ExecStart, UserWrite, Failed
  <2> HIDE DEF Harmless
  <2> QED BY <2>1, <2>3, <2>4, <2>5, <2>6, <2>7, <2>8, <2>9 DEF Next, Exec
<1> QED BY <1>1, Invariance, EaxInv, PTL DEF Spec, FailedCallHarmless
=============================================================================
