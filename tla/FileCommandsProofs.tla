------------------------- MODULE FileCommandsProofs -------------------------
(***************************************************************************)
(* Proofs about the file system under programs that use newlib and the shell's *)
(* file commands (modules Newlib and FileCommands), for tables, files and        *)
(* buffers of any size.                                                     *)
(***************************************************************************)
EXTENDS FileCommands, RamfsProofs, SequenceTheorems

-----------------------------------------------------------------------------
(* The commands make calls of Ramfs.                                        *)

Stages == {"none", "malloc", "read", "catclose", "write", "close"}

\* The command under way.
JobType ==
    /\ job = [stage |-> job.stage, fd |-> job.fd, pieces |-> job.pieces]
    /\ job.stage \in Stages /\ job.fd \in Int
    /\ job.pieces \in Seq(Seq(Nat))
    /\ job.stage = "write" => job.pieces # << >>
    /\ job.stage = "none" => job = Idle

\* A step is a call with one of the effects on the tables, or none at all.
FsStep == Effect(Nat, Seq(Nat)) \/ UNCHANGED vars

LEMMA PiecesAre ==
    ASSUME NEW t \in Texts
    PROVE  Pieces(t) \in Seq(Seq(Nat)) /\ Pieces(t) # << >>
  <1> DEFINE n == 2 * Len(t) - 1
             v(k) == IF k % 2 = 1 THEN t[(k + 1) \div 2] ELSE <<Blank>>
  <1>1. t \in Seq(Seq(Nat)) /\ Len(t) \in Nat /\ Len(t) > 0 /\ Blank \in Nat BY TextAssumption
  <1>2. n \in Nat /\ n > 0 BY <1>1
  <1>3. ASSUME NEW k \in 1 .. n PROVE v(k) \in Seq(Nat)
    <2>1. CASE k % 2 = 1
      <3>1. (k + 1) \div 2 \in 1 .. Len(t) BY <1>1
      <3> QED BY <1>1, <2>1, <3>1
    <2>2. CASE k % 2 # 1
      <3>1. <<Blank>> \in Seq(Nat) BY <1>1
      <3> QED BY <2>2, <3>1
    <2> QED BY <2>1, <2>2
  <1>4. Pieces(t) = [k \in 1 .. n |-> v(k)] BY DEF Pieces
  <1> HIDE DEF n, v
  <1>5. Pieces(t) \in Seq(Seq(Nat)) /\ Len(Pieces(t)) = n BY <1>2, <1>3, <1>4
  <1> QED BY <1>2, <1>5

LEMMA NoPieces == Pieces(<< >>) = << >>
  <1>1. Pieces(<< >>) = [k \in 1 .. -1 |-> IF k % 2 = 1 THEN << >>[(k + 1) \div 2] ELSE <<Blank>>]
    BY DEF Pieces
  <1> DEFINE v(k) == IF k % 2 = 1 THEN << >>[(k + 1) \div 2] ELSE <<Blank>>
  <1>2. Pieces(<< >>) = [k \in 1 .. -1 |-> v(k)] BY <1>1
  <1> HIDE DEF v
  <1> QED BY <1>2

LEMMA NewlibEffect ==
    ASSUME RamType, BlocksApart, NextNewlib
    PROVE  Next \/ UNCHANGED vars
  BY DEF NextNewlib, Next, open, stat, unlink, mkdir, rmdir, link, close, read, write, lseek,
         fstat, isatty

LEMMA NextEffectNat ==
    ASSUME RamType, BlocksApart, Next
    PROVE  Effect(Nat, Seq(Nat))
  <1>1. Effect(ReadCounts, Bufs) BY NextEffect
  <1> QED BY <1>1, ArgumentsAre DEF Effect


-----------------------------------------------------------------------------
(* Invariants.                                                              *)

\* A closed descriptor is a record of zeroes, as long as the root stays.
FreeClean == \A f \in Fds : ramfs_file_descriptors[f].ino = 0 => ramfs_file_descriptors[f] = FreeFd

JobFile == job.fd - FileBase

\* While a command runs, its descriptor is open, and the table without it is the
\* one the command found.
JobFd ==
    job # Idle =>
       /\ JobFile \in Fds /\ ramfs_file_descriptors[JobFile].ino # 0
       /\ before.fds = [ramfs_file_descriptors EXCEPT ![JobFile] = FreeFd]

\* cat has shown the file up to the offset of its descriptor.
CatInv ==
    job.stage \in {"malloc", "read", "catclose"} =>
       LET s == InodeOfFd(JobFile)
           o == ramfs_file_descriptors[JobFile].offset
       IN  /\ s # None /\ ramfs_file_descriptors[JobFile].acc = RDWR
           /\ before.content = Bytes(s)
           /\ o <= ramfs_inodes[s].size /\ shown = SubSeq(Bytes(s), 1, o)
           /\ job.stage = "catclose" => o = ramfs_inodes[s].size


-----------------------------------------------------------------------------
(* The calls of the commands.                                               *)

LEMMA JobTypeKept ==
    ASSUME JobType, UNCHANGED job
    PROVE  JobType'
  BY DEF JobType

LEMMA IdleType == job = Idle => JobType
  BY DEF JobType, Idle, Stages

LEMMA OpenOldAnswer ==
    ASSUME NEW p, NEW creat, OpenOld(p, creat)
    PROVE  ret' \in Int
  <1>1. ASSUME NEW i, OpenFd(i, RDWR, FALSE, Failed) PROVE ret' \in Int
    <2>1. CASE FindFreeFd = None BY <1>1, <2>1 DEF OpenFd, Failed
    <2>2. CASE FindFreeFd # None
      <3>1. FindFreeFd \in Nat BY <2>2, FindFreeFdIs, TablesAreNat
      <3> QED BY <1>1, <2>2, <3>1, TableAssumption DEF OpenFd, sys_wrap_fd
    <2> QED BY <2>1, <2>2
  <1>2. CASE Fail(Failed) BY <1>2 DEF Fail, Failed
  <1> QED BY <1>1, <1>2 DEF OpenOld

LEMMA BeginStep ==
    ASSUME RamType, NEW p \in Paths, NEW creat \in BOOLEAN, NEW stage \in Stages \ {"none"},
           NEW words, Pieces(words) \in Seq(Seq(Nat)),
           stage = "write" => Pieces(words) # << >>,
           Begin(p, creat, stage, words)
    PROVE  Effect(Nat, Seq(Nat)) /\ JobType'
  <1>1. OpenOld(p, creat) BY DEF Begin
  <1>2. Effect(Nat, Seq(Nat)) BY <1>1, OpenOldEffect
  <1>3. ret' \in Int BY <1>1, OpenOldAnswer
  <1>4. CASE ret' < 0
    <2>1. job' = Idle BY <1>4 DEF Begin
    <2> QED BY <1>2, <2>1 DEF JobType, Idle, Stages
  <1>5. CASE ~(ret' < 0)
    <2> DEFINE ps == Pieces(words)
    <2>1. job' = [stage |-> stage, fd |-> ret', pieces |-> ps] BY <1>5 DEF Begin
    <2> HIDE DEF ps
    <2>2. job'.stage = stage /\ job'.fd = ret' /\ job'.pieces = ps BY <2>1
    <2> QED BY <1>2, <1>3, <2>1, <2>2 DEF JobType, Stages, ps
  <1> QED BY <1>4, <1>5

LEMMA CatReadStep ==
    ASSUME RamType, JobType, CatRead
    PROVE  Effect(Nat, Seq(Nat)) /\ JobType'
  <1>1. job.fd \in Int /\ job.fd - FileBase \in Int /\ CatSize \in Nat
    BY TableAssumption, TextAssumption DEF JobType
  <1>2. Answer(-EBADF, << >>) \/ Read(job.fd - FileBase, CatSize)
    BY DEF CatRead, sys_read
  <1>3. Effect(Nat, Seq(Nat)) BY <1>1, <1>2, AnswerEffect, ReadEffect
  <1> DEFINE st == IF ret' > 0 THEN "read" ELSE "catclose"
  <1>4. job' = [job EXCEPT !.stage = st] BY DEF CatRead
  <1>5. st \in Stages /\ st \notin {"write", "none"} BY DEF Stages
  <1> HIDE DEF st
  <1>6. JobType' BY <1>4, <1>5 DEF JobType
  <1> QED BY <1>3, <1>6

LEMMA WritePieceStep ==
    ASSUME RamType, JobType, WritePiece
    PROVE  Effect(Nat, Seq(Nat)) /\ JobType'
  <1> DEFINE ps == job.pieces
             st == IF Len(ps) = 1 THEN "close" ELSE "write"
  <1>1. job.fd \in Int /\ job.fd - FileBase \in Int BY TableAssumption DEF JobType
  <1>2. ps \in Seq(Seq(Nat)) /\ ps # << >> BY DEF JobType, WritePiece
  <1>3. sys_write(job.fd, Head(ps)) /\ job' = [job EXCEPT !.pieces = Tail(ps), !.stage = st]
    BY DEF WritePiece
  <1>4. st \in {"close", "write"} OBVIOUS
  <1>5. st = "write" => Len(ps) # 1 OBVIOUS
  <1>6. job = [stage |-> job.stage, fd |-> job.fd, pieces |-> job.pieces] BY DEF JobType
  <1> HIDE DEF ps, st
  <1>7. Head(ps) \in Seq(Nat) BY <1>2
  <1>8. Answer(-EBADF, << >>) \/ Write(job.fd - FileBase, Head(ps)) BY <1>3 DEF sys_write
  <1>9. Effect(Nat, Seq(Nat)) BY <1>1, <1>7, <1>8, AnswerEffect, WriteEffect
  <1>10. Tail(ps) \in Seq(Seq(Nat)) /\ (Len(ps) # 1 => Tail(ps) # << >>)
    <2> DEFINE S == Seq(Nat)
    <2>1. ps \in Seq(S) /\ ps # << >> BY <1>2
    <2> HIDE DEF S
    <2>2. Tail(ps) \in Seq(S) /\ Len(Tail(ps)) = Len(ps) - 1 /\ Len(ps) \in Nat BY <2>1
    <2>3. Len(ps) # 1 => Len(Tail(ps)) # 0 BY <2>2
    <2>4. Len(<< >>) = 0 OBVIOUS
    <2>5. Len(ps) # 1 => Tail(ps) # << >> BY <2>3, <2>4
    <2> QED BY <2>2, <2>5, Zenon DEF S
  <1>11. job' = [stage |-> st, fd |-> job.fd, pieces |-> Tail(ps)] BY <1>3, <1>6
  <1>12. job'.stage = st /\ job'.fd = job.fd /\ job'.pieces = Tail(ps) BY <1>11
  <1>13. JobType' BY <1>1, <1>4, <1>5, <1>10, <1>11, <1>12 DEF JobType, Stages
  <1> QED BY <1>9, <1>13

LEMMA CommandCloseStep ==
    ASSUME JobType, CommandClose
    PROVE  Effect(Nat, Seq(Nat)) /\ JobType'
  <1>1. Effect(Nat, Seq(Nat)) BY AnswerEffect, CloseEffect DEF CommandClose, sys_close
  <1>2. job' = Idle BY DEF CommandClose
  <1> QED BY <1>1, <1>2 DEF JobType, Idle, Stages

\* Every step of programs and commands is a call, or changes no table.
LEMMA CommandsEffect ==
    ASSUME RamType, BlocksApart, JobType, [NextCommands]_allVars
    PROVE  FsStep /\ JobType'
  <1>1. ASSUME NEW p \in Paths, cmd_cat(p) \/ cmd_touch(p) PROVE FsStep /\ JobType'
    <2>1. << >> \in Seq(Seq(Nat))
      <3> DEFINE S == Seq(Nat)
      <3> HIDE DEF S
      <3>1. << >> \in Seq(S) OBVIOUS
      <3> QED BY <3>1 DEF S
    <2>2. Pieces(<< >>) \in Seq(Seq(Nat)) BY <2>1, NoPieces
    <2> QED BY <1>1, <2>2, BeginStep DEF cmd_cat, cmd_touch, Stages, FsStep
  <1>2. ASSUME NEW p \in Paths, NEW t \in Texts, cmd_write(p, t) PROVE FsStep /\ JobType'
    BY <1>2, PiecesAre, BeginStep DEF cmd_write, Stages, FsStep
  <1>3. CASE CatNoMemory
    BY <1>3 DEF CatNoMemory, FsStep, JobType, Stages
  <1>4. CASE CatRead BY <1>4, CatReadStep DEF FsStep
  <1>5. CASE WritePiece BY <1>5, WritePieceStep DEF FsStep
  <1>6. CASE CommandClose BY <1>6, CommandCloseStep DEF FsStep
  <1>7. CASE OtherCall
    <2>1. UNCHANGED job BY <1>7 DEF OtherCall, commandVars
    <2>2. CASE NextNewlib BY <2>1, <2>2, NewlibEffect, NextEffectNat, JobTypeKept DEF FsStep
    <2>3. ASSUME NEW p \in Paths, NEW creat \in BOOLEAN, OpenOld(p, creat)
          PROVE  FsStep /\ JobType'
      BY <2>1, <2>3, OpenOldEffect, JobTypeKept DEF FsStep
    <2> QED BY <1>7, <2>2, <2>3 DEF OtherCall
  <1>8. CASE UNCHANGED allVars BY <1>8, JobTypeKept DEF allVars, commandVars, FsStep
  <1> QED BY <1>1, <1>2, <1>3, <1>4, <1>5, <1>6, <1>7, <1>8 DEF NextCommands

\* The invariant of the tables, under programs and commands.
TableInv == RamInv /\ FdFiles /\ JobType

LEMMA TableStep == TableInv /\ [NextCommands]_allVars => TableInv' /\ FsStep
  <1> SUFFICES ASSUME TableInv, [NextCommands]_allVars PROVE TableInv' /\ FsStep OBVIOUS
  <1>1. FsStep /\ JobType' BY CommandsEffect DEF TableInv, RamInv
  <1>2. CASE Effect(Nat, Seq(Nat)) BY <1>1, <1>2, EffectPreserves, FdFilesStep DEF TableInv
  <1>3. CASE UNCHANGED vars
    <2>1. RamInv' BY <1>3, QuietPreserves DEF vars, Quiet, TableInv
    <2>2. FdFiles' BY <1>3 DEF vars, fsVars, FdFiles, TableInv
    <2> QED BY <1>1, <2>1, <2>2 DEF TableInv
  <1> QED BY <1>1, <1>2, <1>3 DEF FsStep

LEMMA TableAlways == SpecCommands => [](TableInv)
  <1>1. InitCommands => TableInv
    BY RamInit, InitRefines, IdleType DEF InitCommands, TableInv
  <1> QED BY <1>1, TableStep, PTL DEF SpecCommands

\* What is proved of any sequence of calls holds for the programs and commands that
\* the runs explore: newlib calls, direct calls and the shell's commands.
THEOREM TablesHold ==
    SpecCommands => [](BlocksApart /\ NamesUnique) /\ FdKeepsFile /\ FailedCallHarmless
  <1>1. TableInv => BlocksApart /\ NamesUnique BY DEF TableInv, RamInv
  <1>2. TableInv /\ FsStep => [KeepsFile]_vars
    BY EffectKeepsFile DEF TableInv, FsStep
  <1>3. TableInv /\ FsStep => [Harmless]_vars
    BY EffectHarmless DEF TableInv, FsStep
  <1> QED
    BY <1>1, <1>2, <1>3, TableStep, TableAlways, PTL
       DEF SpecCommands, FdKeepsFile, KeepsFile, FailedCallHarmless, Harmless


-----------------------------------------------------------------------------
(* errno.                                                                   *)

\* A failing function got an error number from its call.
LEMMA ResultTells ==
    ASSUME sys_result, result' = -1
    PROVE  ret' \in Int /\ ret' < 0 /\ errno' = -ret'
  <1>1. CASE ret' \in -4095 .. -1
    <2>1. errno' = -ret' BY <1>1 DEF sys_result
    <2>2. ret' \in Int /\ ret' < 0 BY <1>1
    <2> QED BY <2>1, <2>2
  <1>2. CASE ret' \notin -4095 .. -1
    <2>1. result' = ret' BY <1>2 DEF sys_result
    <2>2. -1 \in -4095 .. -1 OBVIOUS
    <2> QED BY <1>2, <2>1, <2>2
  <1> QED BY <1>1, <1>2

LEMMA ErrnosAreNat ==
    {ENOENT, EEXIST, EISDIR, EMFILE, EBADF, ESPIPE, EINVAL, ENOSPC} \subseteq Nat
  BY DEF ENOENT, EEXIST, EISDIR, EMFILE, EBADF, ESPIPE, EINVAL, ENOSPC

LEMMA ErrnoIs ==
    ASSUME NEW e \in Nat, errno' = -ret', ret' = -e
    PROVE  errno' = e
  OBVIOUS

\* errno is the number of the error that the call failed with.
LEMMA FailTells ==
    ASSUME NEW e \in Nat, errno' = -ret', Fail(-e)
    PROVE  errno' = e
  <1>1. ret' = -e BY DEF Fail
  <1> QED BY <1>1, ErrnoIs

LEMMA FailKeeps ==
    ASSUME NEW e, Fail(e)
    PROVE  Quiet
  BY DEF Fail, Quiet

LEMMA OpenTells ==
    ASSUME RamType, NEW a, a.fl \in OpenFlags, OpenNew(a.path, a.fl), sys_result, result' = -1
    PROVE  /\ OpenWhy(a, errno')
           /\ \/ Quiet
              \/ /\ errno' = ENOENT /\ FindFreeFd = None
                 /\ UNCHANGED <<ramfs_pool, ramfs_pool_used, ramfs_file_descriptors>>
  <1> PICK p, fl : p = a.path /\ fl = a.fl OBVIOUS
  <1> PICK s : s = FindInode(p) OBVIOUS
  <1>0. ret' \in Int /\ ret' < 0 /\ errno' = -ret' BY ResultTells
  <1>a. ASSUME NEW i, NEW e, OpenFd(i, fl.acc, fl.append, e)
        PROVE  FindFreeFd = None /\ ret' = e /\ UNCHANGED ramfs_file_descriptors
    <2>1. CASE FindFreeFd = None BY <1>a, <2>1 DEF OpenFd
    <2>2. CASE FindFreeFd # None
      <3>1. FindFreeFd \in Nat BY <2>2, FindFreeFdIs, TablesAreNat
      <3>2. ret' = FindFreeFd + FileBase BY <1>a, <2>2 DEF OpenFd, sys_wrap_fd
      <3>3. ret' \in Nat BY <3>1, <3>2, TableAssumption
      <3> QED BY <1>0, <3>3
    <2> QED BY <2>1, <2>2
  <1>b. OpenWhy(a, errno') <=>
           \/ errno' = ENOENT /\ s = None /\ (fl.creat /\ CanCreate(p) => FindFreeFd = None)
           \/ errno' = EEXIST /\ s # None /\ fl.creat /\ fl.excl
           \/ errno' = EISDIR /\ s # None /\ ramfs_inodes[s].type = "dir"
           \/ errno' = EMFILE /\ s # None /\ ramfs_inodes[s].type = "file" /\ FindFreeFd = None
    BY Zenon DEF OpenWhy
  <1>1. CASE s # None /\ fl.creat /\ fl.excl /\ Fail(-EEXIST)
    <2>1. errno' = EEXIST BY <1>0, <1>1, ErrnosAreNat, FailTells
    <2>2. Quiet BY <1>1, FailKeeps
    <2> QED BY <1>1, <1>b, <2>1, <2>2, Zenon
  <1>2. CASE /\ s = None /\ OpenFd(ramfs_next_inode, fl.acc, fl.append, -ENOENT)
             /\ UNCHANGED <<ramfs_pool, ramfs_pool_used>>
    <2>1. ret' = -ENOENT /\ FindFreeFd = None /\ UNCHANGED ramfs_file_descriptors BY <1>a, <1>2
    <2>2. errno' = ENOENT BY <1>0, <2>1, ErrnosAreNat, ErrnoIs
    <2> QED BY <1>2, <1>b, <2>1, <2>2
  <1>3. CASE s = None /\ ~(fl.creat /\ CanCreate(p)) /\ Fail(-ENOENT)
    <2>1. errno' = ENOENT BY <1>0, <1>3, ErrnosAreNat, FailTells
    <2>2. Quiet BY <1>3, FailKeeps
    <2> QED BY <1>3, <1>b, <2>1, <2>2, Zenon
  <1>4. CASE s # None /\ ramfs_inodes[s].type = "dir" /\ Fail(-EISDIR)
    <2>1. errno' = EISDIR BY <1>0, <1>4, ErrnosAreNat, FailTells
    <2>2. Quiet BY <1>4, FailKeeps
    <2> QED BY <1>4, <1>b, <2>1, <2>2, Zenon
  <1>5. CASE /\ s # None /\ ramfs_inodes[s].type = "file"
             /\ OpenFd(ramfs_inodes[s].ino, fl.acc, fl.append, -EMFILE)
             /\ ramfs_inodes' =
                   IF FindFreeFd # None /\ fl.trunc /\ fl.acc # RDONLY
                   THEN [ramfs_inodes EXCEPT ![s].size = 0] ELSE ramfs_inodes
             /\ UNCHANGED <<ramfs_pool, ramfs_pool_used, ramfs_next_inode>>
    <2>1. ret' = -EMFILE /\ FindFreeFd = None /\ UNCHANGED ramfs_file_descriptors BY <1>a, <1>5
    <2>2. errno' = EMFILE BY <1>0, <2>1, ErrnosAreNat, ErrnoIs
    <2>3. Quiet BY <1>5, <2>1 DEF Quiet, fsVars
    <2> QED BY <1>5, <1>b, <2>1, <2>2, <2>3, Zenon
  <1>6. OpenNew(p, fl) OBVIOUS
  <1> QED BY <1>1, <1>2, <1>3, <1>4, <1>5, <1>6 DEF OpenNew

LEMMA StatTells ==
    ASSUME NEW p, Stat(p), sys_result, result' = -1
    PROVE  PathWhy("stat", p, errno') /\ Quiet
  <1>0. ret' \in Int /\ ret' < 0 /\ errno' = -ret' BY ResultTells
  <1>1. ret' = IF FindInode(p) = None THEN -ENOENT ELSE 0 BY DEF Stat, StatResult
  <1> HIDE DEF FindInode
  <1>2. FindInode(p) = None BY <1>0, <1>1
  <1>3. errno' = ENOENT BY <1>0, <1>1, <1>2, ErrnosAreNat, ErrnoIs
  <1>4. Quiet BY DEF Stat, StatResult, Quiet
  <1> QED BY <1>2, <1>3, <1>4 DEF PathWhy

\* The functions with one errno.
LEMMA FixedTells ==
    ASSUME NEW e, FixedErrno(e), result' = -1
    PROVE  ret' < 0 /\ errno' = e
  BY DEF FixedErrno

LEMMA UnlinkTells ==
    ASSUME RamType, NEW p, Unlink(p), FixedErrno(ENOENT), result' = -1
    PROVE  PathWhy("unlink", p, errno') /\ Quiet
  <1> PICK s : s = FindInode(p) OBVIOUS
  <1>1. ret' < 0 /\ errno' = ENOENT BY FixedTells
  <1>2. (s # None /\ ramfs_inodes[s].type = "file" /\ ret' = 0)
        \/ (~(s # None /\ ramfs_inodes[s].type = "file") /\ Fail(Failed))
    BY DEF Unlink
  <1>3. ~(s # None /\ ramfs_inodes[s].type = "file") /\ Fail(Failed) BY <1>1, <1>2
  <1>4. s = None \/ ramfs_inodes[s].type = "dir"
    <2>1. s # None => s \in Slots BY FindInodeIs
    <2>2. s \in Slots => InodeType(ramfs_inodes[s]) BY DEF RamType
    <2> QED BY <1>3, <2>1, <2>2 DEF InodeType
  <1>5. Quiet BY <1>3, FailKeeps
  <1> QED BY <1>1, <1>4, <1>5 DEF PathWhy

LEMMA RmdirTells ==
    ASSUME RamType, NEW p, Rmdir(p), FixedErrno(ENOENT), result' = -1
    PROVE  PathWhy("rmdir", p, errno') /\ Quiet
  <1> PICK s : s = FindInode(p) OBVIOUS
  <1>1. ret' < 0 /\ errno' = ENOENT BY FixedTells
  <1>2. (s # None /\ ramfs_inodes[s].type = "dir" /\ ret' = 0)
        \/ (~(s # None /\ ramfs_inodes[s].type = "dir") /\ Fail(Failed))
    BY DEF Rmdir
  <1>3. ~(s # None /\ ramfs_inodes[s].type = "dir") /\ Fail(Failed) BY <1>1, <1>2
  <1>4. s = None \/ ramfs_inodes[s].type = "file"
    <2>1. s # None => s \in Slots BY FindInodeIs
    <2>2. s \in Slots => InodeType(ramfs_inodes[s]) BY DEF RamType
    <2> QED BY <1>3, <2>1, <2>2 DEF InodeType
  <1>5. Quiet BY <1>3, FailKeeps
  <1> QED BY <1>1, <1>4, <1>5 DEF PathWhy

LEMMA MkdirTells ==
    ASSUME NEW p, Mkdir(p), FixedErrno(EEXIST), result' = -1
    PROVE  PathWhy("mkdir", p, errno') /\ Quiet
  <1>1. ret' < 0 /\ errno' = EEXIST BY FixedTells
  <1> DEFINE can == FindInode(p) = None /\ CanCreate(p)
  <1>2. (can /\ ret' = 0) \/ (~can /\ Fail(Failed)) BY DEF Mkdir
  <1> HIDE DEF can
  <1>3. ~can /\ Fail(Failed) BY <1>1, <1>2
  <1>4. Quiet BY <1>3, FailKeeps
  <1> QED BY <1>1, <1>3, <1>4 DEF PathWhy, can

\* A descriptor is alive exactly when the search for its inode succeeds.
LEMMA AliveIs ==
    ASSUME NEW fd \in Int, fd - FileBase \in Fds,
           ramfs_file_descriptors[fd - FileBase].ino # 0
    PROVE  Alive(fd) <=> InodeOfFd(fd - FileBase) # None
  <1> DEFINE f == fd - FileBase
             i == ramfs_file_descriptors[f].ino
             S == {s \in Slots : ramfs_inodes[s].ino = i}
  <1>1. InodeOfFd(f) = First(S) BY DEF InodeOfFd
  <1>2. Alive(fd) <=> \E s \in Used : ramfs_inodes[s].ino = i BY DEF Alive
  <1>3. (\E s \in Used : ramfs_inodes[s].ino = i) <=> S # {} BY DEF Used
  <1>4. S \in SUBSET Nat BY TablesAreNat
  <1> HIDE DEF S
  <1>5. S # {} <=> First(S) # None BY <1>4, FirstMatch
  <1> QED BY <1>1, <1>2, <1>3, <1>5

LEMMA CloseTells ==
    ASSUME NEW fd \in Int, sys_close(fd), sys_result, result' = -1
    PROVE  FdWhy("close", fd, errno') /\ Quiet
  <1>0. ret' \in Int /\ ret' < 0 /\ errno' = -ret' BY ResultTells
  <1>1. CASE IsConsole(fd) BY <1>0, <1>1 DEF sys_close, Answer
  <1>2. CASE ~IsConsole(fd)
    <2> DEFINE f == fd - FileBase
               isOpen == f \in Fds /\ ramfs_file_descriptors[f].ino # 0
    <2>1. isOpen => ret' = 0 BY <1>2 DEF sys_close, Close
    <2>2. ~isOpen => Fail(-EBADF) BY <1>2 DEF sys_close, Close
    <2>3. ~isOpen BY <1>0, <2>1
    <2>4. errno' = EBADF BY <1>0, <2>2, <2>3, ErrnosAreNat, FailTells
    <2>5. Quiet BY <2>2, <2>3, FailKeeps
    <2> QED BY <2>3, <2>4, <2>5 DEF FdWhy
  <1> QED BY <1>1, <1>2

LEMMA FstatTells ==
    ASSUME NEW fd \in Int, sys_fstat(fd), sys_result, result' = -1
    PROVE  FdWhy("fstat", fd, errno') /\ Quiet
  <1> DEFINE f == fd - FileBase
  <1>0. ret' \in Int /\ ret' < 0 /\ errno' = -ret' BY ResultTells
  <1>1. CASE IsConsole(fd) BY <1>0, <1>1 DEF sys_fstat, Answer
  <1>2. CASE ~IsConsole(fd)
    <2> DEFINE s == IF f \in Fds /\ ramfs_file_descriptors[f].ino # 0 THEN InodeOfFd(f) ELSE None
    <2>1. ret' = IF s = None THEN -EBADF ELSE 0 BY <1>2 DEF sys_fstat, Fstat, StatResult
    <2> HIDE DEF s
    <2>a. s = None BY <1>0, <2>1
    <2>2. s = None /\ errno' = EBADF BY <1>0, <2>1, <2>a, ErrnosAreNat, ErrnoIs
    <2>3. f \in Fds /\ ramfs_file_descriptors[f].ino # 0 => InodeOfFd(f) = None
      BY <2>2 DEF s
    <2>4. ~Alive(fd) BY <2>3, AliveIs DEF Alive
    <2>5. Quiet BY <1>2 DEF sys_fstat, Fstat, StatResult, Quiet
    <2> QED BY <2>2, <2>4, <2>5 DEF FdWhy
  <1> QED BY <1>1, <1>2

LEMMA IsattyTells ==
    ASSUME NEW fd \in Int, isatty(fd), result' = 0
    PROVE  FdWhy("isatty", fd, errno') /\ Quiet
  <1>1. CASE fd < 0 BY <1>1 DEF isatty, FdWhy, Quiet, vars
  <1>2. CASE ~(fd < 0)
    <2>1. ret' = 0 /\ errno' = ENOTTY BY <1>2 DEF isatty
    <2>2. sys_isatty(fd) BY <1>2 DEF isatty
    <2>3. ~IsConsole(fd) BY <2>1, <2>2 DEF sys_isatty, Answer
    <2>4. fd >= FileBase BY <1>2, <2>3, TableAssumption DEF IsConsole
    <2>5. Quiet BY <2>2 DEF sys_isatty, Answer, Quiet
    <2> QED BY <2>1, <2>4, <2>5 DEF FdWhy
  <1> QED BY <1>1, <1>2

LEMMA LseekTells ==
    ASSUME NEW a, a.fd \in Int, sys_lseek(a.fd, a.offset, a.whence), sys_result, result' = -1
    PROVE  LseekWhy(a, errno') /\ Quiet
  <1> PICK fd, o, w : fd = a.fd /\ o = a.offset /\ w = a.whence OBVIOUS
  <1> PICK f : f = fd - FileBase OBVIOUS
  <1> DEFINE ok == f \in Fds /\ ramfs_file_descriptors[f].ino # 0 /\ InodeOfFd(f) # None
             base == CASE w = "set" -> 0
                       [] w = "cur" -> ramfs_file_descriptors[f].offset
                       [] w = "end" -> ramfs_inodes[InodeOfFd(f)].size
             bad == w = "other" \/ base + o \notin 0 .. MaxFileSize
  <1>0. ret' \in Int /\ ret' < 0 /\ errno' = -ret' BY ResultTells
  <1>s. sys_lseek(fd, o, w) /\ fd \in Int OBVIOUS
  <1>1. CASE IsConsole(fd)
    <2>1. ret' = -ESPIPE /\ Quiet BY <1>s, <1>1 DEF sys_lseek, Answer, Quiet
    <2>2. errno' = ESPIPE BY <1>0, <2>1, ErrnosAreNat, ErrnoIs
    <2> QED BY <1>1, <2>1, <2>2 DEF LseekWhy
  <1>2. CASE ~IsConsole(fd)
    <2>1. Lseek(f, o, w) BY <1>s, <1>2 DEF sys_lseek
    <2>2. \/ ~ok /\ Fail(-EBADF)
          \/ ok /\ bad /\ Fail(-EINVAL)
          \/ ok /\ ~bad /\ ret' = base + o
      BY ONLY <2>1, Zenon DEF Lseek
    <2>3. CASE ~ok /\ Fail(-EBADF)
      <3>1. ~Alive(fd) BY <1>s, <2>3, AliveIs DEF Alive
      <3>2. errno' = EBADF BY <1>0, <2>3, ErrnosAreNat, FailTells
      <3>3. Quiet BY <2>3, FailKeeps
      <3> QED BY <3>1, <3>2, <3>3 DEF LseekWhy
    <2>4. CASE ok /\ bad /\ Fail(-EINVAL)
      <3>1. Alive(fd) BY <1>s, <2>4, AliveIs
      <3>2. errno' = EINVAL BY <1>0, <2>4, ErrnosAreNat, FailTells
      <3>3. Quiet BY <2>4, FailKeeps
      <3>4. a.whence = "other" \/ SeekTarget(f, a) \notin 0 .. MaxFileSize
        <4>1. SeekTarget(f, a) = base + o BY Zenon DEF SeekTarget
        <4> QED BY <2>4, <4>1
      <3> QED BY <3>1, <3>2, <3>3, <3>4 DEF LseekWhy
    <2>5. CASE ok /\ ~bad /\ ret' = base + o
      <3>1. ret' \in 0 .. MaxFileSize BY <2>5
      <3> QED BY <1>0, <3>1, PoolAssumption
    <2> HIDE DEF ok, bad
    <2> QED BY <2>2, <2>3, <2>4, <2>5
  <1> QED BY <1>1, <1>2

LEMMA ReadTells ==
    ASSUME RamInv, FdFiles, NEW fd \in Int, NEW count \in Nat, sys_read(fd, count),
           sys_result, result' = -1
    PROVE  FdWhy("read", fd, errno') /\ Quiet
  <1> DEFINE f == fd - FileBase
  <1>0. ret' \in Int /\ ret' < 0 /\ errno' = -ret' BY ResultTells
  <1>1. CASE fd < FileBase
    <2>1. f \notin Fds BY <1>1, TableAssumption DEF Fds
    <2>2. ret' = -EBADF /\ Quiet BY <1>1 DEF sys_read, Answer, Quiet
    <2>3. errno' = EBADF BY <1>0, <2>2, ErrnosAreNat, ErrnoIs
    <2> QED BY <2>1, <2>2, <2>3 DEF Alive, FdWhy
  <1>2. CASE ~(fd < FileBase) /\ Usable(f) /\ ramfs_file_descriptors[f].acc # WRONLY
    <2>1. ret' = ReadCount(f, count) BY <1>2 DEF sys_read, Read, ReadCount
    <2>2. f \in Fds /\ InodeOfFd(f) # None BY <1>2 DEF Usable
    <2>3. ReadCount(f, count) \in Nat BY <2>2, ReadCountIs DEF RamInv
    <2> QED BY <1>0, <2>1, <2>3
  <1>3. CASE ~(fd < FileBase) /\ ~(Usable(f) /\ ramfs_file_descriptors[f].acc # WRONLY)
    <2>1. Fail(-EBADF) BY <1>3 DEF sys_read, Read
    <2>2. Alive(fd) => Usable(f)
      <3> SUFFICES ASSUME Alive(fd) PROVE Usable(f) OBVIOUS
      <3>1. f \in Fds /\ ramfs_file_descriptors[f].ino # 0 BY DEF Alive
      <3>2. InodeOfFd(f) # None BY <3>1, AliveIs
      <3>3. ramfs_inodes[InodeOfFd(f)].type = "file" BY <3>1, <3>2, InodeOfFdIs DEF FdFiles
      <3> QED BY <3>1, <3>2, <3>3 DEF Usable
    <2>3. errno' = EBADF BY <1>0, <2>1, ErrnosAreNat, FailTells
    <2>4. Quiet BY <2>1, FailKeeps
    <2> QED BY <1>3, <2>2, <2>3, <2>4 DEF FdWhy, Acc
  <1> QED BY <1>1, <1>2, <1>3

LEMMA WriteNats ==
    ASSUME RamType, NEW f \in Fds, InodeOfFd(f) # None
    PROVE  WritePos(f) \in Nat /\ ramfs_inodes[InodeOfFd(f)].capacity \in Nat
  <1> PICK s : s = InodeOfFd(f) OBVIOUS
  <1>1. InodeType(ramfs_inodes[s]) BY InodeOfFdIs DEF RamType
  <1>2. ramfs_inodes[s].size \in Nat /\ ramfs_inodes[s].capacity \in Nat BY <1>1 DEF InodeType
  <1>3. ramfs_file_descriptors[f].offset \in Nat BY DEF RamType, FdType
  <1> QED BY <1>2, <1>3 DEF WritePos

LEMMA WriteTells ==
    ASSUME RamInv, FdFiles, NEW fd \in Int, NEW buf \in Seq(Nat), sys_write(fd, buf),
           sys_result, result' = -1
    PROVE  /\ FdWhy("write", fd, errno')
           /\ Quiet \/ (errno' = ENOSPC /\ UNCHANGED <<fsVars, ramfs_next_inode>>)
  <1> DEFINE f == fd - FileBase
  <1>0. ret' \in Int /\ ret' < 0 /\ errno' = -ret' BY ResultTells
  <1>1. CASE fd < FileBase
    <2>1. f \notin Fds BY <1>1, TableAssumption DEF Fds
    <2>2. ret' = -EBADF /\ Quiet BY <1>1 DEF sys_write, Answer, Quiet
    <2>3. errno' = EBADF BY <1>0, <2>2, ErrnosAreNat, ErrnoIs
    <2> QED BY <2>1, <2>2, <2>3 DEF Alive, FdWhy
  <1>2. CASE ~(fd < FileBase) /\ Usable(f) /\ ramfs_file_descriptors[f].acc # RDONLY
    <2>1. f \in Fds /\ ramfs_file_descriptors[f].ino # 0 /\ InodeOfFd(f) # None
      BY <1>2 DEF Usable
    <2>2. Alive(fd) BY <2>1, AliveIs
    <2> DEFINE s == InodeOfFd(f)
               off == WritePos(f)
    <2>3. WriteAt(f, s, off, buf) BY <1>2 DEF sys_write, Write, WritePos
    <2> HIDE DEF off, s
    <2> DEFINE stuck == Len(buf) = 0 \/ off >= MaxFileSize \/ Stored(s, off, buf) <= 0
    <2>a. stuck => ret' = IF Len(buf) = 0 THEN 0 ELSE -ENOSPC
      BY <2>3 DEF WriteAt, Want, Stored
    <2>b. ~stuck => ret' = Stored(s, off, buf) BY <2>3 DEF WriteAt, Want, Stored
    <2>4. stuck BY <1>0, <2>b
    <2>5. ret' = -ENOSPC BY <1>0, <2>a, <2>4
    <2>6. errno' = ENOSPC BY <1>0, <2>5, ErrnosAreNat, ErrnoIs
    <2>7. UNCHANGED <<fsVars, ramfs_next_inode>> BY <2>3, <2>4 DEF WriteAt, Want, Stored
    <2>8. off >= MaxFileSize \/ off >= ramfs_inodes[s].capacity
      <3> SUFFICES ASSUME ~(off >= MaxFileSize) PROVE off >= ramfs_inodes[s].capacity OBVIOUS
      <3>1. off \in Nat /\ ramfs_inodes[s].capacity \in Nat BY <2>1, WriteNats DEF s, off, RamInv
      <3>2. Len(buf) \in Nat /\ Len(buf) > 0 BY <1>0, <2>a, <2>4
      <3>3. Want(off, buf) > 0 BY <3>1, <3>2, PoolAssumption DEF Want, Clip
      <3>4. Stored(s, off, buf) <= 0 BY <2>4, <3>2
      <3>5. Stored(s, off, buf) = ramfs_inodes[s].capacity - off
        BY <3>1, <3>2, <3>3, <3>4, PoolAssumption DEF Stored, Want, Clip
      <3> QED BY <3>1, <3>4, <3>5
    <2>9. WriteTarget(f) = off /\ s = InodeOfFd(f) BY DEF WriteTarget, WritePos, off, s
    <2>10. Acc(fd) # RDONLY BY <1>2 DEF Acc
    <2> QED BY <2>2, <2>6, <2>7, <2>8, <2>9, <2>10 DEF FdWhy
  <1>3. CASE ~(fd < FileBase) /\ ~(Usable(f) /\ ramfs_file_descriptors[f].acc # RDONLY)
    <2>1. Fail(-EBADF) BY <1>3 DEF sys_write, Write
    <2>2. Alive(fd) => Usable(f)
      <3> SUFFICES ASSUME Alive(fd) PROVE Usable(f) OBVIOUS
      <3>1. f \in Fds /\ ramfs_file_descriptors[f].ino # 0 BY DEF Alive
      <3>2. InodeOfFd(f) # None BY <3>1, AliveIs
      <3>3. ramfs_inodes[InodeOfFd(f)].type = "file" BY <3>1, <3>2, InodeOfFdIs DEF FdFiles
      <3> QED BY <3>1, <3>2, <3>3 DEF Usable
    <2>3. errno' = EBADF BY <1>0, <2>1, ErrnosAreNat, FailTells
    <2>4. Quiet BY <2>1, FailKeeps
    <2> QED BY <1>3, <2>2, <2>3, <2>4 DEF FdWhy, Acc
  <1> QED BY <1>1, <1>2, <1>3


LEMMA SparesQuiet ==
    ASSUME NEW c, NEW e, Quiet
    PROVE  Spares(c, e)
  BY DEF Spares, Quiet

LEMMA NewlibTells ==
    ASSUME TableInv, NextNewlib
    PROVE  FailureTold
  <1>0. RamType /\ RamInv /\ FdFiles BY DEF TableInv, RamInv
  <1> SUFFICES ASSUME Failing PROVE Why(call', errno') /\ Spares(call', errno')
    BY DEF FailureTold
  <1>1. ASSUME NEW p \in Paths, NEW fl \in OpenFlags, open(p, fl)
        PROVE  Why(call', errno') /\ Spares(call', errno')
    <2> PICK a : a = [path |-> p, fl |-> fl] OBVIOUS
    <2>1. a.path = p /\ a.fl = fl OBVIOUS
    <2>2. OpenNew(a.path, a.fl) /\ sys_result BY <1>1, <2>1 DEF open
    <2>3. call'.op = "open" /\ call'.arg = a BY <1>1 DEF open, Called
    <2>4. result' = -1 BY <2>3 DEF Failing
    <2>5. /\ OpenWhy(a, errno')
          /\ \/ Quiet
             \/ /\ errno' = ENOENT /\ FindFreeFd = None
                /\ UNCHANGED <<ramfs_pool, ramfs_pool_used, ramfs_file_descriptors>>
      BY <1>0, <2>1, <2>2, <2>4, OpenTells
    <2>6. Why(call', errno') BY <2>3, <2>5 DEF Why
    <2>7. Spares(call', errno') BY <2>3, <2>5, SparesQuiet DEF Spares
    <2> QED BY <2>6, <2>7
  <1>2. ASSUME NEW p \in Paths, stat(p) \/ unlink(p) \/ rmdir(p) \/ mkdir(p)
        PROVE  Why(call', errno') /\ Spares(call', errno')
    <2>1. /\ call'.arg = p
          /\ \/ call'.op = "stat" /\ Stat(p) /\ sys_result
             \/ call'.op = "unlink" /\ Unlink(p) /\ FixedErrno(ENOENT)
             \/ call'.op = "rmdir" /\ Rmdir(p) /\ FixedErrno(ENOENT)
             \/ call'.op = "mkdir" /\ Mkdir(p) /\ FixedErrno(EEXIST)
      BY <1>2 DEF stat, unlink, rmdir, mkdir, Called
    <2>2. result' = -1 BY <2>1 DEF Failing
    <2>3. PathWhy(call'.op, p, errno') /\ Quiet
      BY <1>0, <2>1, <2>2, StatTells, UnlinkTells, RmdirTells, MkdirTells
    <2>4. Why(call', errno') BY <2>1, <2>3 DEF Why
    <2> QED BY <2>3, <2>4, SparesQuiet
  <1>3. ASSUME NEW fd \in FdArgs,
               \/ close(fd) \/ fstat(fd) \/ isatty(fd)
               \/ \E n \in ReadCounts : read(fd, n)
        PROVE  Why(call', errno') /\ Spares(call', errno')
    <2>0. fd \in Int /\ ReadCounts \subseteq Nat BY ArgumentAssumption, TableAssumption
    <2>1. /\ call'.arg = fd
          /\ \/ call'.op = "close" /\ sys_close(fd) /\ sys_result
             \/ call'.op = "fstat" /\ sys_fstat(fd) /\ sys_result
             \/ call'.op = "isatty" /\ isatty(fd)
             \/ call'.op = "read" /\ sys_result /\ \E n \in ReadCounts : sys_read(fd, n)
      BY <1>3 DEF close, fstat, isatty, read, Called
    <2>2. FdWhy(call'.op, fd, errno') /\ Quiet
      <3>1. CASE call'.op = "close" /\ sys_close(fd) /\ sys_result
        BY <2>0, <3>1, CloseTells DEF Failing
      <3>2. CASE call'.op = "fstat" /\ sys_fstat(fd) /\ sys_result
        BY <2>0, <3>2, FstatTells DEF Failing
      <3>3. CASE call'.op = "isatty" /\ isatty(fd)
        BY <2>0, <3>3, IsattyTells DEF Failing
      <3>4. CASE call'.op = "read" /\ sys_result /\ \E n \in ReadCounts : sys_read(fd, n)
        BY <1>0, <2>0, <3>4, ReadTells DEF Failing
      <3> QED BY <2>1, <3>1, <3>2, <3>3, <3>4
    <2>3. Why(call', errno') BY <2>1, <2>2 DEF Why
    <2> QED BY <2>2, <2>3, SparesQuiet
  <1>4. ASSUME NEW fd \in FdArgs, NEW b \in Bufs, write(fd, b)
        PROVE  Why(call', errno') /\ Spares(call', errno')
    <2>0. fd \in Int /\ b \in Seq(Nat) BY ArgumentAssumption, TableAssumption
    <2>1. sys_write(fd, b) /\ sys_result BY <1>4 DEF write
    <2>2. call'.op = "write" /\ call'.arg = fd BY <1>4 DEF write, Called
    <2>3. result' = -1 BY <2>2 DEF Failing
    <2>4. /\ FdWhy("write", fd, errno')
          /\ Quiet \/ (errno' = ENOSPC /\ UNCHANGED <<fsVars, ramfs_next_inode>>)
      BY <1>0, <2>0, <2>1, <2>3, WriteTells
    <2>5. Why(call', errno') BY <2>2, <2>4 DEF Why
    <2>6. Spares(call', errno') BY <2>2, <2>4, SparesQuiet DEF Spares
    <2> QED BY <2>5, <2>6
  <1>5. ASSUME NEW fd \in FdArgs, NEW o \in Seeks, NEW w \in Whences, lseek(fd, o, w)
        PROVE  Why(call', errno') /\ Spares(call', errno')
    <2> PICK a : a = [fd |-> fd, offset |-> o, whence |-> w] OBVIOUS
    <2>0. fd \in Int BY ArgumentAssumption, TableAssumption
    <2>1. a.fd = fd /\ a.offset = o /\ a.whence = w OBVIOUS
    <2>2. sys_lseek(a.fd, a.offset, a.whence) /\ sys_result BY <1>5, <2>1 DEF lseek
    <2>3. call'.op = "lseek" /\ call'.arg = a BY <1>5 DEF lseek, Called
    <2>4. result' = -1 BY <2>3 DEF Failing
    <2>5. LseekWhy(a, errno') /\ Quiet BY <2>0, <2>1, <2>2, <2>4, LseekTells
    <2>6. Why(call', errno') BY <2>3, <2>5 DEF Why
    <2> QED BY <2>5, <2>6, SparesQuiet
  <1>6. ASSUME link PROVE Why(call', errno') /\ Spares(call', errno')
    <2>1. call'.op = "link" /\ errno' = EMLINK /\ Quiet
      BY <1>6 DEF link, Called, Quiet, vars
    <2>2. Why(call', errno') BY <2>1 DEF Why
    <2> QED BY <2>1, <2>2, SparesQuiet
  <1> QED BY <1>1, <1>2, <1>3, <1>4, <1>5, <1>6 DEF NextNewlib

\* Whatever programs and commands did to the tables before: after a failing newlib
\* function errno is that of a reason it had to fail (for unlink, rmdir and mkdir,
\* of one of the several that they do not tell apart), and the tables are as they
\* were, but for the two exceptions of Spares.
THEOREM ErrnoHolds == SpecCommands => ErrnoTells
  <1>1. TableInv /\ [NextCommands]_allVars => [FailureTold]_<<vars, newlibVars>>
    <2> SUFFICES ASSUME TableInv, [NextCommands]_allVars PROVE [FailureTold]_<<vars, newlibVars>>
      OBVIOUS
    <2>1. CASE RawCall BY <2>1 DEF RawCall, FailureTold
    <2>2. CASE NextNewlib BY <2>2, NewlibTells
    <2>3. CASE UNCHANGED allVars BY <2>3 DEF allVars
    <2> QED BY <2>1, <2>2, <2>3 DEF NextCommands, OtherCall
  <1> QED BY <1>1, TableAlways, PTL DEF SpecCommands, ErrnoTells

-----------------------------------------------------------------------------
(* The descriptor of a command.                                             *)

\* A descriptor with the fields given is open for a number other than 0.
LEMMA OpenedClean ==
    ASSUME RamType, FreeClean, NEW i \in Nat \ {0}, Opened(i)
    PROVE  FreeClean'
  <1>1. PICK f \in Fds, acc \in 0 .. 3, append \in BOOLEAN :
          ramfs_file_descriptors' = [ramfs_file_descriptors EXCEPT
                ![f] = [ino |-> i, offset |-> 0, acc |-> acc, append |-> append]]
    BY DEF Opened
  <1> DEFINE d == [ino |-> i, offset |-> 0, acc |-> acc, append |-> append]
  <1>2. d.ino = i OBVIOUS
  <1>3. ramfs_file_descriptors' = [ramfs_file_descriptors EXCEPT ![f] = d] BY <1>1
  <1> HIDE DEF d
  <1>4. ramfs_file_descriptors \in [Fds -> FdType] BY DEF RamType
  <1> QED BY <1>2, <1>3, <1>4 DEF FreeClean

LEMMA MovedClean ==
    ASSUME RamType, FreeClean, NEW f \in Fds, NEW pos \in Nat,
           ramfs_file_descriptors[f].ino # 0,
           ramfs_file_descriptors' = [ramfs_file_descriptors EXCEPT ![f].offset = pos]
    PROVE  FreeClean'
  <1>1. ramfs_file_descriptors'[f].ino # 0 BY MovedIs
  <1>2. \A g \in Fds : g # f => ramfs_file_descriptors'[g] = ramfs_file_descriptors[g] BY MovedIs
  <1> QED BY <1>1, <1>2 DEF FreeClean

LEMMA FreeCleanStep ==
    ASSUME RamInv, RootStays, FreeClean, Effect(Nat, Seq(Nat))
    PROVE  FreeClean'
  <1>0. RamType BY DEF RamInv
  <1>1. CASE UNCHANGED ramfs_file_descriptors BY <1>1 DEF FreeClean
  <1>2. ASSUME NEW p, NEW type, Makes(p, type) PROVE FreeClean'
    <2>1. ramfs_next_inode \in Nat \ {0} BY <1>0 DEF RamType
    <2> QED BY <1>0, <1>1, <1>2, <2>1, OpenedClean DEF Makes
  <1>3. ASSUME NEW s \in Slots, Opens(s) PROVE FreeClean'
    <2>1. ramfs_inodes[s].ino \in Nat BY <1>0 DEF RamType, InodeType
    <2>2. ramfs_inodes[s].ino # 0 BY <1>3 DEF Opens, RootStays
    <2> QED BY <1>0, <1>3, <2>1, <2>2, OpenedClean DEF Opens
  <1>4. ASSUME NEW f \in Fds, Closes(f) PROVE FreeClean'
    <2>1. ramfs_file_descriptors \in [Fds -> FdType] BY <1>0 DEF RamType
    <2>2. ramfs_file_descriptors' = [ramfs_file_descriptors EXCEPT ![f] = FreeFd]
      BY <1>4 DEF Closes
    <2> QED BY <2>1, <2>2 DEF FreeClean
  <1>5. ASSUME NEW f \in Fds, NEW pos \in Nat, Moves(f, pos) PROVE FreeClean'
    BY <1>0, <1>5, MovedClean DEF Moves
  <1>6. ASSUME NEW f \in Fds, NEW s \in Slots, NEW off \in Nat, NEW buf \in Seq(Nat),
               Writes(f, s, off, buf)
        PROVE  FreeClean'
    <2> DEFINE pos == off + Stored(s, off, buf)
    <2>1. pos \in Nat BY <1>6, WritesIs
    <2>2. /\ ramfs_file_descriptors[f].ino # 0
          /\ ramfs_file_descriptors' = [ramfs_file_descriptors EXCEPT ![f].offset = pos]
      BY <1>6 DEF Writes
    <2> HIDE DEF pos
    <2> QED BY <1>0, <2>1, <2>2, MovedClean
  <1> QED BY <1>1, <1>2, <1>3, <1>4, <1>5, <1>6 DEF Effect, Quiet, Frees

\* Only the offset of descriptor f changes, if anything.
OffsetOnly(f) ==
    \/ UNCHANGED ramfs_file_descriptors
    \/ \E pos \in Nat : ramfs_file_descriptors' = [ramfs_file_descriptors EXCEPT ![f].offset = pos]

LEMMA OffsetOnlyIs ==
    ASSUME RamType, NEW f \in Fds, OffsetOnly(f)
    PROVE  /\ ramfs_file_descriptors'[f].ino = ramfs_file_descriptors[f].ino
           /\ [ramfs_file_descriptors' EXCEPT ![f] = FreeFd] =
                 [ramfs_file_descriptors EXCEPT ![f] = FreeFd]
  <1>1. ramfs_file_descriptors \in [Fds -> FdType] BY DEF RamType
  <1>2. CASE UNCHANGED ramfs_file_descriptors BY <1>2
  <1>3. ASSUME NEW pos \in Nat,
               ramfs_file_descriptors' = [ramfs_file_descriptors EXCEPT ![f].offset = pos]
        PROVE  /\ ramfs_file_descriptors'[f].ino = ramfs_file_descriptors[f].ino
               /\ [ramfs_file_descriptors' EXCEPT ![f] = FreeFd] =
                     [ramfs_file_descriptors EXCEPT ![f] = FreeFd]
    <2>1. /\ ramfs_file_descriptors' \in [Fds -> FdType]
          /\ ramfs_file_descriptors'[f].ino = ramfs_file_descriptors[f].ino
          /\ \A g \in Fds : g # f => ramfs_file_descriptors'[g] = ramfs_file_descriptors[g]
      BY <1>3, MovedIs
    <2> QED BY <1>1, <2>1
  <1> QED BY <1>2, <1>3 DEF OffsetOnly

LEMMA ReadOffset ==
    ASSUME RamType, NEW f \in Fds, NEW count \in Nat, Read(f, count)
    PROVE  OffsetOnly(f)
  <1>1. CASE Usable(f) /\ ramfs_file_descriptors[f].acc # WRONLY
    <2> DEFINE n == ReadCount(f, count)
    <2>1. n \in Nat /\ ramfs_file_descriptors[f].offset \in Nat
      BY <1>1, ReadCountIs DEF Usable
    <2>2. ramfs_file_descriptors' = [ramfs_file_descriptors EXCEPT ![f].offset = @ + n]
      BY <1>1 DEF Read, ReadCount
    <2> HIDE DEF n
    <2> DEFINE pos == ramfs_file_descriptors[f].offset + n
    <2>3. ramfs_file_descriptors' = [ramfs_file_descriptors EXCEPT ![f].offset = pos] BY <2>2
    <2>4. pos \in Nat BY <2>1
    <2> HIDE DEF pos
    <2> QED BY <2>3, <2>4 DEF OffsetOnly
  <1>2. CASE ~(Usable(f) /\ ramfs_file_descriptors[f].acc # WRONLY)
    BY <1>2 DEF Read, Fail, OffsetOnly
  <1> QED BY <1>1, <1>2

LEMMA WriteOffset ==
    ASSUME RamType, NEW f \in Fds, NEW buf \in Seq(Nat), Write(f, buf)
    PROVE  OffsetOnly(f)
  <1>1. CASE Usable(f) /\ ramfs_file_descriptors[f].acc # RDONLY
    <2> DEFINE s == InodeOfFd(f)
               off == WritePos(f)
               n == Stored(s, off, buf)
               stuck == Len(buf) = 0 \/ off >= MaxFileSize \/ n <= 0
    <2>1. s \in Slots BY <1>1, InodeOfFdIs DEF Usable
    <2>2. off \in Nat
      <3>1. ramfs_inodes[s].size \in Nat BY <2>1 DEF RamType, InodeType
      <3>2. ramfs_file_descriptors[f].offset \in Nat BY DEF RamType, FdType
      <3> QED BY <3>1, <3>2 DEF WritePos
    <2>3. WriteAt(f, s, off, buf) BY <1>1 DEF Write, WritePos
    <2>4. n \in Int
      <3>1. Len(buf) \in Nat /\ MaxFileSize \in Nat BY PoolAssumption
      <3>2. Want(off, buf) \in Int BY <3>1, <2>2 DEF Want, Clip
      <3>3. ramfs_inodes[s].capacity - off \in Int BY <2>1, <2>2 DEF RamType, InodeType
      <3> QED BY <3>2, <3>3 DEF Stored
    <2>5. CASE stuck
      <3>1. ramfs_file_descriptors' = [ramfs_file_descriptors EXCEPT ![f].offset = off]
        BY <2>3, <2>5 DEF WriteAt, Want, Stored
      <3> HIDE DEF off
      <3> QED BY <2>2, <3>1 DEF OffsetOnly
    <2>6. CASE ~stuck
      <3>1. ramfs_file_descriptors' = [ramfs_file_descriptors EXCEPT ![f].offset = off + n]
        BY <2>3, <2>6 DEF WriteAt, Want, Stored
      <3>2. n \in Nat
        <4> HIDE DEF n
        <4> QED BY <2>4, <2>6
      <3> DEFINE pos == off + n
      <3>3. pos \in Nat
        <4> HIDE DEF n, off
        <4> QED BY <2>2, <3>2
      <3>4. ramfs_file_descriptors' = [ramfs_file_descriptors EXCEPT ![f].offset = pos] BY <3>1
      <3> HIDE DEF pos
      <3> QED BY <3>3, <3>4 DEF OffsetOnly
    <2> QED BY <2>5, <2>6
  <1>2. CASE ~(Usable(f) /\ ramfs_file_descriptors[f].acc # RDONLY)
    BY <1>2 DEF Write, Fail, OffsetOnly
  <1> QED BY <1>1, <1>2

\* What a command that got a descriptor found: a closed one, which now means a file.
LEMMA BeginOpens ==
    ASSUME RamInv, RootStays, FreeClean, NEW p, NEW creat, OpenOld(p, creat), ~(ret' < 0)
    PROVE  LET f == FindFreeFd
           IN  /\ f \in Fds /\ ret' = f + FileBase /\ ramfs_file_descriptors[f] = FreeFd
               /\ \E i \in Nat \ {0} :
                     /\ ramfs_file_descriptors' = [ramfs_file_descriptors EXCEPT
                           ![f] = [ino |-> i, offset |-> 0, acc |-> RDWR, append |-> FALSE]]
                     /\ ~creat => /\ FindInode(p) \in Files /\ UNCHANGED fsVars
                                  /\ i = ramfs_inodes[FindInode(p)].ino
  <1> DEFINE f == FindFreeFd
             d(i) == [ino |-> i, offset |-> 0, acc |-> RDWR, append |-> FALSE]
             s == FindInode(p)
  <1>1. ASSUME NEW i, OpenFd(i, RDWR, FALSE, Failed)
        PROVE  /\ f \in Fds /\ ret' = f + FileBase /\ ramfs_file_descriptors[f] = FreeFd
               /\ ramfs_file_descriptors' = [ramfs_file_descriptors EXCEPT ![f] = d(i)]
    <2>1. f # None
      <3>1. f = None => ret' = Failed BY <1>1 DEF OpenFd
      <3>2. Failed < 0 BY DEF Failed
      <3> QED BY <3>1, <3>2
    <2>2. f \in Fds /\ ramfs_file_descriptors[f] = FreeFd BY <2>1, FindFreeFdIs DEF FreeClean
    <2> QED BY <1>1, <2>1, <2>2 DEF OpenFd, sys_wrap_fd
  <1>2. CASE Fail(Failed)
    <2>1. ret' = Failed BY <1>2 DEF Fail
    <2>2. Failed < 0 BY DEF Failed
    <2> QED BY <2>1, <2>2
  <1>3. CASE s = None /\ creat /\ OpenFd(ramfs_next_inode, RDWR, FALSE, Failed)
    <2>1. ramfs_next_inode \in Nat \ {0} BY DEF RamInv, RamType
    <2> QED BY <1>1, <1>3, <2>1
  <1>4. CASE /\ s # None /\ ramfs_inodes[s].type = "file" /\ UNCHANGED fsVars
             /\ OpenFd(ramfs_inodes[s].ino, RDWR, FALSE, Failed)
    <2>1. s \in Slots /\ ramfs_inodes[s].ino # 0 BY <1>4, FindInodeIs DEF RootStays
    <2>2. ramfs_inodes[s].ino \in Nat BY <2>1 DEF RamInv, RamType, InodeType
    <2>3. s \in Files BY <1>4, <2>1 DEF Files, Used
    <2> QED BY <1>1, <1>4, <2>1, <2>2, <2>3
  <1> QED BY <1>2, <1>3, <1>4 DEF OpenOld

\* The commands close what they open: the part of the invariant on descriptors.
LEMMA BeginJobFd ==
    ASSUME RamInv, RootStays, FreeClean, NEW p, NEW creat, NEW stage, NEW words,
           Begin(p, creat, stage, words)
    PROVE  JobFd'
  <1>1. CASE ret' < 0 BY <1>1 DEF Begin, JobFd
  <1>2. CASE ~(ret' < 0)
    <2> DEFINE f == FindFreeFd
               ps == Pieces(words)
               text == Line(words)
               content == ContentOf(FindInode(p))
    <2>1. OpenOld(p, creat) BY DEF Begin
    <2>2. f \in Fds /\ ret' = f + FileBase /\ ramfs_file_descriptors[f] = FreeFd
      BY <1>2, <2>1, BeginOpens
    <2>3. PICK i \in Nat \ {0} :
            ramfs_file_descriptors' = [ramfs_file_descriptors EXCEPT
               ![f] = [ino |-> i, offset |-> 0, acc |-> RDWR, append |-> FALSE]]
      BY <1>2, <2>1, BeginOpens
    <2> DEFINE d == [ino |-> i, offset |-> 0, acc |-> RDWR, append |-> FALSE]
    <2>4. d.ino # 0 OBVIOUS
    <2>5. ramfs_file_descriptors' = [ramfs_file_descriptors EXCEPT ![f] = d] BY <2>3
    <2>6. /\ job' = [stage |-> stage, fd |-> ret', pieces |-> ps]
          /\ before' = [fds |-> ramfs_file_descriptors, path |-> p, text |-> text,
                        content |-> content]
      BY <1>2 DEF Begin
    <2> HIDE DEF f, d, ps, text, content
    <2>7. job'.fd = ret' /\ before'.fds = ramfs_file_descriptors BY <2>6
    <2>8. ret' - FileBase = f BY <2>2, TablesAreNat, TableAssumption
    <2>9. ramfs_file_descriptors \in [Fds -> FdType] BY DEF RamInv, RamType
    <2>10. ramfs_file_descriptors'[f].ino # 0 BY <2>2, <2>4, <2>5, <2>9
    <2>11. [ramfs_file_descriptors' EXCEPT ![f] = FreeFd] = ramfs_file_descriptors
      BY <2>2, <2>5, <2>9
    <2>12. JobFile' = f BY <2>7, <2>8 DEF JobFile
    <2> HIDE DEF JobFile
    <2> QED BY <2>2, <2>7, <2>10, <2>11, <2>12 DEF JobFd
  <1> QED BY <1>1, <1>2

LEMMA OffsetJobFd ==
    ASSUME RamType, JobFd, job # Idle, job'.fd = job.fd, before' = before, OffsetOnly(JobFile)
    PROVE  JobFd'
  <1> DEFINE f == JobFile
  <1>1. /\ f \in Fds /\ ramfs_file_descriptors[f].ino # 0
        /\ before.fds = [ramfs_file_descriptors EXCEPT ![f] = FreeFd]
    BY DEF JobFd
  <1>2. JobFile' = f BY DEF JobFile
  <1> HIDE DEF f
  <1>3. /\ ramfs_file_descriptors'[f].ino = ramfs_file_descriptors[f].ino
        /\ [ramfs_file_descriptors' EXCEPT ![f] = FreeFd] =
              [ramfs_file_descriptors EXCEPT ![f] = FreeFd]
    BY <1>1, OffsetOnlyIs DEF f
  <1> QED BY <1>1, <1>2, <1>3 DEF JobFd

\* The descriptor of a command is one of the file system.
LEMMA JobFdNumber ==
    ASSUME JobType, JobFd, job # Idle
    PROVE  /\ JobFile \in Fds /\ JobFile \in Nat /\ ramfs_file_descriptors[JobFile].ino # 0
           /\ ~(job.fd < FileBase) /\ ~IsConsole(job.fd)
  <1>1. JobFile \in Fds /\ ramfs_file_descriptors[JobFile].ino # 0 BY DEF JobFd
  <1>2. JobFile \in Nat BY <1>1, TablesAreNat
  <1>3. job.fd \in Int /\ FileBase \in Nat BY TableAssumption DEF JobType
  <1>4. ~(job.fd < FileBase) BY <1>2, <1>3 DEF JobFile
  <1>5. ~IsConsole(job.fd) BY <1>3, <1>4 DEF IsConsole
  <1> QED BY <1>1, <1>2, <1>4, <1>5

LEMMA StageNotIdle == job.stage # "none" => job # Idle
  BY DEF Idle

LEMMA CloseReturns ==
    ASSUME JobType, JobFd, CommandClose
    PROVE  ramfs_file_descriptors' = before.fds
  <1>1. job # Idle BY StageNotIdle DEF CommandClose
  <1>2. JobFile \in Fds /\ ramfs_file_descriptors[JobFile].ino # 0 /\ ~IsConsole(job.fd)
    BY <1>1, JobFdNumber
  <1>3. Close(JobFile) BY <1>2 DEF CommandClose, sys_close, JobFile
  <1>4. ramfs_file_descriptors' = [ramfs_file_descriptors EXCEPT ![JobFile] = FreeFd]
    BY <1>2, <1>3 DEF Close
  <1> QED BY <1>1, <1>4 DEF JobFd

FdsReturn == job # Idle /\ job' = Idle => ramfs_file_descriptors' = before.fds

LEMMA JobFdStep ==
    ASSUME RamInv, RootStays, FreeClean, JobType, JobFd, [NextCommands]_allVars
    PROVE  JobFd' /\ FdsReturn
  <1>0. RamType BY DEF RamInv
  <1>1. ASSUME NEW p, cmd_cat(p) \/ cmd_touch(p) \/ (\E t \in Texts : cmd_write(p, t))
        PROVE  JobFd' /\ FdsReturn
    <2>1. PICK creat, stage, words : Begin(p, creat, stage, words)
      BY <1>1 DEF cmd_cat, cmd_touch, cmd_write
    <2>2. job = Idle BY <2>1 DEF Begin
    <2> QED BY <2>1, <2>2, BeginJobFd DEF FdsReturn
  <1>2. CASE CatNoMemory
    <2>1. job # Idle BY <1>2, StageNotIdle DEF CatNoMemory
    <2>2. job' = [job EXCEPT !.stage = "close"] /\ before' = before /\ UNCHANGED vars
      BY <1>2 DEF CatNoMemory
    <2>3. job'.fd = job.fd /\ job'.stage # "none" BY <2>2 DEF JobType
    <2>4. OffsetOnly(JobFile) BY <2>2 DEF OffsetOnly, vars
    <2>5. job' # Idle BY <2>3 DEF Idle
    <2> QED BY <1>0, <2>1, <2>2, <2>3, <2>4, <2>5, OffsetJobFd DEF FdsReturn
  <1>3. CASE CatRead
    <2>1. job # Idle BY <1>3, StageNotIdle DEF CatRead
    <2> DEFINE st == IF ret' > 0 THEN "read" ELSE "catclose"
    <2>2. job' = [job EXCEPT !.stage = st] /\ before' = before /\ sys_read(job.fd, CatSize)
      BY <1>3 DEF CatRead
    <2>3. st # "none" OBVIOUS
    <2> HIDE DEF st
    <2>4. job'.fd = job.fd /\ job'.stage # "none" BY <2>2, <2>3 DEF JobType
    <2>5. Read(JobFile, CatSize) BY <2>1, <2>2, JobFdNumber DEF sys_read, JobFile
    <2>6. OffsetOnly(JobFile) BY <1>0, <2>1, <2>5, JobFdNumber, ReadOffset, TextAssumption
    <2>7. job' # Idle BY <2>4 DEF Idle
    <2> QED BY <1>0, <2>1, <2>2, <2>4, <2>6, <2>7, OffsetJobFd DEF FdsReturn
  <1>4. CASE WritePiece
    <2>1. job # Idle BY <1>4, StageNotIdle DEF WritePiece
    <2> DEFINE ps == job.pieces
               st == IF Len(ps) = 1 THEN "close" ELSE "write"
    <2>2. /\ job' = [job EXCEPT !.pieces = Tail(ps), !.stage = st] /\ before' = before
          /\ sys_write(job.fd, Head(ps))
      BY <1>4 DEF WritePiece
    <2>3. st # "none" OBVIOUS
    <2>4. job = [stage |-> job.stage, fd |-> job.fd, pieces |-> job.pieces] BY DEF JobType
    <2>5. ps \in Seq(Seq(Nat)) /\ ps # << >> BY <1>4 DEF JobType, WritePiece
    <2> HIDE DEF ps, st
    <2>6. Head(ps) \in Seq(Nat) BY <2>5
    <2>7. job'.fd = job.fd /\ job'.stage # "none" BY <2>2, <2>3, <2>4
    <2>8. Write(JobFile, Head(ps)) BY <2>1, <2>2, JobFdNumber DEF sys_write, JobFile
    <2>9. OffsetOnly(JobFile) BY <1>0, <2>1, <2>6, <2>8, JobFdNumber, WriteOffset
    <2>10. job' # Idle BY <2>7 DEF Idle
    <2> QED BY <1>0, <2>1, <2>2, <2>7, <2>9, <2>10, OffsetJobFd DEF FdsReturn
  <1>5. CASE CommandClose
    <2>1. job' = Idle BY <1>5 DEF CommandClose
    <2> QED BY <1>5, <2>1, CloseReturns DEF JobFd, FdsReturn
  <1>6. CASE OtherCall
    <2>1. job = Idle /\ job' = Idle BY <1>6 DEF OtherCall, commandVars
    <2> QED BY <2>1 DEF JobFd, FdsReturn
  <1>7. CASE UNCHANGED allVars
    <2>1. job' = job /\ before' = before /\ ramfs_file_descriptors' = ramfs_file_descriptors
      BY <1>7 DEF allVars, vars, commandVars
    <2> QED BY <2>1 DEF JobFd, FdsReturn, JobFile
  <1> QED BY <1>1, <1>2, <1>3, <1>4, <1>5, <1>6, <1>7 DEF NextCommands

\* The invariant of the commands, as long as the root stays.
ClosingInv == TableInv /\ FreeClean /\ JobFd

LEMMA ClosingStep ==
    ClosingInv /\ RootStays /\ [NextCommands]_allVars => ClosingInv' /\ FdsReturn
  <1> SUFFICES ASSUME ClosingInv, RootStays, [NextCommands]_allVars
               PROVE  ClosingInv' /\ FdsReturn
    OBVIOUS
  <1>1. RamInv /\ JobType /\ FreeClean /\ JobFd BY DEF ClosingInv, TableInv
  <1>2. TableInv' /\ FsStep BY TableStep DEF ClosingInv
  <1>3. FreeClean'
    <2>1. CASE Effect(Nat, Seq(Nat)) BY <1>1, <2>1, FreeCleanStep
    <2>2. CASE UNCHANGED vars BY <1>1, <2>2 DEF vars, FreeClean
    <2> QED BY <1>2, <2>1, <2>2 DEF FsStep
  <1> QED BY <1>1, <1>2, <1>3, JobFdStep DEF ClosingInv

LEMMA ClosingInit == InitCommands => ClosingInv
  <1> SUFFICES ASSUME InitCommands PROVE ClosingInv OBVIOUS
  <1>1. TableInv BY RamInit, InitRefines, IdleType DEF InitCommands, TableInv
  <1>2. FreeClean BY DEF InitCommands, Init, FreeClean
  <1>3. JobFd BY DEF InitCommands, JobFd
  <1> QED BY <1>1, <1>2, <1>3 DEF ClosingInv

\* cat, touch and write leave the descriptors as they found them, on every way out:
\* when malloc fails, when a write finds no room and when the table was full but for
\* one, for tables and files of any size and whatever programs left open.
THEOREM CommandsClose == SpecCommands /\ []RootStays => CommandClosesFile
  BY ClosingInit, ClosingStep, PTL DEF SpecCommands, CommandClosesFile, FdsReturn

-----------------------------------------------------------------------------
(* cat.                                                                     *)

\* The slot of a descriptor, when its number and the inodes stay.
LEMMA SameInodeOfFd ==
    ASSUME NEW f, ramfs_inodes' = ramfs_inodes,
           ramfs_file_descriptors'[f].ino = ramfs_file_descriptors[f].ino
    PROVE  InodeOfFd(f)' = InodeOfFd(f)
  BY DEF InodeOfFd

LEMMA BeginCat ==
    ASSUME RamInv, RootStays, FreeClean, NEW p, cmd_cat(p)
    PROVE  CatInv'
  <1>1. Begin(p, FALSE, "malloc", << >>) BY DEF cmd_cat
  <1>2. CASE ret' < 0 BY <1>1, <1>2 DEF Begin, CatInv, Idle
  <1>3. CASE ~(ret' < 0)
    <2>a. PICK f : f = FindFreeFd OBVIOUS
    <2>b. PICK s : s = FindInode(p) OBVIOUS
    <2> DEFINE ps == Pieces(<< >>)
               text == Line(<< >>)
               content == ContentOf(FindInode(p))
    <2>1. OpenOld(p, FALSE) BY <1>1 DEF Begin
    <2>2. f \in Fds /\ ret' = f + FileBase BY <1>3, <2>1, <2>a, <2>b, BeginOpens
    <2>3. PICK i \in Nat \ {0} :
            /\ ramfs_file_descriptors' = [ramfs_file_descriptors EXCEPT
                  ![f] = [ino |-> i, offset |-> 0, acc |-> RDWR, append |-> FALSE]]
            /\ s \in Files /\ UNCHANGED fsVars /\ i = ramfs_inodes[s].ino
      BY <1>3, <2>1, <2>a, <2>b, BeginOpens
    <2> DEFINE d == [ino |-> i, offset |-> 0, acc |-> RDWR, append |-> FALSE]
    <2>4. d.ino = i /\ d.offset = 0 /\ d.acc = RDWR OBVIOUS
    <2>5. ramfs_file_descriptors' = [ramfs_file_descriptors EXCEPT ![f] = d] BY <2>3
    <2>6. /\ job' = [stage |-> "malloc", fd |-> ret', pieces |-> ps]
          /\ before' = [fds |-> ramfs_file_descriptors, path |-> p, text |-> text,
                        content |-> content]
          /\ shown' = << >>
      BY <1>1, <1>3 DEF Begin
    <2>7. s \in Slots /\ s # None /\ ramfs_inodes[s].ino # 0
      BY <2>3, TablesAreNat DEF Files, Used, None
    <2>8. content = Bytes(s) BY <2>7, <2>b DEF ContentOf, Bytes
    <2> HIDE DEF d, ps, text, content
    <2>9. job'.fd = ret' /\ job'.stage = "malloc" /\ before'.content = content BY <2>6
    <2>10. JobFile' = f BY <2>2, <2>9, TablesAreNat, TableAssumption DEF JobFile
    <2>11. ramfs_file_descriptors \in [Fds -> FdType] BY DEF RamInv, RamType
    <2>12. ramfs_file_descriptors'[f] = d BY <2>2, <2>5, <2>11
    <2>13. ramfs_inodes' = ramfs_inodes /\ ramfs_pool' = ramfs_pool BY <2>3 DEF fsVars
    <2>14. InodeOfFd(f)' = s
      <3> DEFINE S == {t \in Slots : ramfs_inodes'[t].ino = ramfs_file_descriptors'[f].ino}
      <3>1. InodeOfFd(f)' = First(S) BY DEF InodeOfFd
      <3>2. S = {s}
        BY <2>3, <2>4, <2>7, <2>12, <2>13 DEF RamInv, NamesUnique, Used
      <3>3. S \in SUBSET Nat BY TablesAreNat
      <3>4. S # {} BY <3>2
      <3> HIDE DEF S
      <3>5. First(S) \in S BY <3>3, <3>4, FirstMatch
      <3> QED BY <3>1, <3>2, <3>5
    <2>15. Bytes(s)' = Bytes(s) BY <2>13, SameBytes
    <2>16. Bytes(s) \in Seq(Nat) /\ ramfs_inodes[s].size \in Nat BY <2>7, BytesIs
    <2>17. SubSeq(Bytes(s), 1, 0) = << >> BY <2>16
    <2> DEFINE b == Bytes(s)
    <2>18. Bytes(s)' = b /\ SubSeq(b, 1, 0) = << >> /\ before'.content = b
      BY <2>8, <2>9, <2>15, <2>17
    <2> HIDE DEF b
    <2>19. CatInv' <=>
             /\ InodeOfFd(f)' # None /\ ramfs_file_descriptors'[f].acc = RDWR
             /\ before'.content = Bytes(s)'
             /\ ramfs_file_descriptors'[f].offset <= ramfs_inodes'[s].size
             /\ shown' = SubSeq(Bytes(s)', 1, ramfs_file_descriptors'[f].offset)
      BY <2>9, <2>10, <2>14 DEF CatInv
    <2> QED BY <2>4, <2>6, <2>7, <2>12, <2>13, <2>14, <2>16, <2>18, <2>19
  <1> QED BY <1>2, <1>3

\* One turn of the loop prints the bytes behind those already shown.
LEMMA CatReadShows ==
    ASSUME RamInv, FdFiles, JobType, JobFd, CatInv, CatRead
    PROVE  CatInv'
  <1>0. RamType BY DEF RamInv
  <1>a. PICK f : f = JobFile OBVIOUS
  <1>b. PICK s : s = InodeOfFd(f) OBVIOUS
  <1>1. job # Idle /\ job.stage \in {"malloc", "read"} BY StageNotIdle DEF CatRead
  <1>2. /\ f \in Fds /\ ramfs_file_descriptors[f].ino # 0 /\ ~(job.fd < FileBase)
    BY <1>1, <1>a, JobFdNumber
  <1> DEFINE o == ramfs_file_descriptors[f].offset
             z == ramfs_inodes[s].size
             b == Bytes(s)
             n == ReadCount(f, CatSize)
  <1>3. /\ s # None /\ ramfs_file_descriptors[f].acc = RDWR /\ before.content = b
        /\ o <= z /\ shown = SubSeq(b, 1, o)
    BY <1>1, <1>a, <1>b DEF CatInv
  <1>4. s \in Slots /\ ramfs_inodes[s].ino = ramfs_file_descriptors[f].ino
    BY <1>3, <1>b, InodeOfFdIs
  <1>5. Usable(f) BY <1>2, <1>3, <1>4, <1>b DEF Usable, FdFiles
  <1>6. Read(f, CatSize) BY <1>2, <1>a DEF CatRead, sys_read, JobFile
  <1>7. CatSize \in Nat /\ CatSize > 0 BY TextAssumption
  <1>8. n \in Nat /\ o \in Nat BY <1>0, <1>2, <1>3, <1>7, <1>b, ReadCountIs
  <1>9. ramfs_file_descriptors[f].acc # WRONLY BY <1>3 DEF RDWR, WRONLY
  <1>10. /\ ret' = n /\ out' = Content(s, o, o + n)
         /\ ramfs_file_descriptors' = [ramfs_file_descriptors EXCEPT ![f].offset = @ + n]
         /\ UNCHANGED fsVars
    BY <1>5, <1>6, <1>9, <1>b DEF Read, ReadCount
  <1>11. n = LET rest == z - o
             IN  IF rest <= 0 THEN 0 ELSE IF CatSize < rest THEN CatSize ELSE rest
    BY <1>b DEF ReadCount
  <1>12. b \in Seq(Nat) /\ z \in Nat /\ Len(b) = z BY <1>4, BytesIs
  <1>13. Content(s, o, o + n) =
            SubSeq(b, o + 1, IF o + CatSize < Len(b) THEN o + CatSize ELSE Len(b))
    <2>1. o \in Nat /\ CatSize \in Nat BY <1>7, <1>8
    <2>2. n = LET rest == ramfs_inodes[s].size - o
              IN  IF rest <= 0 THEN 0 ELSE IF CatSize < rest THEN CatSize ELSE rest
      BY <1>11
    <2> HIDE DEF o, n
    <2> QED BY <1>4, <2>1, <2>2, BytesRead
  <1>14. /\ job' = [job EXCEPT !.stage = IF n > 0 THEN "read" ELSE "catclose"]
         /\ shown' = shown \o out' /\ before' = before
    BY <1>10 DEF CatRead
  <1>15. ramfs_inodes' = ramfs_inodes /\ ramfs_pool' = ramfs_pool BY <1>10 DEF fsVars
  <1>16. ramfs_file_descriptors \in [Fds -> FdType] BY <1>0 DEF RamType
  <1>17. Bytes(s)' = b /\ ramfs_inodes'[s].size = z BY <1>15, SameBytes
  <1> HIDE DEF b, z, n
  <1>18. /\ ramfs_file_descriptors'[f].offset = o + n
         /\ ramfs_file_descriptors'[f].acc = RDWR
         /\ ramfs_file_descriptors'[f].ino = ramfs_file_descriptors[f].ino
    BY <1>2, <1>3, <1>10, <1>16 DEF FdType
  <1>19. InodeOfFd(f)' = s BY <1>15, <1>18, <1>b, SameInodeOfFd
  <1> HIDE DEF o
  <1>20. /\ (IF o + CatSize < Len(b) THEN o + CatSize ELSE Len(b)) = o + n
         /\ o + n <= z /\ (~(n > 0) => o + n = z)
    BY <1>3, <1>7, <1>8, <1>11, <1>12
  <1>21. shown' = SubSeq(b, 1, o) \o SubSeq(b, o + 1, o + n)
    BY <1>3, <1>10, <1>13, <1>14, <1>20
  <1>22. SubSeq(b, 1, o) \o SubSeq(b, o + 1, o + n) = SubSeq(b, 1, o + n)
    <2>1. 1 \in 1 .. Len(b) + 1 /\ o \in 1 - 1 .. Len(b) /\ o + n \in o .. Len(b)
      BY <1>3, <1>8, <1>12, <1>20
    <2> QED BY <1>12, <2>1, ConcatAdjacentSubSeq
  <1>23. job'.fd = job.fd /\ (job'.stage = "catclose" => ~(n > 0))
    <2> DEFINE st == IF n > 0 THEN "read" ELSE "catclose"
    <2>1. job' = [job EXCEPT !.stage = st] BY <1>14
    <2>2. st = "catclose" => ~(n > 0) OBVIOUS
    <2> HIDE DEF st
    <2>3. job'.fd = job.fd /\ job'.stage = st BY <2>1 DEF JobType
    <2> QED BY <2>2, <2>3
  <1>24. JobFile' = f BY <1>23, <1>a DEF JobFile
  <1>25. /\ InodeOfFd(f)' # None /\ ramfs_file_descriptors'[f].acc = RDWR
         /\ before'.content = Bytes(s)'
         /\ ramfs_file_descriptors'[f].offset <= ramfs_inodes'[s].size
         /\ shown' = SubSeq(Bytes(s)', 1, ramfs_file_descriptors'[f].offset)
         /\ job'.stage = "catclose" =>
               ramfs_file_descriptors'[f].offset = ramfs_inodes'[s].size
    BY <1>3, <1>14, <1>17, <1>18, <1>19, <1>20, <1>21, <1>22, <1>23
  <1> QED BY <1>19, <1>24, <1>25 DEF CatInv

LEMMA CatStep ==
    ASSUME ClosingInv, CatInv, RootStays, [NextCommands]_allVars
    PROVE  CatInv'
  <1>0. RamInv /\ FdFiles /\ JobType /\ FreeClean /\ JobFd BY DEF ClosingInv, TableInv
  <1>1. ASSUME NEW p, cmd_cat(p) PROVE CatInv' BY <1>0, <1>1, BeginCat
  <1>2. ASSUME NEW p, cmd_touch(p) \/ (\E t \in Texts : cmd_write(p, t)) PROVE CatInv'
    <2>1. ASSUME NEW stage \in {"close", "write"}, NEW words, Begin(p, TRUE, stage, words)
          PROVE  CatInv'
      <3> DEFINE ps == Pieces(words)
      <3>1. job' = Idle \/ job' = [stage |-> stage, fd |-> ret', pieces |-> ps]
        BY <2>1 DEF Begin
      <3> HIDE DEF ps
      <3>2. job'.stage \in {"none", "close", "write"} BY <3>1 DEF Idle
      <3> QED BY <3>2 DEF CatInv
    <2> QED BY <1>2, <2>1 DEF cmd_touch, cmd_write
  <1>3. CASE CatNoMemory
    <2>1. job'.stage = "close" BY <1>0, <1>3 DEF CatNoMemory, JobType
    <2> QED BY <2>1 DEF CatInv
  <1>4. CASE CatRead BY <1>0, <1>4, CatReadShows
  <1>5. CASE WritePiece
    <2> DEFINE ps == job.pieces
               st == IF Len(ps) = 1 THEN "close" ELSE "write"
    <2>1. job' = [job EXCEPT !.pieces = Tail(ps), !.stage = st] BY <1>5 DEF WritePiece
    <2>2. st \in {"close", "write"} OBVIOUS
    <2>3. job = [stage |-> job.stage, fd |-> job.fd, pieces |-> job.pieces] BY <1>0 DEF JobType
    <2> HIDE DEF ps, st
    <2>4. job'.stage = st BY <2>1, <2>3
    <2> QED BY <2>2, <2>4 DEF CatInv
  <1>6. CASE CommandClose BY <1>6 DEF CommandClose, Idle, CatInv
  <1>7. CASE OtherCall
    <2>1. job' = Idle BY <1>7 DEF OtherCall, commandVars
    <2> QED BY <2>1 DEF Idle, CatInv
  <1>8. CASE UNCHANGED allVars
    <2>1. UNCHANGED <<vars, job, shown, before>> BY <1>8 DEF allVars, commandVars
    <2> QED BY <2>1 DEF CatInv, JobFile, InodeOfFd, Bytes, Content, vars, fsVars
  <1> QED BY <1>1, <1>2, <1>3, <1>4, <1>5, <1>6, <1>7, <1>8 DEF NextCommands

\* cat prints the whole file, for files and a buffer of any size.
THEOREM CatHolds == SpecCommands /\ []RootStays => []CatShowsFile
  <1>1. InitCommands => CatInv BY DEF InitCommands, CatInv, Idle
  <1>2. ClosingInv /\ CatInv /\ RootStays /\ [NextCommands]_allVars => CatInv' BY CatStep
  <1>3. ClosingInv /\ CatInv => CatShowsFile
    <2> SUFFICES ASSUME ClosingInv, CatInv, job.stage = "catclose" PROVE shown = before.content
      BY DEF CatShowsFile
    <2> DEFINE s == InodeOfFd(JobFile)
               b == Bytes(s)
    <2>1. /\ s # None /\ before.content = b
          /\ shown = SubSeq(b, 1, ramfs_inodes[s].size)
      BY DEF CatInv
    <2>2. s \in Slots BY <2>1, InodeOfFdIs
    <2>3. b \in Seq(Nat) /\ Len(b) = ramfs_inodes[s].size
      BY <2>2, BytesIs DEF ClosingInv, TableInv
    <2> HIDE DEF b, s
    <2>4. SubSeq(b, 1, Len(b)) = b BY <2>3, SubSeqFull
    <2> QED BY <2>1, <2>3, <2>4
  <1> QED BY <1>1, <1>2, <1>3, ClosingInit, ClosingStep, PTL DEF SpecCommands

-----------------------------------------------------------------------------
(* Lookup goes by the names of the table alone.                             *)

\* The directories are as before.
SameDirs ==
    \A s \in Slots :
       LET x == ramfs_inodes[s]
           y == ramfs_inodes'[s]
       IN  /\ y.ino # 0 /\ y.type = "dir" <=> x.ino # 0 /\ x.type = "dir"
           /\ x.ino # 0 /\ x.type = "dir" =>
                 y.ino = x.ino /\ y.parent = x.parent /\ y.name = x.name

LEMMA SameResolve ==
    ASSUME NEW segs, SameDirs
    PROVE  ResolveDir(segs)' = ResolveDir(segs)
<1> DEFINE
      D(dir, name) == {s \in Entries(dir, name) : ramfs_inodes[s].type = "dir"}
      E(dir, name) == {s \in Slots : /\ ramfs_inodes'[s].ino # 0 /\ ramfs_inodes'[s].parent = dir
                                     /\ ramfs_inodes'[s].name = name
                                     /\ ramfs_inodes'[s].type = "dir"}
      F(w) == [k \in 0 .. Len(segs) |->
                  IF k = 0 THEN 0
                  ELSE IF w[k - 1] = None \/ D(w[k - 1], segs[k]) = {} THEN None
                  ELSE ramfs_inodes[First(D(w[k - 1], segs[k]))].ino]
      G(w) == [k \in 0 .. Len(segs) |->
                  IF k = 0 THEN 0
                  ELSE IF w[k - 1] = None \/ E(w[k - 1], segs[k]) = {} THEN None
                  ELSE ramfs_inodes'[First(E(w[k - 1], segs[k]))].ino]
<1>1. ASSUME NEW dir, NEW name
      PROVE  /\ E(dir, name) = D(dir, name)
             /\ D(dir, name) # {} =>
                   ramfs_inodes'[First(D(dir, name))].ino = ramfs_inodes[First(D(dir, name))].ino
  <2>1. D(dir, name) = {s \in Slots : /\ ramfs_inodes[s].ino # 0 /\ ramfs_inodes[s].parent = dir
                                      /\ ramfs_inodes[s].name = name
                                      /\ ramfs_inodes[s].type = "dir"}
    BY DEF Entries
  <2>2. E(dir, name) = D(dir, name)
    BY <2>1 DEF SameDirs
  <2>3. D(dir, name) \in SUBSET Nat /\ \A s \in D(dir, name) : ramfs_inodes'[s].ino = ramfs_inodes[s].ino
    BY <2>1, TablesAreNat DEF SameDirs
  <2> HIDE DEF D, E
  <2>4. D(dir, name) # {} => First(D(dir, name)) \in D(dir, name)
    BY <2>3, FirstMatch
  <2> QED BY <2>2, <2>3, <2>4
<1>2. ASSUME NEW w PROVE F(w) = G(w)
  <2> HIDE DEF D, E
  <2>1. \A k \in 0 .. Len(segs) :
           /\ E(w[k - 1], segs[k]) = D(w[k - 1], segs[k])
           /\ D(w[k - 1], segs[k]) # {} =>
                 ramfs_inodes'[First(D(w[k - 1], segs[k]))].ino =
                    ramfs_inodes[First(D(w[k - 1], segs[k]))].ino
    BY <1>1
  <2> QED BY <2>1, Zenon
<1>3. (CHOOSE w : w = F(w)) = (CHOOSE w : w = G(w))
  <2> HIDE DEF F, G
  <2> QED BY <1>2, Zenon
<1>4. ResolveDir(segs) = (CHOOSE w : w = F(w))[Len(segs)]
  BY Zenon DEF ResolveDir
<1>5. ResolveDir(segs)' = (CHOOSE w : w = G(w))[Len(segs)]
  <2>1. ASSUME NEW dir, NEW name
        PROVE  {s \in Entries(dir, name)' : ramfs_inodes'[s].type = "dir"} = E(dir, name)
    BY DEF Entries
  <2> DEFINE EE(dir, name) == {s \in Entries(dir, name)' : ramfs_inodes'[s].type = "dir"}
             H(w) == [k \in 0 .. Len(segs) |->
                         IF k = 0 THEN 0
                         ELSE IF w[k - 1] = None \/ EE(w[k - 1], segs[k]) = {} THEN None
                         ELSE ramfs_inodes'[First(EE(w[k - 1], segs[k]))].ino]
  <2>2. ResolveDir(segs)' = (CHOOSE w : w = H(w))[Len(segs)]
    BY Zenon DEF ResolveDir
  <2>3. ASSUME NEW w PROVE H(w) = G(w)
    <3>1. \A k \in 0 .. Len(segs) : EE(w[k - 1], segs[k]) = E(w[k - 1], segs[k])
      BY <2>1, Zenon
    <3> HIDE DEF EE, E
    <3> QED BY <3>1, Zenon
  <2>4. (CHOOSE w : w = H(w)) = (CHOOSE w : w = G(w))
    <3> HIDE DEF H, G
    <3> QED BY <2>3, Zenon
  <2> QED BY <2>2, <2>4
<1> QED BY <1>3, <1>4, <1>5

\* A step that keeps the numbers, types and names of all slots.
SameNames ==
    \A s \in Slots :
       LET x == ramfs_inodes[s]
           y == ramfs_inodes'[s]
       IN  y.ino = x.ino /\ y.type = x.type /\ y.parent = x.parent /\ y.name = x.name

LEMMA SameFound ==
    ASSUME NEW path, SameNames
    PROVE  FindInode(path)' = FindInode(path)
<1>1. SameDirs
  BY DEF SameNames, SameDirs
<1>2. ResolveDir(DirOf(path))' = ResolveDir(DirOf(path))
  BY <1>1, SameResolve
<1>3. \A dir, name : Entries(dir, name)' = Entries(dir, name)
  BY DEF Entries, SameNames
<1>4. PICK d : d = ResolveDir(DirOf(path))
  OBVIOUS
<1>5. PICK e : e = NameOf(path)
  OBVIOUS
<1>6. FindInode(path) = IF path = << >> THEN 0 ELSE IF d = None THEN None
                        ELSE First(Entries(d, e))
  BY <1>4, <1>5 DEF FindInode
<1>7. FindInode(path)' = IF path = << >> THEN 0 ELSE IF d = None THEN None
                         ELSE First(Entries(d, e)')
  <2>1. ResolveDir(DirOf(path))' = d
    BY <1>2, <1>4
  <2>2. FindInode(path)' = IF path = << >> THEN 0
                           ELSE IF ResolveDir(DirOf(path))' = None THEN None
                           ELSE First({s \in Slots : /\ ramfs_inodes'[s].ino # 0
                                                     /\ ramfs_inodes'[s].parent = ResolveDir(DirOf(path))'
                                                     /\ ramfs_inodes'[s].name = NameOf(path)})
    BY DEF FindInode, Entries
  <2>3. Entries(d, e)' = {s \in Slots : /\ ramfs_inodes'[s].ino # 0
                                        /\ ramfs_inodes'[s].parent = d
                                        /\ ramfs_inodes'[s].name = e}
    BY DEF Entries
  <2> HIDE DEF ResolveDir
  <2> QED BY <1>5, <2>1, <2>2, <2>3
<1>8. Entries(d, e)' = Entries(d, e)
  BY <1>3
<1> QED BY <1>6, <1>7, <1>8

\* A file that was just made is found under its path.
LEMMA FoundNew ==
    ASSUME RamInv, NEW p, FindInode(p) = None, CanCreate(p), Create(p, "file")
    PROVE  FindInode(p)' = FindFreeInode
<1>1. PICK u : u = FindFreeInode
  OBVIOUS
<1>2. PICK r : r = NewInode(p, "file")
  OBVIOUS
<1>3. PICK d : d = ResolveDir(DirOf(p))
  OBVIOUS
<1>4. PICK e : e = NameOf(p)
  OBVIOUS
<1>5. u \in Slots /\ u # 0 /\ ramfs_inodes[u].ino = 0
  BY <1>1, FindFreeInodeIs DEF CanCreate
<1>6. r.ino = ramfs_next_inode /\ r.type = "file" /\ r.name = e /\ r.parent = d
  BY <1>2, <1>3, <1>4, NewInodeIs, RecFields
<1>7. r.ino # 0
  BY <1>6 DEF RamInv, RamType
<1>8. Put(u, r)
  <2>1. ramfs_inodes' = [ramfs_inodes EXCEPT ![u] = r]
    BY <1>1, <1>2 DEF Create
  <2> QED BY <1>5, <2>1, PutIs DEF RamInv
<1>9. SameDirs
  <2> SUFFICES ASSUME NEW s \in Slots
               PROVE  LET x == ramfs_inodes[s]
                          y == ramfs_inodes'[s]
                      IN  /\ y.ino # 0 /\ y.type = "dir" <=> x.ino # 0 /\ x.type = "dir"
                          /\ x.ino # 0 /\ x.type = "dir" =>
                                y.ino = x.ino /\ y.parent = x.parent /\ y.name = x.name
    BY DEF SameDirs
  <2>1. CASE s = u
    BY <1>5, <1>6, <1>8, <2>1 DEF Put
  <2>2. CASE s # u
    BY <1>8, <2>2 DEF Put
  <2> QED BY <2>1, <2>2
<1>10. d # None /\ p # << >> /\ Entries(d, e) = {}
  BY <1>3, <1>4, FindInodeNone DEF CanCreate
<1>11. ResolveDir(DirOf(p))' = d
  BY <1>3, <1>9, SameResolve
<1>12. {s \in Slots : /\ ramfs_inodes'[s].ino # 0 /\ ramfs_inodes'[s].parent = d
                      /\ ramfs_inodes'[s].name = e} = {u}
  <2>1. \A s \in Slots : s # u => ~(/\ ramfs_inodes'[s].ino # 0 /\ ramfs_inodes'[s].parent = d
                                    /\ ramfs_inodes'[s].name = e)
    BY <1>8, <1>10 DEF Put, Entries
  <2>2. ramfs_inodes'[u] = r
    BY <1>8 DEF Put
  <2> QED BY <1>5, <1>6, <1>7, <2>1, <2>2
<1>13. FindInode(p)' = First({u})
  <2>1. FindInode(p)' = IF p = << >> THEN 0
                        ELSE IF ResolveDir(DirOf(p))' = None THEN None
                        ELSE First({s \in Slots : /\ ramfs_inodes'[s].ino # 0
                                                  /\ ramfs_inodes'[s].parent = ResolveDir(DirOf(p))'
                                                  /\ ramfs_inodes'[s].name = NameOf(p)})
    BY DEF FindInode, Entries
  <2> HIDE DEF ResolveDir
  <2> QED BY <1>4, <1>10, <1>11, <1>12, <2>1
<1>14. First({u}) = u
  <2>1. {u} \in SUBSET Nat
    BY <1>5, TablesAreNat
  <2>2. First({u}) \in {u}
    BY <2>1, FirstMatch
  <2> QED BY <2>2
<1> QED BY <1>1, <1>13, <1>14

-----------------------------------------------------------------------------
(* Capacities.                                                              *)

LEMMA AlignUpMonotone ==
    ASSUME NEW a \in Nat, NEW b \in Nat, a <= b
    PROVE  AlignUp(a) <= AlignUp(b) /\ AlignUp(a) \in Nat /\ AlignUp(b) \in Nat
<1>1. PICK u \in Nat \ {0} : u = Align
  BY PoolAssumption
<1>2. PICK p \in Int, i \in 0 .. u - 1 : p = (a + u - 1) \div u /\ a + u - 1 = u * p + i
  <2> DEFINE x == a + u - 1
  <2>1. x \in Int
    OBVIOUS
  <2> HIDE DEF x
  <2>2. x \div u \in Int /\ x % u \in 0 .. u - 1 /\ x = u * (x \div u) + (x % u)
    BY <2>1
  <2> QED BY <2>2 DEF x
<1>3. PICK q \in Int, j \in 0 .. u - 1 : q = (b + u - 1) \div u /\ b + u - 1 = u * q + j
  <2> DEFINE x == b + u - 1
  <2>1. x \in Int
    OBVIOUS
  <2> HIDE DEF x
  <2>2. x \div u \in Int /\ x % u \in 0 .. u - 1 /\ x = u * (x \div u) + (x % u)
    BY <2>1
  <2> QED BY <2>2 DEF x
<1>4. AlignUp(a) = p * u /\ AlignUp(b) = q * u
  BY <1>1, <1>2, <1>3 DEF AlignUp
<1>5. p <= q
  <2> SUFFICES ASSUME q < p PROVE FALSE
    OBVIOUS
  <2>1. PICK d \in Nat : p = q + 1 + d
    <3>1. p - q - 1 \in Nat /\ p = q + 1 + (p - q - 1)
      OBVIOUS
    <3> QED BY <3>1
  <2>2. u * p = u * q + u + u * d /\ u * d \in Nat
    BY <2>1
  <2>3. u * p \in Int /\ u * q \in Int
    OBVIOUS
  <2> QED BY <1>2, <1>3, <2>2, <2>3
<1>6. p * u <= q * u
  <2>1. PICK d \in Nat : q = p + d
    <3>1. q - p \in Nat /\ q = p + (q - p)
      BY <1>5
    <3> QED BY <3>1
  <2>2. q * u = p * u + d * u /\ d * u \in Nat
    BY <2>1
  <2> QED BY <2>2
<1> QED BY <1>4, <1>6, AlignUpIs

LEMMA AlignUpLargest == AlignUp(MaxFileSize) = MaxFileSize
<1>1. PICK u \in Nat \ {0} : u = Align
  BY PoolAssumption
<1>2. PICK m \in Nat : m = MaxFileSize /\ m % u = 0
  BY <1>1, PoolAssumption
<1>3. PICK k \in Int : m = u * k
  <2>1. m \div u \in Int /\ m = u * (m \div u) + (m % u)
    OBVIOUS
  <2>2. m = u * (m \div u)
    <3>1. PICK v \in Int : v = m \div u
      BY <2>1
    <3> QED BY <1>2, <2>1, <3>1
  <2> QED BY <2>1, <2>2
<1>4. PICK p \in Int, i \in 0 .. u - 1 : p = (m + u - 1) \div u /\ m + u - 1 = u * p + i
  <2> DEFINE x == m + u - 1
  <2>1. x \in Int
    OBVIOUS
  <2> HIDE DEF x
  <2>2. x \div u \in Int /\ x % u \in 0 .. u - 1 /\ x = u * (x \div u) + (x % u)
    BY <2>1
  <2> QED BY <2>2 DEF x
<1>5. u * p \in Int /\ u * k \in Int
  OBVIOUS
<1>6. CASE p < k
  <2>1. PICK d \in Nat : k = p + 1 + d
    <3>1. k - p - 1 \in Nat /\ k = p + 1 + (k - p - 1)
      BY <1>6
    <3> QED BY <3>1
  <2>2. u * k = u * p + u + u * d /\ u * d \in Nat
    BY <2>1
  <2>3. FALSE
    BY <1>3, <1>4, <1>5, <2>2
  <2> QED BY <2>3
<1>7. CASE k < p
  <2>1. PICK d \in Nat : p = k + 1 + d
    <3>1. p - k - 1 \in Nat /\ p = k + 1 + (p - k - 1)
      BY <1>7
    <3> QED BY <3>1
  <2>2. u * p = u * k + u + u * d /\ u * d \in Nat
    BY <2>1
  <2>3. FALSE
    BY <1>3, <1>4, <1>5, <2>2
  <2> QED BY <2>3
<1>8. CASE p = k
  <2>1. AlignUp(m) = p * u
    BY <1>1, <1>4 DEF AlignUp
  <2>2. p * u = m
    BY <1>3, <1>8
  <2> QED BY <1>2, <2>1, <2>2
<1> QED BY <1>6, <1>7, <1>8

\* A file has no block, or one at least as large as the first or the largest.
CapOk(c) == c \in Nat /\ c <= MaxFileSize /\ (c = 0 \/ c >= FirstCap \/ c = MaxFileSize)

Twice(c) == IF c = 0 THEN FirstCap ELSE 2 * c

\* What ramfs_reserve asks for.
LEMMA NewCapBounds ==
    ASSUME NEW c, CapOk(c), NEW m \in Nat, m <= MaxFileSize
    PROVE  /\ CapOk(NewCap(c, m))
           /\ \A k \in Nat : k <= m => NewCap(c, k) <= NewCap(c, m) /\ NewCap(c, k) \in Nat
           /\ m <= Twice(c) => \A k \in Nat : k <= m => NewCap(c, k) = NewCap(c, m)
<1> DEFINE cap(k) == IF Twice(c) < k THEN k ELSE Twice(c)
           least(k) == IF cap(k) > MaxFileSize THEN MaxFileSize ELSE cap(k)
<1>1. /\ MaxFileSize \in Nat /\ FirstCap \in Nat \ {0} /\ c \in Nat
      /\ c <= MaxFileSize /\ (c = 0 \/ c >= FirstCap \/ c = MaxFileSize)
  BY PoolAssumption DEF CapOk
<1>2. Twice(c) \in Nat /\ (Twice(c) >= FirstCap \/ Twice(c) >= MaxFileSize)
  BY <1>1 DEF Twice
<1>3. \A k \in Nat : NewCap(c, k) = AlignUp(least(k))
  BY DEF NewCap, Twice
<1>4. \A k \in Nat : /\ least(k) \in Nat /\ least(k) <= MaxFileSize
                     /\ (least(k) >= FirstCap \/ least(k) = MaxFileSize)
                     /\ k <= m => least(k) <= least(m)
                     /\ k <= m /\ m <= Twice(c) => least(k) = least(m)
  BY <1>1, <1>2
<1> HIDE DEF least
<1>5. CapOk(NewCap(c, m))
  <2>1. PICK l \in Nat : l = least(m)
    BY <1>4
  <2>2. AlignUp(l) \in Nat /\ AlignUp(l) >= l
    BY AlignUpIs
  <2>3. AlignUp(l) <= MaxFileSize
    BY <1>1, <1>4, <2>1, AlignUpMonotone, AlignUpLargest
  <2>4. l >= FirstCap \/ l = MaxFileSize
    BY <1>4, <2>1
  <2>5. CapOk(AlignUp(l))
    BY <1>1, <2>2, <2>3, <2>4 DEF CapOk
  <2> QED BY <1>3, <2>1, <2>5
<1>6. ASSUME NEW k \in Nat, k <= m
      PROVE  NewCap(c, k) <= NewCap(c, m) /\ NewCap(c, k) \in Nat
  BY <1>3, <1>4, <1>6, AlignUpMonotone
<1>7. ASSUME m <= Twice(c), NEW k \in Nat, k <= m
      PROVE  NewCap(c, k) = NewCap(c, m)
  BY <1>3, <1>4, <1>7
<1> QED BY <1>5, <1>6, <1>7

\* Where a new or an enlarged block begins.
BlockStart(s) == IF IsNewest(s) THEN ramfs_inodes[s].data ELSE ramfs_pool_used

LEMMA ReserveOk ==
    ASSUME NEW s, NEW k
    PROVE  LET c == ramfs_inodes[s].capacity
               r == Reserve(s, k)
           IN  /\ r.ok <=> (k <= c \/ BlockStart(s) + NewCap(c, k) <= PoolSize)
               /\ r.capacity = IF ~(k <= c) /\ BlockStart(s) + NewCap(c, k) <= PoolSize
                               THEN NewCap(c, k) ELSE c
<1> DEFINE nd == ramfs_inodes[s]
           cap == NewCap(nd.capacity, k)
           start == BlockStart(s)
           r == Reserve(s, k)
<1>0. r = IF k <= nd.capacity
          THEN [ok |-> TRUE, data |-> nd.data, capacity |-> nd.capacity, used |-> ramfs_pool_used]
          ELSE IF start + cap <= PoolSize
          THEN [ok |-> TRUE, data |-> start, capacity |-> cap, used |-> start + cap]
          ELSE [ok |-> FALSE, data |-> nd.data, capacity |-> nd.capacity, used |-> ramfs_pool_used]
  BY DEF Reserve, BlockStart
<1> HIDE DEF nd, cap, start, r
<1>1. CASE k <= nd.capacity
  <2>1. r = [ok |-> TRUE, data |-> nd.data, capacity |-> nd.capacity, used |-> ramfs_pool_used]
    BY <1>0, <1>1
  <2> QED BY <1>1, <2>1 DEF nd, cap, start, r
<1>2. CASE ~(k <= nd.capacity) /\ start + cap <= PoolSize
  <2>1. r = [ok |-> TRUE, data |-> start, capacity |-> cap, used |-> start + cap]
    BY <1>0, <1>2
  <2> QED BY <1>2, <2>1 DEF nd, cap, start, r
<1>3. CASE ~(k <= nd.capacity) /\ ~(start + cap <= PoolSize)
  <2>1. r = [ok |-> FALSE, data |-> nd.data, capacity |-> nd.capacity, used |-> ramfs_pool_used]
    BY <1>0, <1>3
  <2> QED BY <1>3, <2>1 DEF nd, cap, start, r
<1> QED BY <1>1, <1>2, <1>3

CapInv == \A s \in Slots : CapOk(ramfs_inodes[s].capacity)

LEMMA CapPut ==
    ASSUME CapInv, NEW s \in Slots, NEW r, Put(s, r), CapOk(r.capacity)
    PROVE  CapInv'
<1>1. \A t \in Slots : CapOk(ramfs_inodes'[t].capacity)
  <2> SUFFICES ASSUME NEW t \in Slots PROVE CapOk(ramfs_inodes'[t].capacity)
    OBVIOUS
  <2>1. CASE t = s BY <2>1 DEF Put
  <2>2. CASE t # s BY <2>2 DEF Put, CapInv
  <2> QED BY <2>1, <2>2
<1> QED BY <1>1 DEF CapInv, CapOk

LEMMA CapWrites ==
    ASSUME RamInv, CapInv, NEW f \in Fds, NEW s \in Slots, NEW off \in Nat, NEW buf \in Seq(Nat),
           Writes(f, s, off, buf)
    PROVE  CapInv'
<1>1. PICK n : n = Stored(s, off, buf)
  OBVIOUS
<1>2. PICK k : k = off + Want(off, buf)
  OBVIOUS
<1>3. PICK r : r = Reserve(s, k)
  OBVIOUS
<1> DEFINE x == ramfs_inodes[s]
           y == InodeRec(x.ino, x.type, x.name, IF off + n > x.size THEN off + n ELSE x.size,
                         x.parent, r.data, r.capacity)
<1>4. s \in Files /\ Put(s, y)
  BY <1>1, <1>2, <1>3, WritesIs
<1>5. k \in Nat /\ k <= MaxFileSize
  BY <1>2, <1>4, StoredIs DEF RamInv, Writes
<1>6. CapOk(x.capacity)
  BY DEF CapInv
<1>7. r.capacity \in {x.capacity, NewCap(x.capacity, k)}
  BY <1>3, ReserveOk
<1>8. CapOk(NewCap(x.capacity, k))
  BY <1>5, <1>6, NewCapBounds
<1>9. y.capacity = r.capacity
  BY RecFields
<1> HIDE DEF x, y
<1>10. CapOk(y.capacity)
  BY <1>6, <1>7, <1>8, <1>9
<1> QED BY <1>4, <1>10, CapPut

LEMMA CapStep ==
    ASSUME NEW C, NEW B \in SUBSET Seq(Nat), RamInv, CapInv, Effect(C, B)
    PROVE  CapInv'
<1>0. RamType BY DEF RamInv
<1>z. CapOk(0)
  BY PoolAssumption DEF CapOk
<1>1. CASE UNCHANGED ramfs_inodes
  BY <1>1 DEF CapInv, CapOk
<1>2. ASSUME NEW s \in Slots, Frees(s) PROVE CapInv'
  <2>1. Put(s, FreeInode)
    BY <1>0, <1>2, PutIs DEF Frees
  <2>2. FreeInode.capacity = 0
    BY DEF FreeInode
  <2> QED BY <1>z, <2>1, <2>2, CapPut
<1>3. ASSUME NEW s \in Slots, Opens(s) PROVE CapInv'
  <2>1. CASE ramfs_inodes' = [ramfs_inodes EXCEPT ![s].size = 0]
    <3> DEFINE x == ramfs_inodes[s]
               y == InodeRec(x.ino, x.type, x.name, 0, x.parent, x.data, x.capacity)
    <3>1. Put(s, y)
      BY <1>0, <2>1, PutSize
    <3>2. y.capacity = x.capacity
      BY RecFields
    <3>3. CapOk(x.capacity)
      BY DEF CapInv
    <3> HIDE DEF x, y
    <3>4. CapOk(y.capacity)
      BY <3>2, <3>3
    <3> QED BY <3>1, <3>4, CapPut
  <2> QED BY <1>1, <1>3, <2>1 DEF Opens
<1>4. ASSUME NEW p, NEW type, Makes(p, type) PROVE CapInv'
  <2> DEFINE u == FindFreeInode
             r == NewInode(p, type)
  <2>1. u \in Slots BY <1>4, FindFreeInodeIs DEF Makes, CanCreate
  <2>2. r.capacity = 0 BY NewInodeIs, RecFields
  <2>3. ramfs_inodes' = [ramfs_inodes EXCEPT ![u] = r] BY <1>4 DEF Makes, Create
  <2> HIDE DEF u, r
  <2>4. Put(u, r) BY <1>0, <2>1, <2>3, PutIs
  <2>5. CapOk(r.capacity) BY <1>z, <2>2
  <2> QED BY <2>1, <2>4, <2>5, CapPut
<1>5. ASSUME NEW f \in Fds, NEW s \in Slots, NEW off \in Nat, NEW buf \in B,
             Writes(f, s, off, buf)
      PROVE  CapInv'
  <2>1. buf \in Seq(Nat)
    OBVIOUS
  <2> QED BY <1>5, <2>1, CapWrites
<1>6. CASE Quiet
  BY <1>1, <1>6 DEF Quiet, fsVars
<1>7. ASSUME NEW f \in Fds, Closes(f) \/ \E pos \in Nat : Moves(f, pos)
      PROVE  CapInv'
  BY <1>1, <1>7 DEF Closes, Moves, fsVars
<1> QED BY <1>2, <1>3, <1>4, <1>5, <1>6, <1>7 DEF Effect

\* A file that cannot grow to k bytes cannot grow further.
LEMMA StillFull ==
    ASSUME RamInv, CapInv, NEW s \in Slots, NEW k \in Nat, NEW m \in Nat, k <= m, m <= MaxFileSize,
           ~Reserve(s, k).ok
    PROVE  ~Reserve(s, m).ok /\ ramfs_inodes[s].capacity < k
<1>1. PICK c : c = ramfs_inodes[s].capacity
  OBVIOUS
<1>2. CapOk(c) /\ c \in Nat
  BY <1>1 DEF CapInv, CapOk
<1>3. NewCap(c, k) <= NewCap(c, m) /\ NewCap(c, k) \in Nat /\ NewCap(c, m) \in Nat
  BY <1>2, NewCapBounds DEF CapOk
<1>4. BlockStart(s) \in Int /\ PoolSize \in Int
  BY PoolAssumption DEF BlockStart, RamInv, RamType, InodeType
<1>5. ~(k <= c) /\ ~(BlockStart(s) + NewCap(c, k) <= PoolSize)
  BY <1>1, ReserveOk
<1>6. ~(m <= c) /\ ~(BlockStart(s) + NewCap(c, m) <= PoolSize)
  BY <1>2, <1>3, <1>4, <1>5
<1>7. c < k
  BY <1>2, <1>5
<1> QED BY <1>1, <1>6, <1>7, ReserveOk

\* A file that cannot grow to the end of a piece cannot grow at all.
LEMMA NoRoom ==
    ASSUME RamInv, CapInv, NEW s \in Slots, NEW k \in Nat, k <= MaxFileSize,
           k <= ramfs_inodes[s].capacity + FirstCap, ~Reserve(s, k).ok
    PROVE  LET c == ramfs_inodes[s].capacity
           IN  c = MaxFileSize \/ ~Reserve(s, c + 1).ok
<1>1. PICK c : c = ramfs_inodes[s].capacity
  OBVIOUS
<1>2. CapOk(c) /\ c \in Nat /\ (c = 0 \/ c >= FirstCap \/ c = MaxFileSize) /\ FirstCap \in Nat
  BY <1>1, PoolAssumption DEF CapInv, CapOk
<1>3. CASE c = MaxFileSize
  BY <1>1, <1>3
<1>4. CASE c # MaxFileSize
  <2>1. ~(k <= c) /\ ~(BlockStart(s) + NewCap(c, k) <= PoolSize)
    BY <1>1, ReserveOk
  <2>2. k <= Twice(c) /\ c + 1 <= k
    BY <1>1, <1>2, <1>4, <2>1 DEF Twice
  <2>3. NewCap(c, c + 1) = NewCap(c, k)
    BY <1>2, <2>2, NewCapBounds
  <2>4. ~(c + 1 <= c)
    BY <1>2
  <2>5. ~Reserve(s, c + 1).ok
    BY <1>1, <2>1, <2>3, <2>4, ReserveOk
  <2> QED BY <1>1, <2>5
<1> QED BY <1>3, <1>4

-----------------------------------------------------------------------------
(* Functions that go along a sequence.                                        *)

\* Induction on a set: what holds at 0 and goes on, holds everywhere.
LEMMA SetInduction ==
    ASSUME NEW S \in SUBSET Nat, 0 \in S, \A n \in S : n + 1 \in S
    PROVE  \A n \in Nat : n \in S
<1> SUFFICES ASSUME Nat \ S # {} PROVE FALSE
  OBVIOUS
<1>1. PICK m \in Nat \ S : \A k \in Nat \ S : m <= k
  BY Smallest
<1>2. m # 0 /\ m - 1 \in Nat /\ ~(m <= m - 1)
  OBVIOUS
<1>3. m - 1 \in S
  BY <1>1, <1>2
<1>4. (m - 1) + 1 = m
  OBVIOUS
<1> QED BY <1>3, <1>4

\* A step that stays in S gives a function on 0 .. n.
IsWalk(f, n, S, start, step) ==
    f \in [0 .. n -> S] /\ f[0] = start /\ \A k \in 1 .. n : f[k] = step[f[k - 1]][k]

LEMMA WalkExists ==
    ASSUME NEW n \in Nat, NEW S, NEW start \in S, NEW step \in [S -> [1 .. n -> S]]
    PROVE  \E f : IsWalk(f, n, S, start, step)
<1> DEFINE Good(m, f) == f[0] = start /\ \A k \in 1 .. m : f[k] = step[f[k - 1]][k]
           M == {m \in Nat : m <= n => \E f \in [0 .. m -> S] : Good(m, f)}
<1>1. 0 \in M
  <2> DEFINE f == [k \in 0 .. 0 |-> start]
  <2>1. f \in [0 .. 0 -> S] /\ Good(0, f)
    OBVIOUS
  <2> QED BY <2>1
<1>2. ASSUME NEW m \in M PROVE m + 1 \in M
  <2>0. m \in Nat /\ m + 1 \in Nat
    BY <1>2
  <2> SUFFICES ASSUME m + 1 <= n PROVE \E f \in [0 .. m + 1 -> S] : Good(m + 1, f)
    BY <2>0, Zenon
  <2>1. m \in Nat /\ m <= n /\ m + 1 \in 1 .. n
    BY <1>2
  <2>2. PICK f \in [0 .. m -> S] : Good(m, f)
    BY <1>2, <2>1
  <2> DEFINE g == [k \in 0 .. m + 1 |-> IF k = m + 1 THEN step[f[m]][m + 1] ELSE f[k]]
  <2>3. f[m] \in S /\ step[f[m]][m + 1] \in S
    BY <2>1
  <2>4. g \in [0 .. m + 1 -> S]
    BY <2>1, <2>3
  <2>5. ASSUME NEW k \in 1 .. m + 1 PROVE g[k] = step[g[k - 1]][k]
    <3>1. CASE k = m + 1
      BY <3>1, <2>1
    <3>2. CASE k # m + 1
      <4>1. k \in 1 .. m /\ k - 1 \in 0 .. m /\ k - 1 # m + 1 /\ k - 1 \in 0 .. m + 1
        BY <3>2, <2>1
      <4> QED BY <4>1, <3>2, <2>2
    <3> QED BY <3>1, <3>2
  <2>6. g[0] = start
    BY <2>1, <2>2
  <2> QED BY <2>4, <2>5, <2>6
<1>3. M \in SUBSET Nat
  OBVIOUS
<1> HIDE DEF M
<1>4. n \in M
  BY <1>1, <1>2, <1>3, SetInduction
<1>5. PICK f \in [0 .. n -> S] : Good(n, f)
  BY <1>4 DEF M
<1>6. IsWalk(f, n, S, start, step)
  BY <1>5 DEF IsWalk
<1> QED BY <1>6

\* A property that holds at the start and that the steps keep holds all along.
LEMMA WalkKeeps ==
    ASSUME NEW n \in Nat, NEW R,
           0 \in R, \A k \in 1 .. n : k - 1 \in R => k \in R
    PROVE  \A k \in 0 .. n : k \in R
<1> DEFINE M == {m \in Nat : m <= n => m \in R}
<1>1. 0 \in M
  OBVIOUS
<1>2. ASSUME NEW m \in M PROVE m + 1 \in M
  <2> SUFFICES ASSUME m + 1 <= n PROVE m + 1 \in R
    BY <1>2
  <2>1. m \in Nat /\ m <= n /\ m + 1 \in 1 .. n /\ (m + 1) - 1 = m
    BY <1>2
  <2> QED BY <1>2, <2>1
<1>3. M \in SUBSET Nat
  OBVIOUS
<1> HIDE DEF M
<1>4. \A m \in Nat : m \in M
  BY <1>1, <1>2, <1>3, SetInduction
<1> QED BY <1>4 DEF M

-----------------------------------------------------------------------------
(* The text of write.                                                       *)

\* The line up to each word.
LineUpto(T, words) ==
    /\ T \in [0 .. Len(words) -> Seq(Nat)] /\ T[0] = << >>
    /\ \A k \in 1 .. Len(words) :
          T[k] = IF k = 1 THEN words[1] ELSE T[k - 1] \o <<Blank>> \o words[k]

LEMMA LineExists ==
    ASSUME NEW words \in Seq(Seq(Nat)), Blank \in Nat
    PROVE  \E T : LineUpto(T, words) /\ Line(words) = T[Len(words)]
<1> DEFINE n == Len(words)
           S == Seq(Nat)
           next(t, k) == IF k = 1 THEN words[1] ELSE t \o <<Blank>> \o words[k]
           G(f) == [k \in 0 .. n |-> IF k = 0 THEN << >>
                                     ELSE IF k = 1 THEN words[1]
                                     ELSE f[k - 1] \o <<Blank>> \o words[k]]
           step == [t \in S |-> [k \in 1 .. n |-> next(t, k)]]
           walk == CHOOSE f : f = G(f)
<1>1. n \in Nat /\ \A k \in 1 .. n : words[k] \in S
  OBVIOUS
<1>2. << >> \in S /\ <<Blank>> \in S
  OBVIOUS
<1>3. Line(words) = walk[n]
  BY Zenon DEF Line
<1>4. ASSUME NEW t \in S, NEW k \in 1 .. n PROVE next(t, k) \in S
  <2>1. words[k] \in S
    BY <1>1
  <2>2. t \o <<Blank>> \in S
    BY <1>2
  <2>3. (t \o <<Blank>>) \o words[k] \in S
    BY <2>1, <2>2
  <2>4. k = 1 => words[1] \in S
    BY <2>1
  <2> QED BY <2>3, <2>4
<1> HIDE DEF n, S
<1>6. step \in [S -> [1 .. n -> S]]
  <2> HIDE DEF next
  <2> QED BY <1>4
<1>7. PICK f : /\ f \in [0 .. n -> S] /\ f[0] = << >>
               /\ \A k \in 1 .. n : f[k] = step[f[k - 1]][k]
  <2> HIDE DEF step
  <2>1. PICK m, st, none : m = n /\ st = step /\ none = << >>
    OBVIOUS
  <2>2. m \in Nat /\ none \in S /\ st \in [S -> [1 .. m -> S]]
    BY <2>1, <1>1, <1>2, <1>6
  <2>3. PICK f : IsWalk(f, m, S, none, st)
    BY ONLY <2>2, WalkExists
  <2>4. f \in [0 .. m -> S] /\ f[0] = none /\ \A k \in 1 .. m : f[k] = st[f[k - 1]][k]
    BY <2>3, Zenon DEF IsWalk
  <2>5. f \in [0 .. n -> S] /\ f[0] = << >> /\ \A k \in 1 .. n : f[k] = step[f[k - 1]][k]
    BY <2>1, <2>4, Zenon
  <2> QED BY <2>5, Zenon
<1>8. ASSUME NEW k \in 1 .. n PROVE f[k] = next(f[k - 1], k)
  <2>1. k - 1 \in 0 .. n
    BY <1>1
  <2>2. f[k - 1] \in S
    BY <2>1, <1>7
  <2> HIDE DEF next
  <2> QED BY <2>2, <1>7
<1>9. f = G(f)
  <2>1. ASSUME NEW k \in 0 .. n PROVE f[k] = G(f)[k]
    <3>1. CASE k = 0
      BY <3>1, <1>7
    <3>2. CASE k # 0
      <4>1. k \in 1 .. n
        BY <3>2, <1>1
      <4>2. G(f)[k] = next(f[k - 1], k)
        BY <3>2, Zenon
      <4> HIDE DEF next, G
      <4> QED BY <4>1, <4>2, <1>8
    <3> QED BY <3>1, <3>2
  <2>2. f = [k \in 0 .. n |-> f[k]] /\ G(f) = [k \in 0 .. n |-> G(f)[k]]
    BY <1>7
  <2> HIDE DEF G
  <2> QED BY <2>1, <2>2, Zenon
<1>10. walk = G(walk)
  BY <1>9, Zenon DEF walk
<1> HIDE DEF walk
<1> DEFINE R == {k \in 0 .. n : walk[k] \in S}
<1>11. walk[0] = << >> /\ \A k \in 1 .. n : walk[k] = next(walk[k - 1], k)
  <2>1. 0 \in 0 .. n /\ \A k \in 1 .. n : k \in 0 .. n /\ k # 0
    BY <1>1
  <2>2. ASSUME NEW k \in 0 .. n
        PROVE  walk[k] = IF k = 0 THEN << >> ELSE next(walk[k - 1], k)
    BY <1>10, Zenon
  <2> HIDE DEF next
  <2> QED BY <2>1, <2>2
<1>12. 0 \in R
  BY <1>1, <1>2, <1>11
<1>13. ASSUME NEW k \in 1 .. n, k - 1 \in R PROVE k \in R
  <2>1. walk[k - 1] \in S /\ k \in 0 .. n
    BY <1>1, <1>13
  <2> HIDE DEF next
  <2> QED BY <1>4, <1>11, <2>1
<1>14. \A k \in 0 .. n : k \in R
  <2> HIDE DEF R
  <2> QED BY ONLY <1>1, <1>12, <1>13, WalkKeeps
<1>15. walk \in [0 .. n -> S]
  <2>1. walk = [k \in 0 .. n |-> walk[k]]
    BY <1>10, Zenon
  <2> QED BY <1>14, <2>1
<1>16. LineUpto(walk, words)
  BY <1>11, <1>15 DEF LineUpto, n, S
<1> QED BY <1>3, <1>16 DEF n

\* What was given to write before the j-th piece and with it.
GivenTo(T, j) ==
    IF j = 0 THEN << >> ELSE IF j % 2 = 1 THEN T[(j + 1) \div 2] ELSE T[j \div 2] \o <<Blank>>

\* What a piece is.
IsPiece(b) == b \in Seq(Nat) /\ b # << >> /\ Len(b) \in 1 .. FirstCap

LEMMA Halves ==
    ASSUME NEW i \in Nat
    PROVE  /\ (2 * i) % 2 = 0 /\ (2 * i) \div 2 = i
           /\ (2 * i + 1) % 2 = 1 /\ ((2 * i + 1) + 1) \div 2 = i + 1
  OBVIOUS

LEMMA PieceAt ==
    ASSUME NEW t \in Texts, NEW k \in 1 .. 2 * Len(t) - 1
    PROVE  /\ Pieces(t) \in Seq(Seq(Nat)) /\ Len(Pieces(t)) = 2 * Len(t) - 1
           /\ Pieces(t)[k] = IF k % 2 = 1 THEN t[(k + 1) \div 2] ELSE <<Blank>>
           /\ IsPiece(Pieces(t)[k])
<1> DEFINE n == 2 * Len(t) - 1
           v(j) == IF j % 2 = 1 THEN t[(j + 1) \div 2] ELSE <<Blank>>
<1>1. t \in Seq(Seq(Nat)) /\ Len(t) \in Nat /\ Len(t) > 0 /\ Blank \in Nat /\ FirstCap \in Nat \ {0}
  BY TextAssumption, PoolAssumption
<1>2. n \in Nat /\ n > 0
  BY <1>1
<1>3. ASSUME NEW j \in 1 .. n PROVE IsPiece(v(j))
  <2>1. CASE j % 2 = 1
    <3>1. (j + 1) \div 2 \in 1 .. Len(t)
      BY <1>1
    <3>2. PICK h : h = (j + 1) \div 2
      OBVIOUS
    <3>3. h \in DOMAIN t /\ t[h] \in Seq(Nat)
      BY <1>1, <3>1, <3>2
    <3>4. t[h] # << >> /\ Len(t[h]) <= FirstCap
      BY <3>3, TextAssumption
    <3>5. v(j) = t[h]
      BY <2>1, <3>2
    <3>6. IsPiece(t[h])
      BY <1>1, <3>3, <3>4 DEF IsPiece
    <3> QED BY <3>5, <3>6
  <2>2. CASE j % 2 # 1
    <3>1. IsPiece(<<Blank>>)
      BY <1>1 DEF IsPiece
    <3> QED BY <2>2, <3>1
  <2> QED BY <2>1, <2>2
<1>4. Pieces(t) = [j \in 1 .. n |-> v(j)]
  BY DEF Pieces
<1> HIDE DEF n, v
<1>5. \A j \in 1 .. n : v(j) \in Seq(Nat)
  BY <1>3 DEF IsPiece
<1>6. Pieces(t) \in Seq(Seq(Nat)) /\ Len(Pieces(t)) = n
  BY <1>2, <1>4, <1>5
<1>7. k \in 1 .. n
  BY DEF n
<1>8. Pieces(t)[k] = v(k)
  BY <1>4, <1>7
<1>9. IsPiece(Pieces(t)[k])
  BY <1>3, <1>7, <1>8
<1> QED BY <1>6, <1>8, <1>9 DEF n, v

LEMMA GivenIs ==
    ASSUME NEW t \in Texts, NEW T, LineUpto(T, t)
    PROVE  /\ GivenTo(T, 0) = << >>
           /\ \A j \in 0 .. 2 * Len(t) - 1 : GivenTo(T, j) \in Seq(Nat)
           /\ \A j \in 0 .. 2 * Len(t) - 2 : GivenTo(T, j + 1) = GivenTo(T, j) \o Pieces(t)[j + 1]
           /\ GivenTo(T, 2 * Len(t) - 1) = T[Len(t)]
<1>1. /\ t \in Seq(Seq(Nat)) /\ Len(t) \in Nat /\ Len(t) > 0 /\ Blank \in Nat
      /\ \A k \in 1 .. Len(t) : t[k] \in Seq(Nat)
  BY TextAssumption
<1>2. /\ T \in [0 .. Len(t) -> Seq(Nat)]
      /\ \A k \in 1 .. Len(t) : T[k] = IF k = 1 THEN t[1] ELSE T[k - 1] \o <<Blank>> \o t[k]
  BY DEF LineUpto
<1>3. PICK n \in Nat : n = Len(t) /\ n > 0
  BY <1>1
<1>4. GivenTo(T, 0) = << >>
  BY DEF GivenTo
<1>5. ASSUME NEW i \in Nat, i + 1 <= n
      PROVE  GivenTo(T, 2 * i + 1) = T[i + 1]
  <2>1. 2 * i + 1 # 0 /\ (2 * i + 1) % 2 = 1 /\ ((2 * i + 1) + 1) \div 2 = i + 1
    BY Halves
  <2> QED BY <2>1 DEF GivenTo
<1>6. ASSUME NEW i \in Nat, i > 0
      PROVE  GivenTo(T, 2 * i) = T[i] \o <<Blank>>
  <2>1. PICK j : j = 2 * i
    OBVIOUS
  <2>2. j # 0 /\ j % 2 = 0 /\ j \div 2 = i
    BY <1>6, <2>1, Halves
  <2>3. j % 2 # 1
    BY <2>2
  <2>4. GivenTo(T, j) = T[j \div 2] \o <<Blank>>
    BY <2>2, <2>3, Zenon DEF GivenTo
  <2> QED BY <2>1, <2>2, <2>4
<1>7. ASSUME NEW j \in Nat PROVE \E i \in Nat : j = 2 * i \/ j = 2 * i + 1
  <2>1. j \div 2 \in Nat /\ (j = 2 * (j \div 2) \/ j = 2 * (j \div 2) + 1)
    OBVIOUS
  <2> QED BY <2>1
<1>8. ASSUME NEW j \in 0 .. 2 * n - 1 PROVE GivenTo(T, j) \in Seq(Nat)
  <2>a. j \in Nat
    BY <1>3
  <2>1. PICK i \in Nat : j = 2 * i \/ j = 2 * i + 1
    BY <1>7, <2>a
  <2>2. CASE j = 2 * i /\ i = 0
    <3>1. << >> \in Seq(Nat) /\ j = 0
      BY <2>2
    <3> QED BY <1>4, <3>1, Zenon
  <2>3. CASE j = 2 * i /\ i # 0
    <3>1. i \in 0 .. Len(t) /\ i > 0
      BY <1>3, <2>3
    <3>2. T[i] \in Seq(Nat)
      BY <1>2, <3>1
    <3>4. <<Blank>> \in Seq(Nat)
      BY <1>1
    <3>3. T[i] \o <<Blank>> \in Seq(Nat)
      BY <3>2, <3>4
    <3> QED BY <1>6, <2>3, <3>1, <3>3
  <2>4. CASE j = 2 * i + 1
    <3>1. i + 1 \in 0 .. Len(t) /\ i + 1 <= n
      BY <1>3, <2>4
    <3> QED BY <1>2, <1>5, <2>4, <3>1
  <2> QED BY <2>1, <2>2, <2>3, <2>4
<1>9. ASSUME NEW j \in 0 .. 2 * n - 2
      PROVE  GivenTo(T, j + 1) = GivenTo(T, j) \o Pieces(t)[j + 1]
  <2>a. j \in Nat
    BY <1>3
  <2>1. PICK i \in Nat : j = 2 * i \/ j = 2 * i + 1
    BY <1>7, <2>a
  <2>0. j + 1 \in 1 .. 2 * Len(t) - 1
    BY <1>3
  <2>2. CASE j = 2 * i
    <3>1. j + 1 = 2 * i + 1 /\ i + 1 <= n /\ i + 1 \in 1 .. Len(t)
      BY <1>3, <2>2
    <3>2. Pieces(t)[j + 1] = t[i + 1]
      <4>1. (2 * i + 1) % 2 = 1 /\ ((2 * i + 1) + 1) \div 2 = i + 1
        BY Halves
      <4> QED BY <2>0, <3>1, <4>1, PieceAt
    <3>3. GivenTo(T, j + 1) = T[i + 1] /\ t[i + 1] \in Seq(Nat)
      BY <1>1, <1>5, <3>1
    <3>4. CASE i = 0
      <4>1. T[i + 1] = t[i + 1]
        BY <1>2, <3>1, <3>4
      <4>2. << >> \o t[i + 1] = t[i + 1]
        BY <3>3
      <4> QED BY <1>4, <2>2, <3>2, <3>3, <3>4, <4>1, <4>2
    <3>5. CASE i # 0
      <4>1. i + 1 # 1 /\ (i + 1) - 1 = i
        BY <3>5
      <4>2. T[i + 1] = T[i] \o <<Blank>> \o t[i + 1]
        BY <1>2, <3>1, <4>1
      <4>4. i > 0
        BY <3>5
      <4>3. GivenTo(T, j) = T[i] \o <<Blank>>
        BY <1>6, <2>2, <4>4
      <4> QED BY <3>2, <3>3, <4>2, <4>3
    <3> QED BY <3>4, <3>5
  <2>3. CASE j = 2 * i + 1
    <3>1. j + 1 = 2 * (i + 1) /\ i + 1 \in Nat /\ i + 1 > 0 /\ i + 1 <= n
      BY <1>3, <2>3
    <3>2. Pieces(t)[j + 1] = <<Blank>>
      <4>1. (2 * (i + 1)) % 2 = 0
        BY <3>1, Halves
      <4>2. (j + 1) % 2 # 1
        BY <3>1, <4>1
      <4> QED BY <2>0, <4>2, PieceAt
    <3>3. GivenTo(T, j + 1) = T[i + 1] \o <<Blank>>
      BY <1>6, <3>1
    <3>4. GivenTo(T, j) = T[i + 1]
      BY <1>5, <2>3, <3>1
    <3> QED BY <3>2, <3>3, <3>4
  <2> QED BY <2>1, <2>2, <2>3
<1>10. GivenTo(T, 2 * n - 1) = T[n]
  <2>1. n - 1 \in Nat /\ (n - 1) + 1 <= n /\ 2 * (n - 1) + 1 = 2 * n - 1 /\ (n - 1) + 1 = n
    BY <1>3
  <2>2. GivenTo(T, 2 * (n - 1) + 1) = T[(n - 1) + 1]
    BY <1>5, <2>1
  <2> QED BY <2>1, <2>2
<1> QED BY <1>3, <1>4, <1>8, <1>9, <1>10

\* The first o bytes of g over the beginning of old.
Patched(g, o, old) ==
    [k \in 1 .. (IF o < Len(old) THEN Len(old) ELSE o) |-> IF k <= o THEN g[k] ELSE old[k]]

LEMMA PatchedIs ==
    ASSUME NEW g \in Seq(Nat), NEW old \in Seq(Nat), NEW o \in Nat, o <= Len(g)
    PROVE  Patched(g, o, old) = SubSeq(g, 1, o) \o SubSeq(old, o + 1, Len(old))
<1> DEFINE a == SubSeq(g, 1, o)
           b == SubSeq(old, o + 1, Len(old))
<1>1. Len(g) \in Nat /\ Len(old) \in Nat
  OBVIOUS
<1>2. a \in Seq(Nat) /\ Len(a) = o /\ \A k \in 1 .. o : a[k] = g[k]
  OBVIOUS
<1>3. CASE o < Len(old)
  <2>1. b = [i \in 1 .. (1 + Len(old) - (o + 1)) |-> old[i + (o + 1) - 1]]
    <3>1. o + 1 \in Int /\ Len(old) \in Int
      BY <1>1
    <3> QED BY <3>1, SubSeqIs
  <2>2. b \in Seq(Nat) /\ Len(b) = Len(old) - o
    BY <1>1, <1>3
  <2>3. \A k \in 1 .. Len(old) - o : b[k] = old[o + k]
    <3> SUFFICES ASSUME NEW k \in 1 .. Len(old) - o PROVE b[k] = old[o + k]
      OBVIOUS
    <3>1. k \in 1 .. (1 + Len(old) - (o + 1)) /\ k + (o + 1) - 1 = o + k
      BY <1>1
    <3> HIDE DEF b
    <3> QED BY <2>1, <3>1
  <2> HIDE DEF a, b
  <2>4. PICK ab : ab = a \o b
    OBVIOUS
  <2>5. ab \in Seq(Nat) /\ Len(ab) = Len(old)
    <3>1. Len(a \o b) = Len(a) + Len(b) /\ a \o b \in Seq(Nat)
      BY <1>2, <2>2, ConcatProperties
    <3>2. o + (Len(old) - o) = Len(old)
      BY <1>1
    <3> QED BY <1>2, <2>2, <2>4, <3>1, <3>2
  <2>9. ab = [k \in 1 .. Len(old) |-> ab[k]]
    BY <2>5
  <2>10. ASSUME NEW k \in 1 .. Len(old) PROVE ab[k] = IF k <= o THEN a[k] ELSE b[k - o]
    <3>1. k \in 1 .. Len(a) + Len(b)
      BY <1>1, <1>2, <2>2
    <3>2. (a \o b)[k] = IF k <= Len(a) THEN a[k] ELSE b[k - Len(a)]
      BY <1>2, <2>2, <3>1, ConcatProperties
    <3> QED BY <1>2, <2>4, <3>2
  <2>6. a \o b = [k \in 1 .. Len(old) |-> IF k <= o THEN a[k] ELSE b[k - o]]
    BY <2>4, <2>9, <2>10
  <2>7. ASSUME NEW k \in 1 .. Len(old)
        PROVE  (IF k <= o THEN a[k] ELSE b[k - o]) = IF k <= o THEN g[k] ELSE old[k]
    <3>1. CASE k <= o
      BY <1>2, <3>1
    <3>2. CASE ~(k <= o)
      <4>1. k - o \in 1 .. Len(old) - o /\ o + (k - o) = k
        BY <1>1, <3>2
      <4> QED BY <2>3, <3>2, <4>1
    <3> QED BY <3>1, <3>2
  <2>8. Patched(g, o, old) = [k \in 1 .. Len(old) |-> IF k <= o THEN g[k] ELSE old[k]]
    BY <1>3 DEF Patched
  <2> QED BY <2>6, <2>7, <2>8 DEF a, b
<1>4. CASE ~(o < Len(old))
  <2>1. b = << >>
    BY <1>1, <1>4
  <2>2. a \o << >> = a
    BY <1>2
  <2>3. a = [k \in 1 .. o |-> g[k]]
    OBVIOUS
  <2>4. Patched(g, o, old) = [k \in 1 .. o |-> IF k <= o THEN g[k] ELSE old[k]]
    BY <1>4 DEF Patched
  <2>5. \A k \in 1 .. o : (IF k <= o THEN g[k] ELSE old[k]) = g[k]
    OBVIOUS
  <2>6. Patched(g, o, old) = a
    <3> HIDE DEF a
    <3> QED BY <2>3, <2>4, <2>5
  <2> QED BY <2>1, <2>2, <2>6
<1> QED BY <1>3, <1>4

LEMMA PatchedNone ==
    ASSUME NEW g, NEW old \in Seq(Nat)
    PROVE  Patched(g, 0, old) = old
<1>1. Len(old) \in Nat /\ old = [k \in 1 .. Len(old) |-> old[k]]
  OBVIOUS
<1>2. (IF 0 < Len(old) THEN Len(old) ELSE 0) = Len(old)
  BY <1>1
<1>3. \A k \in 1 .. Len(old) : ~(k <= 0)
  OBVIOUS
<1> QED BY <1>1, <1>2, <1>3 DEF Patched

\* More text that is not stored.
LEMMA PatchedMore ==
    ASSUME NEW g \in Seq(Nat), NEW b \in Seq(Nat), NEW old \in Seq(Nat), NEW o \in Nat, o <= Len(g)
    PROVE  Patched(g \o b, o, old) = Patched(g, o, old)
<1>1. PICK n : n = IF o < Len(old) THEN Len(old) ELSE o
  OBVIOUS
<1>2. n \in Nat
  BY <1>1
<1>3. ASSUME NEW k \in 1 .. n, k <= o PROVE (g \o b)[k] = g[k]
  BY <1>2, <1>3
<1>4. PICK h : h = g \o b
  OBVIOUS
<1>5. \A k \in 1 .. n : k <= o => h[k] = g[k]
  BY <1>3, <1>4
<1>6. /\ Patched(h, o, old) = [k \in 1 .. n |-> IF k <= o THEN h[k] ELSE old[k]]
      /\ Patched(g, o, old) = [k \in 1 .. n |-> IF k <= o THEN g[k] ELSE old[k]]
  BY <1>1 DEF Patched
<1>7. \A k \in 1 .. n : (IF k <= o THEN h[k] ELSE old[k]) = IF k <= o THEN g[k] ELSE old[k]
  BY <1>5
<1> QED BY <1>4, <1>6, <1>7

\* More text of which n bytes are stored.
LEMMA PatchedOver ==
    ASSUME NEW g \in Seq(Nat), NEW b \in Seq(Nat), NEW old \in Seq(Nat), NEW n \in Nat, n <= Len(b)
    PROVE  FS!Overwrite(Patched(g, Len(g), old), Len(g), SubSeq(b, 1, n))
              = Patched(g \o b, Len(g) + n, old)
<1>1. PICK o \in Nat : o = Len(g)
  OBVIOUS
<1>2. PICK c : c = Patched(g, o, old)
  OBVIOUS
<1>3. PICK e : e = SubSeq(b, 1, n)
  OBVIOUS
<1>4. PICK h : h = g \o b
  OBVIOUS
<1>5. PICK l \in Nat : l = Len(old)
  OBVIOUS
<1>6. PICK m : m = IF o < l THEN l ELSE o
  OBVIOUS
<1>7. m \in Nat
  BY <1>6
<1>8. c = [k \in 1 .. m |-> IF k <= o THEN g[k] ELSE old[k]]
  BY <1>2, <1>5, <1>6 DEF Patched
<1>9. Len(c) = m
  <2>1. c = Patched(g, o, old) /\ c \in Seq(Nat)
    <3>1. SubSeq(g, 1, o) \in Seq(Nat) /\ SubSeq(old, o + 1, Len(old)) \in Seq(Nat)
      <4>1. o + 1 \in Int /\ Len(old) \in Int /\ 1 \in Int /\ o \in Int
        OBVIOUS
      <4>2. SubSeq(g, 1, o) \in Seq(Nat)
        BY <1>1
      <4>3. SubSeq(old, o + 1, Len(old)) \in Seq(Nat)
        OBVIOUS
      <4> QED BY <4>2, <4>3
    <3>2. SubSeq(g, 1, o) \o SubSeq(old, o + 1, Len(old)) \in Seq(Nat)
      BY <3>1
    <3>3. c = SubSeq(g, 1, o) \o SubSeq(old, o + 1, Len(old))
      <4>1. o <= Len(g)
        BY <1>1
      <4>2. Patched(g, o, old) = SubSeq(g, 1, o) \o SubSeq(old, o + 1, Len(old))
        BY <4>1, PatchedIs, Zenon
      <4> QED BY <1>2, <4>2
    <3> QED BY <1>2, <3>2, <3>3, Zenon
  <2>2. DOMAIN c = 1 .. m
    BY <1>8
  <2> QED BY <1>7, <2>1, <2>2, LenProperties
<1>10. Len(e) = n /\ \A k \in 1 .. n : e[k] = b[k]
  BY <1>3
<1>11. \A k \in 1 .. o + n : h[k] = IF k <= o THEN g[k] ELSE b[k - o]
  <2> SUFFICES ASSUME NEW k \in 1 .. o + n PROVE h[k] = IF k <= o THEN g[k] ELSE b[k - o]
    OBVIOUS
  <2>1. CASE k <= o
    BY <1>1, <1>4, <2>1
  <2>2. CASE ~(k <= o)
    <3>1. k \in 1 .. Len(g) + Len(b) /\ ~(k <= Len(g))
      BY <1>1, <2>2
    <3> QED BY <1>1, <1>4, <2>2, <3>1
  <2> QED BY <2>1, <2>2
<1>12. FS!Overwrite(c, o, e) =
         [k \in 1 .. (IF m > o + n THEN m ELSE o + n) |->
             IF k \in o + 1 .. o + n THEN e[k - o] ELSE IF k <= m THEN c[k] ELSE 0]
  BY <1>9, <1>10 DEF FS!Overwrite
<1>13. PICK w : w = IF o + n < l THEN l ELSE o + n
  OBVIOUS
<1>14. w \in Nat /\ (IF m > o + n THEN m ELSE o + n) = w
  BY <1>6, <1>13
<1>15. Patched(h, o + n, old) = [k \in 1 .. w |-> IF k <= o + n THEN h[k] ELSE old[k]]
  BY <1>5, <1>13 DEF Patched
<1>16. ASSUME NEW k \in 1 .. w
       PROVE  (IF k \in o + 1 .. o + n THEN e[k - o] ELSE IF k <= m THEN c[k] ELSE 0)
                 = IF k <= o + n THEN h[k] ELSE old[k]
  <2>1. CASE k \in o + 1 .. o + n
    <3>1. k - o \in 1 .. n /\ ~(k <= o) /\ k <= o + n /\ k \in 1 .. o + n
      BY <2>1
    <3>2. h[k] = b[k - o]
      BY <1>11, <3>1
    <3>3. e[k - o] = b[k - o]
      BY <1>10, <3>1
    <3> QED BY <2>1, <3>1, <3>2, <3>3
  <2>2. CASE k <= o
    <3>1. k \notin o + 1 .. o + n /\ k <= o + n /\ k \in 1 .. o + n /\ k \in 1 .. m /\ k <= m
      BY <1>6, <2>2
    <3>2. c[k] = g[k]
      BY <1>8, <2>2, <3>1
    <3>3. h[k] = g[k]
      BY <1>11, <2>2, <3>1
    <3> QED BY <3>1, <3>2, <3>3
  <2>3. CASE k > o + n
    <3>1. k \notin o + 1 .. o + n /\ ~(k <= o + n) /\ ~(k <= o) /\ k \in 1 .. m /\ k <= m
      BY <1>6, <1>13, <2>3
    <3>2. c[k] = old[k]
      BY <1>8, <3>1
    <3> QED BY <3>1, <3>2
  <2> QED BY <1>14, <2>1, <2>2, <2>3
<1>17. FS!Overwrite(c, o, e) = Patched(h, o + n, old)
  BY <1>12, <1>14, <1>15, <1>16
<1> QED BY <1>1, <1>2, <1>3, <1>4, <1>17

-----------------------------------------------------------------------------
(* One write of a command.                                                  *)

\* The slot of a descriptor after a step.
LEMMA SlotNext ==
    ASSUME RamInv', NEW f, NEW s \in Slots, ramfs_inodes'[s].ino # 0,
           ramfs_inodes'[s].ino = ramfs_file_descriptors'[f].ino
    PROVE  InodeOfFd(f)' = s
<1> DEFINE S == {t \in Slots : ramfs_inodes'[t].ino = ramfs_file_descriptors'[f].ino}
<1>1. InodeOfFd(f)' = First(S)
  BY DEF InodeOfFd
<1>2. S = {s}
  BY DEF RamInv, NamesUnique, Used
<1>3. S \in SUBSET Nat /\ S # {}
  BY <1>2, TablesAreNat
<1> HIDE DEF S
<1>4. First(S) \in S
  BY <1>3, FirstMatch
<1> QED BY <1>1, <1>2, <1>4

LEMMA WrittenBytes ==
    ASSUME RamInv, RamInv', NEW f \in Fds, NEW s \in Slots, NEW off \in Nat,
           NEW buf \in Seq(Nat), Writes(f, s, off, buf)
    PROVE  Bytes(s)' = FS!Overwrite(Bytes(s), off, SubSeq(buf, 1, Stored(s, off, buf)))
  <1>0. RamType /\ BlocksApart BY DEF RamInv
  <1> DEFINE n == Stored(s, off, buf)
             needed == off + Want(off, buf)
             r == Reserve(s, needed)
             x == ramfs_inodes[s]
             z == IF off + n > x.size THEN off + n ELSE x.size
             y == InodeRec(x.ino, x.type, x.name, z, x.parent, r.data, r.capacity)
  <1>1. /\ ramfs_pool' = StoredPool(s, r, off, buf, n)
        /\ off < MaxFileSize /\ Len(buf) # 0 /\ n > 0
    BY DEF Writes
  <1>2. /\ s \in Files /\ n \in Nat /\ n <= Len(buf) /\ off + n <= r.capacity /\ Put(s, y)
    BY <1>0, WritesIs
  <1>3. needed \in Nat /\ 0 < needed /\ needed <= MaxFileSize
    BY <1>0, <1>1, <1>2, StoredIs
  <1>4. y.data = r.data /\ y.size = z BY <1>1, RecFields
  <1>5. /\ r.data \in Int /\ r.capacity \in Nat /\ r.used \in Nat /\ r.used <= PoolSize
        /\ (r.data = Null <=> r.capacity = 0) /\ (r.data # Null => r.data >= 0)
        /\ x.capacity <= r.capacity
        /\ r.capacity > 0 => r.data + r.capacity <= r.used
    <2> HIDE DEF needed
    <2> QED BY <1>0, <1>2, <1>3, ReserveIs
  <1>6. x.size \in Nat /\ x.capacity \in Nat /\ x.size <= x.capacity /\ PoolSize \in Nat
    BY <1>0, PoolAssumption DEF RamType, InodeType, BlocksApart
  <1> HIDE DEF needed, n, r, y
  <1>7. /\ r.capacity > 0 /\ r.data \in Nat /\ x.size <= r.capacity
        /\ r.data + r.capacity <= PoolSize
    <2> HIDE DEF x
    <2>1. PICK d, c, u, k, z0, c0 :
            d = r.data /\ c = r.capacity /\ u = r.used /\ k = n /\ z0 = x.size /\ c0 = x.capacity
      OBVIOUS
    <2>2. k \in Nat /\ k > 0 /\ off + k <= c
      BY <1>1, <1>2, <2>1
    <2>3. /\ d \in Int /\ c \in Nat /\ u \in Nat /\ u <= PoolSize
          /\ (d = Null <=> c = 0) /\ (d # Null => d >= 0) /\ c0 <= c
          /\ c > 0 => d + c <= u
      BY <1>5, <2>1
    <2>4. z0 \in Nat /\ c0 \in Nat /\ z0 <= c0 /\ PoolSize \in Nat
      BY <1>6, <2>1
    <2>5. c > 0
      BY ONLY <2>2, <2>3, off \in Nat
    <2>6. d \in Nat
      BY ONLY <2>3, <2>5
    <2>7. d + c <= PoolSize
      BY ONLY <2>3, <2>4, <2>5
    <2>8. z0 <= c
      BY ONLY <2>3, <2>4
    <2> QED BY <2>1, <2>5, <2>6, <2>7, <2>8
  <1>8. Bytes(s)' = FS!Overwrite(Bytes(s), off, SubSeq(buf, 1, n))
    BY <1>0, <1>1, <1>2, <1>4, <1>5, <1>7, OwnBytes
  <1> QED BY <1>8 DEF n

\* Nothing can be stored at o.
Full(s, o) == o = MaxFileSize \/ ~Reserve(s, o + 1).ok

LEMMA SameFull ==
    ASSUME NEW s, NEW o, ramfs_inodes'[s].data = ramfs_inodes[s].data,
           ramfs_inodes'[s].capacity = ramfs_inodes[s].capacity,
           ramfs_pool_used' = ramfs_pool_used
    PROVE  Full(s, o)' <=> Full(s, o)
<1>1. Reserve(s, o + 1)' = Reserve(s, o + 1)
  BY DEF Reserve, IsNewest
<1> QED BY <1>1 DEF Full

\* The first o bytes of g are over the beginning of what the file was; when that
\* is not all of g, the file is full.
HasText(s, o, g, old) ==
    /\ Bytes(s) = Patched(g, o, old)
    /\ o <= ramfs_inodes[s].size /\ o <= Len(g)
    /\ o < Len(g) => Full(s, o)

\* A piece that finds no room.
LEMMA NothingStored ==
    ASSUME RamInv, CapInv, NEW s \in Slots, NEW o \in Nat, o <= ramfs_inodes[s].size,
           NEW buf, IsPiece(buf), o >= MaxFileSize \/ Stored(s, o, buf) <= 0
    PROVE  Full(s, o)
<1>1. PICK c : c = ramfs_inodes[s].capacity
  OBVIOUS
<1>2. /\ c \in Nat /\ c <= MaxFileSize /\ MaxFileSize \in Nat /\ FirstCap \in Nat
      /\ ramfs_inodes[s].size \in Nat /\ ramfs_inodes[s].size <= c
  BY <1>1, PoolAssumption DEF CapInv, CapOk, RamInv, RamType, InodeType, BlocksApart
<1>3. CASE o >= MaxFileSize
  BY <1>2, <1>3 DEF Full
<1>4. CASE ~(o >= MaxFileSize)
  <2>1. PICK w : w = Want(o, buf)
    OBVIOUS
  <2>2. Len(buf) \in 1 .. FirstCap
    BY DEF IsPiece
  <2>3. w \in Nat /\ 1 <= w /\ w <= FirstCap /\ o + w <= MaxFileSize
    BY <1>2, <1>4, <2>1, <2>2 DEF Want, Clip
  <2>4. Stored(s, o, buf) = IF Reserve(s, o + w).ok THEN w ELSE c - o
    BY <1>1, <2>1 DEF Stored
  <2>5. ~Reserve(s, o + w).ok /\ c - o <= 0
    <3>1. CASE Reserve(s, o + w).ok
      <4>1. Stored(s, o, buf) = w
        BY <2>4, <3>1
      <4> QED BY <1>4, <2>3, <4>1
    <3>2. CASE ~Reserve(s, o + w).ok
      <4>1. Stored(s, o, buf) = c - o
        BY <2>4, <3>2
      <4> QED BY <1>4, <3>2, <4>1
    <3> QED BY <3>1, <3>2
  <2>6. o = c
    BY <1>2, <2>5
  <2>7. o + w \in Nat /\ o + w <= c + FirstCap
    BY <1>2, <2>3, <2>6
  <2>8. c = MaxFileSize \/ ~Reserve(s, c + 1).ok
    BY <1>1, <2>3, <2>5, <2>7, NoRoom
  <2> QED BY <2>6, <2>8 DEF Full
<1> QED BY <1>3, <1>4

\* A piece that finds some room comes after all of those before it.
LEMMA RoomBehindAll ==
    ASSUME RamInv, CapInv, NEW s \in Slots, NEW o \in Nat, NEW buf, IsPiece(buf),
           o < MaxFileSize, Stored(s, o, buf) > 0
    PROVE  ~Full(s, o)
<1>1. PICK c : c = ramfs_inodes[s].capacity
  OBVIOUS
<1>2. c \in Nat /\ MaxFileSize \in Nat /\ FirstCap \in Nat
  BY <1>1, PoolAssumption DEF CapInv, CapOk
<1>3. PICK w : w = Want(o, buf)
  OBVIOUS
<1>4. Len(buf) \in 1 .. FirstCap
  BY DEF IsPiece
<1>5. w \in Nat /\ 1 <= w /\ o + w <= MaxFileSize /\ o + w \in Nat /\ o + 1 \in Nat /\ o + 1 <= o + w
  BY <1>2, <1>3, <1>4 DEF Want, Clip
<1> SUFFICES ASSUME Full(s, o) PROVE FALSE
  OBVIOUS
<1>6. ~Reserve(s, o + 1).ok
  BY <1>2 DEF Full
<1>7. ~Reserve(s, o + w).ok /\ c < o + 1
  BY <1>1, <1>5, <1>6, StillFull
<1>8. Stored(s, o, buf) = c - o
  BY <1>1, <1>3, <1>7 DEF Stored
<1> QED BY <1>2, <1>7, <1>8

\* A piece behind the text g, through a descriptor of a command.
LEMMA PieceWritten ==
    ASSUME RamInv, RamInv', FdFiles, CapInv, NEW f \in Fds, NEW s, NEW o, NEW g \in Seq(Nat),
           NEW old \in Seq(Nat), NEW buf, IsPiece(buf), Write(f, buf),
           ramfs_file_descriptors[f].ino # 0, ramfs_file_descriptors[f].acc = RDWR,
           ramfs_file_descriptors[f].append = FALSE, s = InodeOfFd(f), s # None,
           o = ramfs_file_descriptors[f].offset, HasText(s, o, g, old)
    PROVE  /\ SameNames /\ InodeOfFd(f)' = s
           /\ ramfs_file_descriptors'[f].acc = RDWR
           /\ ramfs_file_descriptors'[f].append = FALSE
           /\ \E m \in Nat : /\ ramfs_file_descriptors'[f].offset = m
                             /\ HasText(s, m, g \o buf, old)'
<1>0. RamType /\ BlocksApart /\ NamesUnique
  BY DEF RamInv
<1>1. s \in Slots /\ ramfs_inodes[s].ino = ramfs_file_descriptors[f].ino
  BY InodeOfFdIs
<1>2. ramfs_inodes[s].type = "file" /\ Usable(f)
  BY <1>1 DEF FdFiles, Usable
<1>3. ramfs_file_descriptors \in [Fds -> FdType] /\ o \in Nat
  BY <1>0 DEF RamType, FdType
<1>4. buf \in Seq(Nat) /\ Len(buf) \in 1 .. FirstCap /\ FirstCap \in Nat
  BY PoolAssumption DEF IsPiece
<1>5. PICK n : n = Stored(s, o, buf)
  OBVIOUS
<1>6. WriteAt(f, s, o, buf)
  <2>1. RDWR # RDONLY
    BY DEF RDWR, RDONLY
  <2>2. Usable(f) /\ ramfs_file_descriptors[f].acc # RDONLY
    BY <1>2, <2>1
  <2>3. WriteAt(f, InodeOfFd(f),
                IF ramfs_file_descriptors[f].append THEN ramfs_inodes[InodeOfFd(f)].size
                ELSE ramfs_file_descriptors[f].offset, buf)
    BY <2>2 DEF Write
  <2>4. (IF ramfs_file_descriptors[f].append THEN ramfs_inodes[InodeOfFd(f)].size
         ELSE ramfs_file_descriptors[f].offset) = o
    BY Zenon
  <2> QED BY <2>3, <2>4
<1>7. /\ Bytes(s) = Patched(g, o, old) /\ o <= ramfs_inodes[s].size /\ o <= Len(g)
      /\ o < Len(g) => Full(s, o)
  BY DEF HasText
<1>8. /\ ramfs_inodes[s].size \in Nat /\ ramfs_inodes[s].capacity \in Nat
      /\ MaxFileSize \in Nat /\ Len(g) \in Nat
  BY <1>0, <1>1, PoolAssumption DEF RamType, InodeType
<1>9. Len(g \o buf) = Len(g) + Len(buf) /\ g \o buf \in Seq(Nat)
  BY <1>4, ConcatProperties
<1>10. PICK h : h = g \o buf
  OBVIOUS
<1>11. CASE o >= MaxFileSize \/ n <= 0
  <2>1. /\ ramfs_file_descriptors' = [ramfs_file_descriptors EXCEPT ![f].offset = o]
        /\ UNCHANGED fsVars
    BY <1>5, <1>6, <1>11 DEF WriteAt, Stored, Want
  <2>2. ramfs_file_descriptors'[f] = ramfs_file_descriptors[f]
    BY <1>0, <1>3, <2>1, MovedIs
  <2>3. ramfs_inodes' = ramfs_inodes /\ ramfs_pool' = ramfs_pool /\ ramfs_pool_used' = ramfs_pool_used
    BY <2>1 DEF fsVars
  <2>4. SameNames
    BY <2>3 DEF SameNames
  <2>5. InodeOfFd(f)' = s
    BY <2>2, <2>3, SameInodeOfFd
  <2>6. Full(s, o)
    BY <1>1, <1>3, <1>5, <1>7, <1>11, NothingStored
  <2>7. Full(s, o)'
    BY <2>3, <2>6, SameFull
  <2>8. Bytes(s)' = Patched(h, o, old)
    BY <1>3, <1>4, <1>7, <1>10, <2>3, SameBytes, PatchedMore
  <2>9. o <= ramfs_inodes'[s].size /\ o <= Len(h)
    BY <1>3, <1>4, <1>7, <1>8, <1>9, <1>10, <2>3
  <2>10. HasText(s, o, h, old)'
    BY <2>7, <2>8, <2>9 DEF HasText
  <2> QED BY <1>3, <1>10, <2>2, <2>4, <2>5, <2>10
<1>12. CASE ~(o >= MaxFileSize \/ n <= 0)
  <2>0. Len(buf) # 0
    BY <1>4
  <2>1. PICK k : k = o + Want(o, buf)
    OBVIOUS
  <2>2. PICK r : r = Reserve(s, k)
    OBVIOUS
  <2>3. /\ ret' = n
        /\ ramfs_pool' = StoredPool(s, r, o, buf, n)
        /\ ramfs_pool_used' = r.used
        /\ ramfs_inodes' = [ramfs_inodes EXCEPT
              ![s].data = r.data, ![s].capacity = r.capacity,
              ![s].size = IF o + n > @ THEN o + n ELSE @]
        /\ ramfs_file_descriptors' = [ramfs_file_descriptors EXCEPT ![f].offset = o + n]
        /\ UNCHANGED ramfs_next_inode
    BY <1>5, <1>6, <1>12, <2>0, <2>1, <2>2 DEF WriteAt, Want, Stored
  <2>4. Want(o, buf) \in Int /\ n \in Int
    <3>1. Want(o, buf) \in Int
      BY <1>3, <1>4, <1>8 DEF Want, Clip
    <3>2. ramfs_inodes[s].capacity - o \in Int
      BY <1>3, <1>8
    <3> QED BY <1>5, <3>1, <3>2 DEF Stored
  <2>5. o < MaxFileSize /\ n > 0
    BY <1>3, <1>8, <1>12, <2>4
  <2>6. Writes(f, s, o, buf)
    <3>1. o = WritePos(f)
      BY Zenon DEF WritePos
    <3>2. ramfs_file_descriptors[f].acc # RDONLY
      BY DEF RDWR, RDONLY
    <3> QED BY <1>1, <1>2, <1>5, <2>0, <2>1, <2>2, <2>3, <2>5, <3>1, <3>2 DEF Writes
  <2> DEFINE x == ramfs_inodes[s]
             z == IF o + n > x.size THEN o + n ELSE x.size
             y == InodeRec(x.ino, x.type, x.name, z, x.parent, r.data, r.capacity)
  <2>7. n \in Nat /\ n <= Len(buf) /\ o + n <= r.capacity /\ Put(s, y)
    BY <1>1, <1>3, <1>4, <1>5, <2>1, <2>2, <2>6, WritesIs
  <2>8. /\ y.ino = x.ino /\ y.type = x.type /\ y.name = x.name /\ y.parent = x.parent
        /\ y.size = z /\ y.data = r.data /\ y.capacity = r.capacity
    BY RecFields
  <2> HIDE DEF y
  <2>9. ramfs_inodes'[s] = y /\ \A t \in Slots : t # s => ramfs_inodes'[t] = ramfs_inodes[t]
    BY <2>7 DEF Put
  <2>10. SameNames
    <3> SUFFICES ASSUME NEW t \in Slots
                 PROVE  /\ ramfs_inodes'[t].ino = ramfs_inodes[t].ino
                        /\ ramfs_inodes'[t].type = ramfs_inodes[t].type
                        /\ ramfs_inodes'[t].parent = ramfs_inodes[t].parent
                        /\ ramfs_inodes'[t].name = ramfs_inodes[t].name
      BY DEF SameNames
    <3>1. CASE t = s BY <2>8, <2>9, <3>1
    <3>2. CASE t # s BY <2>9, <3>2
    <3> QED BY <3>1, <3>2
  <2>11. /\ ramfs_file_descriptors'[f].offset = o + n
         /\ ramfs_file_descriptors'[f].acc = ramfs_file_descriptors[f].acc
         /\ ramfs_file_descriptors'[f].ino = ramfs_file_descriptors[f].ino
    BY <1>3, <2>3 DEF FdType
  <2>12. ramfs_file_descriptors'[f].append = ramfs_file_descriptors[f].append
    <3>1. ramfs_file_descriptors[f] \in FdType
      BY <1>3
    <3>2. ramfs_file_descriptors'[f] = [ramfs_file_descriptors[f] EXCEPT !.offset = o + n]
      BY <1>3, <2>3
    <3> QED BY <3>1, <3>2, Zenon DEF FdType
  <2>13. InodeOfFd(f)' = s
    BY <1>1, <2>8, <2>9, <2>11, SlotNext
  <2>14. o = Len(g)
    <3>1. ~Full(s, o)
      BY <1>1, <1>3, <1>5, <2>5, RoomBehindAll
    <3> QED BY <1>3, <1>7, <1>8, <3>1
  <2>15. Bytes(s)' = Patched(h, o + n, old)
    <3>1. Bytes(s)' = FS!Overwrite(Bytes(s), o, SubSeq(buf, 1, n))
      BY <1>1, <1>3, <1>4, <1>5, <2>6, WrittenBytes
    <3>2. Bytes(s)' = FS!Overwrite(Patched(g, Len(g), old), Len(g), SubSeq(buf, 1, n))
      BY <1>7, <2>14, <3>1
    <3> QED BY <1>4, <1>10, <2>7, <2>14, <3>2, PatchedOver
  <2>16. o + n \in Nat /\ o + n <= ramfs_inodes'[s].size /\ o + n <= Len(h)
    <3>1. ramfs_inodes'[s].size = z
      BY <2>8, <2>9
    <3> HIDE DEF x
    <3>2. x.size \in Nat
      BY <1>8 DEF x
    <3> QED BY <1>3, <1>4, <1>8, <1>9, <1>10, <2>7, <2>14, <3>1, <3>2
  <2>17. ASSUME o + n < Len(h) PROVE Full(s, o + n)'
    <3>0. n < Len(buf)
      BY <1>3, <1>4, <1>8, <1>9, <1>10, <2>7, <2>14, <2>17
    <3>1. n = IF r.ok THEN Want(o, buf) ELSE x.capacity - o
      BY <1>5, <2>1, <2>2 DEF Stored
    <3>2. CASE r.ok
      <4>1. n = Want(o, buf)
        BY <3>1, <3>2
      <4>2. o + n = MaxFileSize
        BY <1>3, <1>4, <1>8, <3>0, <4>1 DEF Want, Clip
      <4> QED BY <4>2 DEF Full
    <3>3. CASE ~r.ok
      <4>1. n = x.capacity - o
        BY <3>1, <3>3
      <4>2. o + n = x.capacity
        BY <1>3, <1>8, <4>1
      <4>3. k \in Nat /\ k <= MaxFileSize /\ k <= x.capacity + FirstCap
        <5>1. o <= x.capacity
          BY <1>3, <1>8, <2>7, <4>2
        <5>2. Want(o, buf) \in Nat /\ Want(o, buf) <= FirstCap /\ o + Want(o, buf) <= MaxFileSize
          <6>1. PICK w, b : w = Want(o, buf) /\ b = Len(buf)
            OBVIOUS
          <6>2. w = IF o + b > MaxFileSize THEN MaxFileSize - o ELSE b
            BY <6>1 DEF Want, Clip
          <6>3. b \in Nat /\ b <= FirstCap /\ o \in Nat /\ o < MaxFileSize
            BY <1>3, <1>4, <2>5, <6>1
          <6>4. w \in Nat /\ w <= FirstCap /\ o + w <= MaxFileSize
            BY ONLY <1>4, <1>8, <6>2, <6>3
          <6> QED BY <6>1, <6>4
        <5> HIDE DEF x
        <5>3. x.capacity \in Nat
          BY <1>8 DEF x
        <5> QED BY <1>3, <1>4, <2>1, <5>1, <5>2, <5>3
      <4>4. Full(s, x.capacity)
        BY <1>1, <2>2, <3>3, <4>3, NoRoom DEF Full
      <4>5. r.data = x.data /\ r.capacity = x.capacity /\ r.used = ramfs_pool_used
        <5>1. r = [ok |-> FALSE, data |-> x.data, capacity |-> x.capacity, used |-> ramfs_pool_used]
          BY <2>2, <3>3 DEF Reserve
        <5> QED BY <5>1
      <4>6. /\ ramfs_inodes'[s].data = x.data /\ ramfs_inodes'[s].capacity = x.capacity
            /\ ramfs_pool_used' = ramfs_pool_used
        BY <2>3, <2>8, <2>9, <4>5
      <4>7. Full(s, o + n)
        BY <4>2, <4>4
      <4> QED BY <4>6, <4>7, SameFull
    <3> QED BY <3>2, <3>3
  <2>18. HasText(s, o + n, h, old)'
    BY <2>15, <2>16, <2>17 DEF HasText
  <2>19. \E m \in Nat : /\ ramfs_file_descriptors'[f].offset = m
                        /\ HasText(s, m, h, old)'
    <3>1. PICK m \in Nat : m = o + n
      BY <2>16
    <3>2. HasText(s, m, h, old)'
      BY <2>18, <3>1
    <3> QED BY <2>11, <3>1, <3>2
  <2> QED BY <1>10, <2>10, <2>11, <2>12, <2>13, <2>19
<1> QED BY <1>11, <1>12

-----------------------------------------------------------------------------
(* write.                                                                   *)

\* The pieces that are left are those of the words t behind the first j, and T is
\* the line up to each of these words.
TextAt(t, T, j) ==
    /\ LineUpto(T, t) /\ before.text = T[Len(t)] /\ j \in 0 .. 2 * Len(t) - 1
    /\ job.pieces \in Seq(Seq(Nat)) /\ Len(job.pieces) = 2 * Len(t) - 1 - j
    /\ \A i \in 1 .. Len(job.pieces) : job.pieces[i] = Pieces(t)[j + i]
    /\ job.stage = "close" => j = 2 * Len(t) - 1

\* The descriptor is that of the file that the path names, which has the text g
\* up to its offset.
WritesText(g) ==
    /\ InodeOfFd(JobFile) # None /\ FindInode(before.path) = InodeOfFd(JobFile)
    /\ ramfs_file_descriptors[JobFile].acc = RDWR
    /\ ramfs_file_descriptors[JobFile].append = FALSE
    /\ before.content \in Seq(Nat)
    /\ HasText(InodeOfFd(JobFile), ramfs_file_descriptors[JobFile].offset, g, before.content)

WriteInv ==
    /\ job.stage = "malloc" => before.text = << >>
    /\ job.stage = "write" \/ (job.stage = "close" /\ before.text # << >>) =>
          \E t \in Texts : \E T, j : TextAt(t, T, j) /\ WritesText(GivenTo(T, j))

LEMMA NoLine == Line(<< >>) = << >>
<1>1. PICK words : words = << >>
  OBVIOUS
<1>2. words \in Seq(Seq(Nat)) /\ Len(words) = 0
  <2> DEFINE S == Seq(Nat)
  <2> HIDE DEF S
  <2>1. << >> \in Seq(S)
    OBVIOUS
  <2>2. Len(<< >>) = 0
    OBVIOUS
  <2> QED BY <1>1, <2>1, <2>2 DEF S
<1>3. PICK T : LineUpto(T, words) /\ Line(words) = T[Len(words)]
  BY <1>2, TextAssumption, LineExists
<1>4. T[0] = << >>
  BY <1>3 DEF LineUpto
<1> QED BY <1>1, <1>2, <1>3, <1>4, Zenon

\* The file that a command has opened, found or made.
LEMMA CommandOpens ==
    ASSUME RamInv, RamInv', RootStays, FreeClean, NEW p, NEW creat, OpenOld(p, creat), ~(ret' < 0)
    PROVE  \E f \in Fds, s \in Slots :
              /\ ret' = f + FileBase /\ s = FindInode(p)' /\ InodeOfFd(f)' = s
              /\ ramfs_file_descriptors'[f] =
                    [ino |-> ramfs_inodes'[s].ino, offset |-> 0, acc |-> RDWR, append |-> FALSE]
              /\ Bytes(s)' = ContentOf(FindInode(p))
<1>0. RamType
  BY DEF RamInv
<1>1. PICK f : f = FindFreeFd
  OBVIOUS
<1>2. PICK u : u = FindInode(p)
  OBVIOUS
<1>3. ASSUME NEW i, OpenFd(i, RDWR, FALSE, Failed)
      PROVE  /\ f \in Fds /\ ret' = f + FileBase
             /\ ramfs_file_descriptors'[f] =
                   [ino |-> i, offset |-> 0, acc |-> RDWR, append |-> FALSE]
  <2>1. f # None
    <3>1. f = None => ret' = Failed BY <1>1, <1>3 DEF OpenFd
    <3>2. Failed < 0 BY DEF Failed
    <3> QED BY <3>1, <3>2
  <2>2. f \in Fds BY <1>1, <2>1, FindFreeFdIs
  <2>3. PICK d : d = [ino |-> i, offset |-> 0, acc |-> RDWR, append |-> FALSE]
    OBVIOUS
  <2>4. ret' = f + FileBase /\ ramfs_file_descriptors' = [ramfs_file_descriptors EXCEPT ![f] = d]
    BY <1>1, <1>3, <2>1, <2>3 DEF OpenFd, sys_wrap_fd
  <2>5. ramfs_file_descriptors \in [Fds -> FdType] BY <1>0 DEF RamType
  <2>6. ramfs_file_descriptors'[f] = d BY <2>2, <2>4, <2>5
  <2> QED BY <2>2, <2>3, <2>4, <2>6
<1>4. CASE Fail(Failed)
  <2>1. ret' = Failed BY <1>4 DEF Fail
  <2>2. Failed < 0 BY DEF Failed
  <2> QED BY <2>1, <2>2
<1>5. CASE /\ u = None /\ CanCreate(p) /\ Create(p, "file")
           /\ OpenFd(ramfs_next_inode, RDWR, FALSE, Failed)
  <2>1. PICK s : s = FindFreeInode
    OBVIOUS
  <2>2. PICK r : r = NewInode(p, "file")
    OBVIOUS
  <2>3. s \in Slots
    BY <1>5, <2>1, FindFreeInodeIs DEF CanCreate
  <2>4. FindInode(p)' = s
    BY <1>2, <1>5, <2>1, FoundNew
  <2>5. r.ino = ramfs_next_inode /\ r.size = 0
    BY <2>2, NewInodeIs, RecFields
  <2>6. ramfs_inodes' = [ramfs_inodes EXCEPT ![s] = r]
    BY <1>5, <2>1, <2>2 DEF Create
  <2>7. ramfs_inodes'[s] = r
    BY <1>0, <2>3, <2>6, PutIs DEF Put
  <2>8. ramfs_next_inode # 0
    BY <1>0 DEF RamType
  <2>9. Bytes(s)' = << >>
    BY <2>5, <2>7, NoBytes
  <2>10. ContentOf(u) = << >>
    BY <1>5 DEF ContentOf
  <2>11. /\ f \in Fds /\ ret' = f + FileBase
         /\ ramfs_file_descriptors'[f] =
               [ino |-> ramfs_inodes'[s].ino, offset |-> 0, acc |-> RDWR, append |-> FALSE]
    BY <1>3, <1>5, <2>5, <2>7
  <2>12. ramfs_file_descriptors'[f].ino = ramfs_inodes'[s].ino /\ ramfs_inodes'[s].ino # 0
    BY <2>5, <2>7, <2>8, <2>11
  <2>13. InodeOfFd(f)' = s
    BY <2>3, <2>12, SlotNext
  <2> QED BY <1>2, <2>3, <2>4, <2>9, <2>10, <2>11, <2>13
<1>6. CASE /\ u # None /\ ramfs_inodes[u].type = "file" /\ UNCHANGED fsVars
           /\ OpenFd(ramfs_inodes[u].ino, RDWR, FALSE, Failed)
  <2>1. u \in Slots /\ ramfs_inodes[u].ino # 0
    BY <1>2, <1>6, FindInodeIs DEF RootStays
  <2>2. ramfs_inodes' = ramfs_inodes /\ ramfs_pool' = ramfs_pool
    BY <1>6 DEF fsVars
  <2>3. SameNames
    BY <2>2 DEF SameNames
  <2>4. FindInode(p)' = u
    BY <1>2, <2>3, SameFound
  <2>5. Bytes(u)' = Bytes(u)
    BY <2>2, SameBytes
  <2>6. ContentOf(u) = Bytes(u)
    BY <1>6 DEF ContentOf, Bytes
  <2>7. /\ f \in Fds /\ ret' = f + FileBase
        /\ ramfs_file_descriptors'[f] =
              [ino |-> ramfs_inodes'[u].ino, offset |-> 0, acc |-> RDWR, append |-> FALSE]
    BY <1>3, <1>6, <2>2
  <2>8. ramfs_file_descriptors'[f].ino = ramfs_inodes'[u].ino /\ ramfs_inodes'[u].ino # 0
    BY <2>1, <2>2, <2>7
  <2>9. InodeOfFd(f)' = u
    BY <2>1, <2>8, SlotNext
  <2>10. Bytes(u)' = ContentOf(FindInode(p))
    BY <1>2, <2>5, <2>6
  <2> QED BY <2>1, <2>4, <2>7, <2>9, <2>10
<1> QED BY <1>2, <1>4, <1>5, <1>6 DEF OpenOld

LEMMA BeginWrite ==
    ASSUME RamInv, RamInv', RootStays, FreeClean, NEW p, NEW t \in Texts, cmd_write(p, t)
    PROVE  WriteInv'
<1>1. Begin(p, TRUE, "write", t)
  BY DEF cmd_write
<1>2. CASE ret' < 0
  <2>1. job' = Idle
    BY <1>1, <1>2 DEF Begin
  <2>2. job'.stage = "none"
    BY <2>1 DEF Idle
  <2> QED BY <2>2 DEF WriteInv
<1>3. CASE ~(ret' < 0)
  <2>1. OpenOld(p, TRUE)
    BY <1>1 DEF Begin
  <2>2. PICK f \in Fds, s \in Slots :
          /\ ret' = f + FileBase /\ s = FindInode(p)' /\ InodeOfFd(f)' = s
          /\ ramfs_file_descriptors'[f] =
                [ino |-> ramfs_inodes'[s].ino, offset |-> 0, acc |-> RDWR, append |-> FALSE]
          /\ Bytes(s)' = ContentOf(FindInode(p))
    BY <1>3, <2>1, CommandOpens
  <2>3. PICK content : content = ContentOf(FindInode(p))
    OBVIOUS
  <2>4. PICK ps : ps = Pieces(t)
    OBVIOUS
  <2>5. PICK T : LineUpto(T, t) /\ Line(t) = T[Len(t)]
    BY TextAssumption, LineExists
  <2>6. PICK text : text = T[Len(t)]
    OBVIOUS
  <2>7. /\ job' = [stage |-> "write", fd |-> ret', pieces |-> ps]
        /\ before' = [fds |-> ramfs_file_descriptors, path |-> p, text |-> text,
                      content |-> content]
    BY <1>1, <1>3, <2>3, <2>4, <2>5, <2>6 DEF Begin
  <2>8. /\ job'.stage = "write" /\ job'.fd = ret' /\ job'.pieces = ps
        /\ before'.path = p /\ before'.text = text /\ before'.content = content
    BY <2>7
  <2>9. JobFile' = f
    BY <2>2, <2>8, TablesAreNat, TableAssumption DEF JobFile
  <2>10. content \in Seq(Nat)
    <3>1. CASE FindInode(p) = None
      BY <2>3, <3>1 DEF ContentOf
    <3>2. CASE FindInode(p) # None
      <4>1. PICK u : u = FindInode(p)
        OBVIOUS
      <4>2. u \in Slots
        BY <3>2, <4>1, FindInodeIs
      <4>3. content = Bytes(u)
        BY <2>3, <3>2, <4>1 DEF ContentOf, Bytes
      <4> QED BY <4>2, <4>3, BytesIs
    <3> QED BY <3>1, <3>2
  <2>11. TextAt(t, T, 0)'
    <3>1. Len(t) \in Nat /\ Len(t) > 0
      BY TextAssumption
    <3>2. 1 \in 1 .. 2 * Len(t) - 1
      BY <3>1
    <3>3. ps \in Seq(Seq(Nat)) /\ Len(ps) = 2 * Len(t) - 1
      BY <2>4, <3>2, PieceAt
    <3>4. PICK n \in Nat : n = 2 * Len(t) - 1
      BY <3>1
    <3>5. Len(ps) = n - 0 /\ 0 \in 0 .. n
      BY <3>3, <3>4
    <3>6. \A i \in 1 .. Len(ps) : ps[i] = Pieces(t)[0 + i]
      BY <2>4, <3>5
    <3>7. ~(job'.stage = "close")
      BY <2>8
    <3> QED BY <2>5, <2>6, <2>8, <3>3, <3>4, <3>5, <3>6, <3>7 DEF TextAt
  <2>12. PICK g : g = GivenTo(T, 0) /\ g = << >>
    BY <2>5, GivenIs
  <2>13. HasText(s, 0, g, content)'
    <3>1. Patched(g, 0, content) = content
      BY <2>10, PatchedNone
    <3>2. ramfs_inodes'[s].size \in Nat
      BY DEF RamInv, RamType, InodeType
    <3>3. Len(g) = 0
      BY <2>12
    <3> QED BY <2>2, <2>3, <3>1, <3>2, <3>3 DEF HasText
  <2>14. WritesText(g)'
    <3>1. s # None
      BY TablesAreNat DEF None
    <3>2. /\ ramfs_file_descriptors'[f].offset = 0 /\ ramfs_file_descriptors'[f].acc = RDWR
      BY <2>2
    <3>3. ramfs_file_descriptors'[f].append = FALSE
      <4>1. PICK i : i = ramfs_inodes'[s].ino
        OBVIOUS
      <4>2. PICK d : d = [ino |-> i, offset |-> 0, acc |-> RDWR, append |-> FALSE]
        OBVIOUS
      <4>3. d.append = FALSE
        BY <4>2, Zenon
      <4>4. ramfs_file_descriptors'[f] = d
        BY <2>2, <4>1, <4>2
      <4> QED BY <4>3, <4>4, Zenon
    <3>4. FindInode(before.path)' = s
      <4>1. FindInode(before.path)' = FindInode(p)'
        BY <2>8 DEF FindInode
      <4> QED BY <2>2, <4>1
    <3> QED BY <2>2, <2>8, <2>9, <2>10, <2>13, <3>1, <3>2, <3>3, <3>4 DEF WritesText
  <2>15. TextAt(t, T, 0)' /\ WritesText(GivenTo(T, 0))'
    BY <2>11, <2>12, <2>14
  <2> QED BY <2>8, <2>15 DEF WriteInv
<1> QED BY <1>2, <1>3

\* One turn of the loop over the words.
LEMMA WritePieceKeeps ==
    ASSUME RamInv, RamInv', FdFiles, CapInv, JobType, JobFd, WriteInv, WritePiece
    PROVE  WriteInv'
<1>1. job.stage = "write" /\ job # Idle
  BY StageNotIdle DEF WritePiece
<1>2. PICK t \in Texts : \E T, j : TextAt(t, T, j) /\ WritesText(GivenTo(T, j))
  BY <1>1 DEF WriteInv
<1>3. PICK T, j : TextAt(t, T, j) /\ WritesText(GivenTo(T, j))
  BY <1>2
<1>4. PICK f : f = JobFile
  OBVIOUS
<1>5. f \in Fds /\ ramfs_file_descriptors[f].ino # 0 /\ ~(job.fd < FileBase)
  BY <1>1, <1>4, JobFdNumber
<1>6. PICK g : g = GivenTo(T, j)
  OBVIOUS
<1>7. PICK old : old = before.content
  OBVIOUS
<1>8. PICK ps : ps = job.pieces
  OBVIOUS
<1>9. PICK n \in Nat : n = 2 * Len(t) - 1
  <2>1. Len(t) \in Nat /\ Len(t) > 0
    BY TextAssumption
  <2>2. 2 * Len(t) - 1 \in Nat
    BY <2>1
  <2> QED BY <2>2
<1>10. /\ LineUpto(T, t) /\ before.text = T[Len(t)] /\ j \in 0 .. n
       /\ ps \in Seq(Seq(Nat)) /\ Len(ps) = n - j
       /\ \A i \in 1 .. Len(ps) : ps[i] = Pieces(t)[j + i]
  BY <1>3, <1>8, <1>9 DEF TextAt
<1>11. ps # << >>
  BY <1>1, <1>8 DEF JobType
<1>12. PICK buf : buf = Head(ps)
  OBVIOUS
<1>13. Len(ps) > 0 /\ buf = ps[1]
  <2> DEFINE S == Seq(Nat)
  <2>1. ps \in Seq(S)
    BY <1>10
  <2> HIDE DEF S
  <2> QED BY <1>11, <1>12, <2>1
<1>14. j \in Nat /\ j + 1 \in 1 .. n /\ j \in 0 .. n - 1
  BY <1>9, <1>10, <1>13
<1>15. buf = Pieces(t)[j + 1]
  <2>1. 1 \in 1 .. Len(ps)
    BY <1>9, <1>10, <1>13
  <2> QED BY <1>10, <1>13, <2>1
<1>16. IsPiece(buf)
  BY <1>9, <1>14, <1>15, PieceAt
<1>17. /\ GivenTo(T, j + 1) = g \o buf /\ g \in Seq(Nat)
  <2>1. j \in 0 .. 2 * Len(t) - 2 /\ j \in 0 .. 2 * Len(t) - 1
    <3>1. Len(t) \in Nat
      BY TextAssumption
    <3> QED BY <1>9, <1>14, <3>1
  <2> QED BY <1>6, <1>10, <1>15, <2>1, GivenIs
<1>18. PICK s : s = InodeOfFd(f)
  OBVIOUS
<1>19. PICK o : o = ramfs_file_descriptors[f].offset
  OBVIOUS
<1>20. /\ s # None /\ FindInode(before.path) = s /\ ramfs_file_descriptors[f].acc = RDWR
       /\ old \in Seq(Nat) /\ HasText(s, o, g, old)
  BY <1>3, <1>4, <1>6, <1>7, <1>18, <1>19 DEF WritesText
<1>21. ramfs_file_descriptors[f].append = FALSE
  <2>1. ramfs_file_descriptors[JobFile].append = FALSE
    BY <1>3, Zenon DEF WritesText
  <2> QED BY <1>4, <2>1, Zenon
<1>22. sys_write(job.fd, buf) /\ before' = before
  BY <1>8, <1>12 DEF WritePiece
<1>23. Write(f, buf)
  BY <1>4, <1>5, <1>22 DEF sys_write, JobFile
<1>24. /\ SameNames /\ InodeOfFd(f)' = s
       /\ ramfs_file_descriptors'[f].acc = RDWR
  BY <1>5, <1>16, <1>17, <1>18, <1>19, <1>20, <1>21, <1>23, PieceWritten
<1>25. ramfs_file_descriptors'[f].append = FALSE
  BY <1>5, <1>16, <1>17, <1>18, <1>19, <1>20, <1>21, <1>23, PieceWritten
<1>26. PICK m \in Nat : ramfs_file_descriptors'[f].offset = m /\ HasText(s, m, g \o buf, old)'
  BY <1>5, <1>16, <1>17, <1>18, <1>19, <1>20, <1>21, <1>23, PieceWritten
<1>27. PICK st : st = IF Len(ps) = 1 THEN "close" ELSE "write"
  OBVIOUS
<1>28. job' = [job EXCEPT !.pieces = Tail(ps), !.stage = st]
  BY <1>8, <1>27 DEF WritePiece
<1>29. job'.stage = st /\ job'.fd = job.fd /\ job'.pieces = Tail(ps)
  <2>1. job = [stage |-> job.stage, fd |-> job.fd, pieces |-> job.pieces]
    BY DEF JobType
  <2> QED BY <1>28, <2>1
<1>30. JobFile' = f
  BY <1>4, <1>29 DEF JobFile
<1>31. TextAt(t, T, j + 1)'
  <2> DEFINE S == Seq(Nat)
  <2>1. ps \in Seq(S) /\ Len(ps) \in Nat
    BY <1>10
  <2> HIDE DEF S
  <2>2. /\ Tail(ps) \in Seq(S) /\ Len(Tail(ps)) = Len(ps) - 1
        /\ \A i \in 1 .. Len(ps) - 1 : Tail(ps)[i] = ps[i + 1]
    BY <1>11, <2>1
  <2>3. Len(Tail(ps)) = n - (j + 1)
    BY <1>9, <1>10, <1>14, <2>2
  <2>4. ASSUME NEW i \in 1 .. Len(Tail(ps)) PROVE Tail(ps)[i] = Pieces(t)[(j + 1) + i]
    <3>1. i \in Nat /\ i \in 1 .. Len(ps) - 1 /\ i + 1 \in 1 .. Len(ps) /\ j + (i + 1) = (j + 1) + i
      BY <1>14, <2>1, <2>2, <2>4
    <3>2. Tail(ps)[i] = ps[i + 1]
      BY <2>2, <3>1
    <3>3. ps[i + 1] = Pieces(t)[j + (i + 1)]
      BY <1>10, <3>1
    <3> QED BY <3>1, <3>2, <3>3
  <2>5. st = "close" => j + 1 = n
    <3>1. st = "close" => Len(ps) = 1
      BY <1>27
    <3> QED BY <1>9, <1>10, <1>14, <3>1
  <2>6. Tail(ps) \in Seq(Seq(Nat))
    BY <2>2 DEF S
  <2>7. j + 1 \in 0 .. n
    BY <1>9, <1>14
  <2>8. PICK qs : qs = Tail(ps)
    OBVIOUS
  <2> QED BY <1>9, <1>10, <1>22, <1>29, <2>3, <2>4, <2>5, <2>6, <2>7, <2>8 DEF TextAt
<1>32. WritesText(g \o buf)'
  <2>1. FindInode(before.path)' = s
    <3>1. PICK p : p = before.path
      OBVIOUS
    <3>2. FindInode(p)' = FindInode(p)
      BY <1>24, SameFound
    <3>3. FindInode(before.path)' = FindInode(p)'
      BY <1>22, <3>1 DEF FindInode
    <3> QED BY <1>20, <3>1, <3>2, <3>3
  <2>2. PICK h : h = g \o buf
    OBVIOUS
  <2>3. before'.content = old
    BY <1>7, <1>22
  <2>4. /\ (InodeOfFd(JobFile) # None)'
        /\ (FindInode(before.path) = InodeOfFd(JobFile))'
        /\ (ramfs_file_descriptors[JobFile].acc = RDWR)'
    BY <1>20, <1>24, <1>30, <2>1
  <2>5. (ramfs_file_descriptors[JobFile].append = FALSE)'
    BY <1>25, <1>30, Zenon
  <2>6. HasText(InodeOfFd(JobFile), ramfs_file_descriptors[JobFile].offset, h, before.content)'
    <3>1. InodeOfFd(JobFile)' = s /\ ramfs_file_descriptors'[JobFile'] = ramfs_file_descriptors'[f]
      BY <1>24, <1>30
    <3>2. HasText(s, m, h, old)'
      BY <1>26, <2>2
    <3> QED BY <1>26, <2>3, <3>1, <3>2 DEF HasText, Full
  <2> QED BY <1>20, <2>2, <2>3, <2>4, <2>5, <2>6 DEF WritesText
<1>33. TextAt(t, T, j + 1)' /\ WritesText(GivenTo(T, j + 1))'
  BY <1>17, <1>31, <1>32
<1>34. ~(job'.stage = "malloc")
  BY <1>27, <1>29
<1> QED BY <1>33, <1>34 DEF WriteInv

LEMMA WriteStep ==
    ASSUME ClosingInv, ClosingInv', CapInv, WriteInv, RootStays, [NextCommands]_allVars
    PROVE  WriteInv'
<1>0. RamInv /\ FdFiles /\ JobType /\ FreeClean /\ JobFd /\ RamInv'
  BY DEF ClosingInv, TableInv
<1>1. ASSUME NEW stage \in {"malloc", "close"}, NEW p, NEW creat, Begin(p, creat, stage, << >>)
      PROVE  WriteInv'
  <2> DEFINE ps == Pieces(<< >>)
             content == ContentOf(FindInode(p))
  <2>1. CASE job' = Idle
    <3>1. job'.stage = "none"
      BY <2>1 DEF Idle
    <3> QED BY <3>1 DEF WriteInv
  <2>2. CASE /\ job' = [stage |-> stage, fd |-> ret', pieces |-> ps]
             /\ before' = [fds |-> ramfs_file_descriptors, path |-> p, text |-> Line(<< >>),
                           content |-> content]
    <3> HIDE DEF ps, content
    <3>1. job'.stage = stage
      BY <2>2
    <3>2. before'.text = << >>
      BY <2>2, NoLine
    <3> QED BY <3>1, <3>2 DEF WriteInv
  <2> QED BY <1>1, <2>1, <2>2 DEF Begin
<1>2. ASSUME NEW p, cmd_cat(p) \/ cmd_touch(p) PROVE WriteInv'
  BY <1>1, <1>2 DEF cmd_cat, cmd_touch
<1>3. ASSUME NEW p, NEW t \in Texts, cmd_write(p, t) PROVE WriteInv'
  BY <1>0, <1>3, BeginWrite
<1>4. CASE CatNoMemory
  <2>1. job'.stage = "close" /\ before'.text = << >>
    BY <1>0, <1>4 DEF CatNoMemory, JobType, WriteInv
  <2> QED BY <2>1 DEF WriteInv
<1>5. CASE CatRead
  <2>1. PICK st : st = IF ret' > 0 THEN "read" ELSE "catclose"
    OBVIOUS
  <2>2. job' = [job EXCEPT !.stage = st]
    BY <1>5, <2>1 DEF CatRead
  <2>3. job'.stage = st
    BY <1>0, <2>2 DEF JobType
  <2>4. st \in {"read", "catclose"}
    BY <2>1
  <2> QED BY <2>3, <2>4 DEF WriteInv
<1>6. CASE WritePiece
  BY <1>0, <1>6, WritePieceKeeps
<1>7. CASE CommandClose
  <2>1. job'.stage = "none"
    BY <1>7 DEF CommandClose, Idle
  <2> QED BY <2>1 DEF WriteInv
<1>8. CASE OtherCall
  <2>1. job'.stage = "none"
    BY <1>8 DEF OtherCall, commandVars, Idle
  <2> QED BY <2>1 DEF WriteInv
<1>9. CASE UNCHANGED allVars
  <2>1. UNCHANGED <<ramfs_inodes, ramfs_pool, ramfs_pool_used, ramfs_file_descriptors, job, before>>
    BY <1>9 DEF allVars, vars, fsVars, commandVars
  <2>2. ASSUME NEW t, NEW T, NEW j, TextAt(t, T, j) PROVE TextAt(t, T, j)'
    BY <2>1, <2>2 DEF TextAt
  <2>3. ASSUME NEW g, WritesText(g) PROVE WritesText(g)'
    <3>1. JobFile' = JobFile /\ before' = before
      BY <2>1 DEF JobFile
    <3>2. PICK f : f = JobFile
      OBVIOUS
    <3>3. PICK s : s = InodeOfFd(f)
      OBVIOUS
    <3>4. InodeOfFd(JobFile)' = s
      BY <2>1, <3>1, <3>2, <3>3 DEF InodeOfFd
    <3>5. SameNames
      BY <2>1 DEF SameNames
    <3>6. PICK p : p = before.path
      OBVIOUS
    <3>7. FindInode(p)' = FindInode(p)
      BY <3>5, SameFound
    <3>8. FindInode(before.path)' = s
      <4>1. FindInode(before.path)' = FindInode(p)'
        BY <3>1, <3>6 DEF FindInode
      <4> QED BY <2>3, <3>2, <3>3, <3>6, <3>7, <4>1 DEF WritesText
    <3>9. PICK o : o = ramfs_file_descriptors[f].offset
      OBVIOUS
    <3>10. PICK old : old = before.content
      OBVIOUS
    <3>11. HasText(s, o, g, old)
      BY <2>3, <3>2, <3>3, <3>9, <3>10 DEF WritesText
    <3>12. HasText(s, o, g, old)'
      <4>1. Bytes(s)' = Bytes(s)
        BY <2>1, SameBytes
      <4>2. Full(s, o)' <=> Full(s, o)
        BY <2>1, SameFull
      <4> QED BY <2>1, <3>11, <4>1, <4>2 DEF HasText
    <3>13. (ramfs_file_descriptors[JobFile].append = FALSE)'
      <4>1. ramfs_file_descriptors[JobFile].append = FALSE
        BY <2>3, Zenon DEF WritesText
      <4>2. ramfs_file_descriptors'[JobFile'] = ramfs_file_descriptors[JobFile]
        BY <2>1, <3>1
      <4> QED BY <4>1, <4>2, Zenon
    <3>14. /\ s # None /\ (ramfs_file_descriptors[JobFile].acc = RDWR)'
           /\ (before.content \in Seq(Nat))' /\ before'.content = old
           /\ (ramfs_file_descriptors[JobFile].offset)' = o
      BY <2>1, <2>3, <3>1, <3>2, <3>3, <3>9, <3>10 DEF WritesText
    <3>15. HasText(InodeOfFd(JobFile), ramfs_file_descriptors[JobFile].offset, g, before.content)'
      BY <3>4, <3>12, <3>14 DEF HasText, Full
    <3> QED BY <3>4, <3>8, <3>13, <3>14, <3>15 DEF WritesText
  <2>4. job' = job /\ before' = before
    BY <2>1
  <2>5. \A t, T, j : TextAt(t, T, j) /\ WritesText(GivenTo(T, j)) =>
                       (TextAt(t, T, j) /\ WritesText(GivenTo(T, j)))'
    <3> SUFFICES ASSUME NEW t, NEW T, NEW j, TextAt(t, T, j), WritesText(GivenTo(T, j))
                 PROVE  (TextAt(t, T, j) /\ WritesText(GivenTo(T, j)))'
      OBVIOUS
    <3>1. PICK g : g = GivenTo(T, j)
      OBVIOUS
    <3>2. WritesText(g)'
      BY <2>3, <3>1
    <3>3. TextAt(t, T, j)'
      BY <2>2
    <3> QED BY <3>1, <3>2, <3>3
  <2>6. ASSUME job.stage = "write" \/ (job.stage = "close" /\ before.text # << >>)
        PROVE  \E t \in Texts : \E T, j : (TextAt(t, T, j) /\ WritesText(GivenTo(T, j)))'
    <3>1. PICK t \in Texts : \E T, j : TextAt(t, T, j) /\ WritesText(GivenTo(T, j))
      BY <2>6 DEF WriteInv
    <3>2. PICK T, j : TextAt(t, T, j) /\ WritesText(GivenTo(T, j))
      BY <3>1
    <3>3. (TextAt(t, T, j) /\ WritesText(GivenTo(T, j)))'
      BY <2>5, <3>2
    <3> QED BY <3>3
  <2> QED BY <2>4, <2>6 DEF WriteInv
<1> QED BY <1>2, <1>3, <1>4, <1>5, <1>6, <1>7, <1>8, <1>9 DEF NextCommands

LEMMA CapAlways == ClosingInv /\ CapInv /\ [NextCommands]_allVars => CapInv'
<1> SUFFICES ASSUME ClosingInv, CapInv, [NextCommands]_allVars PROVE CapInv'
  OBVIOUS
<1>1. RamInv /\ FsStep
  BY TableStep DEF ClosingInv, TableInv
<1>2. CASE Effect(Nat, Seq(Nat))
  BY <1>1, <1>2, CapStep
<1>3. CASE UNCHANGED vars
  BY <1>3 DEF vars, fsVars, CapInv, CapOk
<1> QED BY <1>1, <1>2, <1>3 DEF FsStep

LEMMA CapInit == InitCommands => CapInv
<1> SUFFICES ASSUME InitCommands, NEW s \in Slots PROVE CapOk(ramfs_inodes[s].capacity)
  BY DEF CapInv
<1>1. ramfs_inodes[s].capacity = 0
  BY DEF InitCommands, Init, FreeInode
<1> QED BY <1>1, PoolAssumption DEF CapOk

\* write puts its text over the beginning of the file and keeps what is behind it;
\* when it stores only a prefix the file cannot take another byte.  For any words of
\* a line, files of any size and a pool in any state.
THEOREM WriteHolds == SpecCommands /\ []RootStays => []WriteStoresPrefix
<1>1. InitCommands => WriteInv
  BY DEF InitCommands, WriteInv, Idle
<1>2. ClosingInv /\ ClosingInv' /\ CapInv /\ WriteInv /\ RootStays /\ [NextCommands]_allVars
        => WriteInv'
  BY WriteStep
<1>3. ClosingInv /\ WriteInv => WriteStoresPrefix
  <2> SUFFICES ASSUME ClosingInv, WriteInv, job.stage = "close", before.text # << >>
               PROVE  LET now == ContentOf(FindInode(before.path))
                          n == ramfs_file_descriptors[job.fd - FileBase].offset
                      IN  /\ n <= Len(before.text)
                          /\ now = SubSeq(before.text, 1, n)
                                      \o SubSeq(before.content, n + 1, Len(before.content))
                          /\ n < Len(before.text) =>
                                n = MaxFileSize \/ ~Reserve(FindInode(before.path), n + 1).ok
    BY DEF WriteStoresPrefix
  <2>1. PICK t \in Texts : \E T, j : TextAt(t, T, j) /\ WritesText(GivenTo(T, j))
    BY DEF WriteInv
  <2>2. PICK T, j : TextAt(t, T, j) /\ WritesText(GivenTo(T, j))
    BY <2>1
  <2>3. LineUpto(T, t) /\ before.text = T[Len(t)] /\ j = 2 * Len(t) - 1
    BY <2>2 DEF TextAt
  <2>4. Len(t) \in Nat /\ Len(t) > 0
    BY TextAssumption
  <2>5. j \in 0 .. 2 * Len(t) - 1
    BY <2>3, <2>4
  <2>6. PICK g : g = before.text
    OBVIOUS
  <2>7. GivenTo(T, j) = g /\ g \in Seq(Nat)
    BY <2>3, <2>5, <2>6, GivenIs
  <2>8. PICK s : s = FindInode(before.path)
    OBVIOUS
  <2>9. PICK o : o = ramfs_file_descriptors[JobFile].offset
    OBVIOUS
  <2>10. PICK old : old = before.content
    OBVIOUS
  <2>11. WritesText(g)
    BY <2>2, <2>7
  <2>12. s # None /\ old \in Seq(Nat) /\ HasText(s, o, g, old)
    BY <2>8, <2>9, <2>10, <2>11 DEF WritesText
  <2>13. o \in Nat
    <3>1. job # Idle
      BY StageNotIdle
    <3>2. JobFile \in Fds
      BY <3>1, JobFdNumber DEF ClosingInv, TableInv
    <3> QED BY <2>9, <3>2 DEF ClosingInv, TableInv, RamInv, RamType, FdType
  <2>14. o <= Len(g) /\ Bytes(s) = SubSeq(g, 1, o) \o SubSeq(old, o + 1, Len(old))
    BY <2>7, <2>12, <2>13, PatchedIs DEF HasText
  <2>15. o < Len(g) => o = MaxFileSize \/ ~Reserve(s, o + 1).ok
    BY <2>12 DEF HasText, Full
  <2>16. ContentOf(s) = Bytes(s)
    BY <2>12 DEF ContentOf, Bytes
  <2> QED BY <2>6, <2>8, <2>9, <2>10, <2>14, <2>15, <2>16 DEF JobFile
<1> QED
  BY <1>1, <1>2, <1>3, ClosingInit, ClosingStep, CapInit, CapAlways, PTL DEF SpecCommands
=============================================================================
