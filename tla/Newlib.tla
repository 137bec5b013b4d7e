------------------------------- MODULE Newlib -------------------------------
(***************************************************************************)
(* The file functions of libc/newlib/newlib_syscalls.c: each makes one system  *)
(* call and turns its answer into the result and the errno of C.  read of the  *)
(* console, which edits lines, is in module Shell.                            *)
(***************************************************************************)
EXTENDS Ramfs

VARIABLES
    errno,
    result,   \* what the function returned
    call      \* history: the function and its argument

newlibVars == <<errno, result, call>>

ENOTTY == 25
EMLINK == 31

NoCall == [op |-> "none", arg |-> 0]
InitNewlib == errno = 0 /\ result = 0 /\ call = NoCall

\* Mutant: errno is the answer itself.
MutantSysResult ==
    /\ result' = IF ret' \in -4095 .. -1 THEN -1 ELSE ret'
    /\ errno' = IF ret' \in -4095 .. -1 THEN ret' ELSE errno

\* sys_result(): -errno from the kernel becomes errno and -1.
sys_result ==
    /\ result' = IF ret' \in -4095 .. -1 THEN -1 ELSE ret'
    /\ errno' = IF ret' \in -4095 .. -1 THEN -ret' ELSE errno

\* Calls without error codes: every failure is e.
FixedErrno(e) ==
    /\ result' = IF ret' < 0 THEN -1 ELSE 0
    /\ errno' = IF ret' < 0 THEN e ELSE errno

\* A system call that is not made through these functions.
RawCall == call' = NoCall /\ UNCHANGED <<errno, result>>

Called(op, arg) == call' = [op |-> op, arg |-> arg]

open(path, fl) == OpenNew(path, fl) /\ sys_result /\ Called("open", [path |-> path, fl |-> fl])
stat(path) == Stat(path) /\ sys_result /\ Called("stat", path)
unlink(path) == Unlink(path) /\ FixedErrno(ENOENT) /\ Called("unlink", path)
mkdir(path) == Mkdir(path) /\ FixedErrno(EEXIST) /\ Called("mkdir", path)
rmdir(path) == Rmdir(path) /\ FixedErrno(ENOENT) /\ Called("rmdir", path)

\* There are no hard links, and no system call is made.
link == errno' = EMLINK /\ result' = -1 /\ Called("link", 0) /\ UNCHANGED vars

close(fd) == sys_close(fd) /\ sys_result /\ Called("close", fd)
read(fd, count) == fd # 0 /\ sys_read(fd, count) /\ sys_result /\ Called("read", fd)
write(fd, buf) == fd \notin {1, 2} /\ sys_write(fd, buf) /\ sys_result /\ Called("write", fd)
lseek(fd, o, w) ==
    /\ sys_lseek(fd, o, w) /\ sys_result
    /\ Called("lseek", [fd |-> fd, offset |-> o, whence |-> w])
fstat(fd) == sys_fstat(fd) /\ sys_result /\ Called("fstat", fd)

isatty(fd) ==
    /\ Called("isatty", fd)
    /\ IF fd < 0
       THEN errno' = EBADF /\ result' = 0 /\ UNCHANGED vars
       ELSE /\ sys_isatty(fd)
            /\ result' = ret'
            /\ errno' = IF ret' = 0 THEN ENOTTY ELSE errno

NextNewlib ==
    \/ \E p \in Paths :
          \/ \E fl \in OpenFlags : open(p, fl)
          \/ stat(p) \/ unlink(p) \/ mkdir(p) \/ rmdir(p)
    \/ \E fd \in FdArgs :
          \/ close(fd) \/ fstat(fd) \/ isatty(fd)
          \/ \E n \in ReadCounts : read(fd, n)
          \/ \E b \in Bufs : write(fd, b)
          \/ \E o \in Seeks, w \in Whences : lseek(fd, o, w)
    \/ link

-----------------------------------------------------------------------------
(* Properties.                                                              *)

\* An open descriptor whose file still exists, however slots were reused.
Alive(fd) ==
    /\ fd - FileBase \in Fds /\ ramfs_file_descriptors[fd - FileBase].ino # 0
    /\ \E s \in Used : ramfs_inodes[s].ino = ramfs_file_descriptors[fd - FileBase].ino

Acc(fd) == ramfs_file_descriptors[fd - FileBase].acc

\* Where a write through descriptor f of ramfs goes, and where a seek leads.
WriteTarget(f) ==
    IF ramfs_file_descriptors[f].append THEN ramfs_inodes[InodeOfFd(f)].size
    ELSE ramfs_file_descriptors[f].offset
SeekTarget(f, a) ==
    LET base == CASE a.whence = "set" -> 0
                  [] a.whence = "cur" -> ramfs_file_descriptors[f].offset
                  [] a.whence = "end" -> ramfs_inodes[InodeOfFd(f)].size
    IN  base + a.offset

\* What errno = e means after a call with these arguments failed, in the state
\* before the call.
OpenWhy(a, e) ==
    LET s == FindInode(a.path)
    IN  \/ e = ENOENT /\ s = None /\ (a.fl.creat /\ CanCreate(a.path) => FindFreeFd = None)
        \/ e = EEXIST /\ s # None /\ a.fl.creat /\ a.fl.excl
        \/ e = EISDIR /\ s # None /\ ramfs_inodes[s].type = "dir"
        \/ e = EMFILE /\ s # None /\ ramfs_inodes[s].type = "file" /\ FindFreeFd = None

PathWhy(op, path, e) ==
    LET s == FindInode(path)
    IN  \/ op = "stat" /\ e = ENOENT /\ s = None
        \/ op = "unlink" /\ e = ENOENT /\ (s = None \/ ramfs_inodes[s].type = "dir")
        \/ op = "rmdir" /\ e = ENOENT /\ (s = None \/ ramfs_inodes[s].type = "file")
        \/ op = "mkdir" /\ e = EEXIST /\ (s # None \/ ~CanCreate(path))

FdWhy(op, fd, e) ==
    LET f == fd - FileBase
    IN  \/ op = "close" /\ e = EBADF /\ (f \in Fds => ramfs_file_descriptors[f].ino = 0)
        \/ op = "fstat" /\ e = EBADF /\ ~Alive(fd)
        \/ op = "isatty" /\ e = EBADF /\ fd < 0
        \/ op = "isatty" /\ e = ENOTTY /\ fd >= FileBase
        \/ op = "read" /\ e = EBADF /\ (Alive(fd) => Acc(fd) = WRONLY)
        \/ op = "write" /\ e = EBADF /\ (Alive(fd) => Acc(fd) = RDONLY)
        \/ /\ op = "write" /\ e = ENOSPC /\ Alive(fd) /\ Acc(fd) # RDONLY
           /\ WriteTarget(f) >= MaxFileSize \/ WriteTarget(f) >= ramfs_inodes[InodeOfFd(f)].capacity

LseekWhy(a, e) ==
    \/ e = EBADF /\ ~Alive(a.fd)
    \/ e = ESPIPE /\ IsConsole(a.fd)
    \/ /\ e = EINVAL /\ Alive(a.fd)
       /\ a.whence = "other" \/ SeekTarget(a.fd - FileBase, a) \notin 0 .. MaxFileSize

Why(c, e) ==
    CASE c.op = "open" -> OpenWhy(c.arg, e)
      [] c.op \in {"stat", "unlink", "rmdir", "mkdir"} -> PathWhy(c.op, c.arg, e)
      [] c.op \in {"close", "fstat", "isatty", "read", "write"} -> FdWhy(c.op, c.arg, e)
      [] c.op = "lseek" -> LseekWhy(c.arg, e)
      [] c.op = "link" -> e = EMLINK

\* A failed call changed no file and no descriptor, with two exceptions: an open
\* that found no free descriptor for the file it made, and the offset of an append
\* descriptor that nothing could be written through.
Spares(c, e) ==
    \/ UNCHANGED <<fsVars, ramfs_file_descriptors, ramfs_next_inode>>
    \/ /\ c.op = "open" /\ e = ENOENT /\ FindFreeFd = None
       /\ UNCHANGED <<ramfs_pool, ramfs_pool_used, ramfs_file_descriptors>>
    \/ c.op = "write" /\ e = ENOSPC /\ UNCHANGED <<fsVars, ramfs_next_inode>>

\* isatty fails with 0, the other functions with -1.
Failing == result' = IF call'.op = "isatty" THEN 0 ELSE -1
FailureTold == call' # NoCall /\ Failing => Why(call', errno') /\ Spares(call', errno')

\* When a function of newlib fails, errno is that of a reason that was there before
\* the call, and the call spared the tables.  For a descriptor, EBADF means that it
\* is not open, that its file was removed though its slot may be in use again, or
\* its access mode.  unlink, rmdir and mkdir have one errno for every failure and
\* tell less: ENOENT from unlink also for a directory, from rmdir also for a file,
\* and EEXIST from mkdir also for a missing parent or a full table, where it is not
\* true.  Nor is ENOENT from open the reason when a file cannot be made, or is made
\* and gets no descriptor.
ErrnoTells == [][FailureTold]_<<vars, newlibVars>>

\* ramfs.c, ramfs_write: "Write what fits (a short write), and only fail when
\* nothing does."  When a write fails with ENOSPC, the file is as long as a file
\* can be, or one byte more has no place: its block is full, and neither it nor a
\* new one could be had with room for that byte.
WriteFailsOnlyWhenFull ==
    [][call'.op = "write" /\ result' = -1 /\ errno' = ENOSPC =>
          LET f == call'.arg - FileBase
              nd == ramfs_inodes[InodeOfFd(f)]
              off == WriteTarget(f)
              start == IF IsNewest(InodeOfFd(f)) THEN nd.data ELSE ramfs_pool_used
          IN  \/ off >= MaxFileSize
              \/ off >= nd.capacity /\ start + AlignUp(off + 1) > PoolSize]_<<vars, newlibVars>>
=============================================================================
