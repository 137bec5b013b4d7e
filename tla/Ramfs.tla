------------------------------- MODULE Ramfs -------------------------------
(***************************************************************************)
(* The file system in memory of kernel/kernel/ramfs.c under the file system  *)
(* calls of kernel/arch/i386/interrupt.c: the table of inodes with the tree   *)
(* of names, the descriptors, and the pool that file contents live in.        *)
(*                                                                         *)
(* File contents are blocks of one pool that only grows at its end: a block   *)
(* is enlarged in place when it is the newest, otherwise copied to the end,   *)
(* and given back only when it is the newest at the time of its removal.      *)
(*                                                                         *)
(* A path is the sequence of its names, the empty one is the root.  Empty     *)
(* names in the middle of a path are skipped by the code; one at the end is    *)
(* a name like any other.  The calls of one task do not overlap those of       *)
(* another, so each is one step.                                              *)
(***************************************************************************)
EXTENDS Integers, Sequences

CONSTANTS
    MaxFiles,     \* RAMFS_MAX_FILES
    MaxFds,       \* length of ramfs_file_descriptors
    MaxFileSize,  \* RAMFS_MAX_FILESIZE
    PoolSize,     \* RAMFS_POOL_SIZE
    FirstCap,     \* 256, the capacity a file starts with
    Align,        \* 16
    MaxIno,       \* bound on ramfs_next_inode
    FileBase,     \* CHALES_FD_FILE_BASE
    FdArgs,       \* descriptors that programs pass
    Paths,        \* paths that are used, sequences of names
    Bufs,         \* buffers that are written, sequences of bytes
    ReadCounts,   \* counts of read
    Seeks,        \* offsets of lseek
    OpenFlags     \* flags of open2: [creat, excl, trunc, append : BOOLEAN, acc : 0 .. 3]

ASSUME TableAssumption ==
    /\ MaxFiles \in Nat \ {0} /\ MaxFds \in Nat /\ MaxIno \in Nat
    /\ FileBase \in Nat /\ FdArgs \subseteq Int

\* The sizes are multiples of the alignment, as in ramfs.h.
ASSUME PoolAssumption ==
    /\ MaxFileSize \in Nat /\ PoolSize \in Nat
    /\ Align \in Nat \ {0} /\ FirstCap \in Nat \ {0}
    /\ MaxFileSize % Align = 0

ASSUME ArgumentAssumption ==
    /\ \A b \in Bufs : b \in Seq(Nat)
    /\ ReadCounts \subseteq Nat /\ Seeks \subseteq Int
    /\ \A f \in OpenFlags : f.acc \in 0 .. 3 /\ f.append \in BOOLEAN

VARIABLES
    ramfs_inodes,
    ramfs_pool,
    ramfs_pool_used,
    ramfs_file_descriptors,
    ramfs_next_inode,
    ret,      \* result of the last call
    out       \* bytes the last call returned in the caller's buffer

fsVars == <<ramfs_inodes, ramfs_pool, ramfs_pool_used>>
vars == <<fsVars, ramfs_file_descriptors, ramfs_next_inode, ret, out>>

Slots == 0 .. MaxFiles - 1
Fds == 0 .. MaxFds - 1
Null == -1
None == -1
Failed == -1       \* of the calls that have no error codes
\* Error codes of sys/abi.h.
ENOENT == 2
EBADF == 9
EEXIST == 17
EISDIR == 21
EINVAL == 22
EMFILE == 24
ENOSPC == 28
ESPIPE == 29
RDONLY == 0
WRONLY == 1
RDWR == 2

\* A record of zeroes: no inode.  RAMFS_TYPE_FILE is 0.
FreeInode == [ino |-> 0, type |-> "file", name |-> "", size |-> 0, parent |-> 0,
              data |-> Null, capacity |-> 0]
FreeFd == [ino |-> 0, offset |-> 0, acc |-> RDONLY, append |-> FALSE]

-----------------------------------------------------------------------------
(* ramfs_init(), before ramfs_populate(), which makes calls modelled below.  *)
Init ==
    /\ ramfs_inodes = [s \in Slots |->
          IF s = 0 THEN [FreeInode EXCEPT !.type = "dir", !.name = "/"] ELSE FreeInode]
    /\ ramfs_pool = [i \in 0 .. PoolSize - 1 |-> 0]
    /\ ramfs_pool_used = 0
    /\ ramfs_file_descriptors = [f \in Fds |-> FreeFd]
    /\ ramfs_next_inode = 1
    /\ ret = 0 /\ out = << >>

-----------------------------------------------------------------------------
(* Lookup: loops over the table that return the first match.                 *)
First(S) == IF S = {} THEN None ELSE CHOOSE s \in S : \A t \in S : s <= t

Entries(dir, name) ==
    {s \in Slots : /\ ramfs_inodes[s].ino # 0
                   /\ ramfs_inodes[s].parent = dir
                   /\ ramfs_inodes[s].name = name}

\* ramfs_resolve_dir(): the ino of the directory, segment by segment.
ResolveDir(segs) ==
    LET SubDirs(dir, name) == {s \in Entries(dir, name) : ramfs_inodes[s].type = "dir"}
        walk[k \in 0 .. Len(segs)] ==
            IF k = 0 THEN 0
            ELSE IF walk[k - 1] = None \/ SubDirs(walk[k - 1], segs[k]) = {} THEN None
            ELSE ramfs_inodes[First(SubDirs(walk[k - 1], segs[k]))].ino
    IN  walk[Len(segs)]

\* ramfs_split_path()
DirOf(path) == SubSeq(path, 1, Len(path) - 1)
NameOf(path) == path[Len(path)]

\* ramfs_find_inode(): a slot, the root's for the empty path.
FindInode(path) ==
    IF path = << >> THEN 0
    ELSE IF ResolveDir(DirOf(path)) = None THEN None
    ELSE First(Entries(ResolveDir(DirOf(path)), NameOf(path)))

FindFreeInode == First({s \in Slots \ {0} : ramfs_inodes[s].ino = 0})
FindFreeFd == First({f \in Fds : ramfs_file_descriptors[f].ino = 0})

\* The slot of the inode that descriptor f refers to.
InodeOfFd(f) == First({s \in Slots : ramfs_inodes[s].ino = ramfs_file_descriptors[f].ino})

-----------------------------------------------------------------------------
(* Names.                                                                   *)

\* Mutant of NewInode: the slot is the number, so numbers are used again.
MutantNewInode(path, type) ==
    [FreeInode EXCEPT !.ino = FindFreeInode, !.type = type, !.name = NameOf(path),
                      !.parent = ResolveDir(DirOf(path))]

\* A new inode for path, from ramfs_open and ramfs_mkdir.
NewInode(path, type) ==
    [FreeInode EXCEPT !.ino = ramfs_next_inode, !.type = type, !.name = NameOf(path),
                      !.parent = ResolveDir(DirOf(path))]

CanCreate(path) == FindFreeInode # None /\ ResolveDir(DirOf(path)) # None

Create(path, type) ==
    /\ ramfs_next_inode <= MaxIno
    /\ ramfs_inodes' = [ramfs_inodes EXCEPT ![FindFreeInode] = NewInode(path, type)]
    /\ ramfs_next_inode' = ramfs_next_inode + 1

\* Programs see the descriptors after those of the console.
sys_wrap_fd(f) == f + FileBase

\* A descriptor for the inode number i, or the answer e when none is free.
OpenFd(i, acc, append, e) ==
    IF FindFreeFd = None
    THEN ret' = e /\ UNCHANGED ramfs_file_descriptors
    ELSE /\ ret' = sys_wrap_fd(FindFreeFd)
         /\ ramfs_file_descriptors' = [ramfs_file_descriptors EXCEPT
               ![FindFreeFd] = [ino |-> i, offset |-> 0, acc |-> acc, append |-> append]]

Fail(e) == ret' = e /\ UNCHANGED <<fsVars, ramfs_file_descriptors, ramfs_next_inode>>

\* ramfs_open(path, flags), the old interface.
OpenOld(path, creat) ==
    LET s == FindInode(path)
    IN  /\ out' = << >>
        /\ \/ /\ s = None /\ creat /\ CanCreate(path)
              /\ Create(path, "file")
              /\ OpenFd(ramfs_next_inode, RDWR, FALSE, Failed)
              /\ UNCHANGED <<ramfs_pool, ramfs_pool_used>>
           \/ /\ s = None /\ ~(creat /\ CanCreate(path))
              /\ Fail(Failed)
           \/ /\ s # None /\ ramfs_inodes[s].type # "file"
              /\ Fail(Failed)
           \/ /\ s # None /\ ramfs_inodes[s].type = "file"
              /\ OpenFd(ramfs_inodes[s].ino, RDWR, FALSE, Failed)
              /\ UNCHANGED <<fsVars, ramfs_next_inode>>

\* Mutant of OpenNew: truncates before it has a descriptor.
MutantOpenNew(path, fl) ==
    LET s == FindInode(path)
    IN  /\ out' = << >>
        /\ \/ /\ s = None /\ ~CanCreate(path)
              /\ Fail(-ENOENT)
           \/ /\ s = None /\ CanCreate(path)
              /\ Create(path, "file")
              /\ OpenFd(ramfs_next_inode, fl.acc, fl.append, -EMFILE)
              /\ UNCHANGED <<ramfs_pool, ramfs_pool_used>>
           \/ /\ s # None
              /\ OpenFd(ramfs_inodes[s].ino, fl.acc, fl.append, -EMFILE)
              /\ ramfs_inodes' = [ramfs_inodes EXCEPT ![s].size = 0]
              /\ UNCHANGED <<ramfs_pool, ramfs_pool_used, ramfs_next_inode>>

\* ramfs_open2(path, oflags).  A new file is made by ramfs_open and its
\* descriptor closed again.
OpenNew(path, fl) ==
    LET s == FindInode(path)
    IN  /\ out' = << >>
        /\ \/ /\ s # None /\ fl.creat /\ fl.excl
              /\ Fail(-EEXIST)
           \/ /\ s = None /\ fl.creat /\ CanCreate(path)
              /\ Create(path, "file")
              /\ OpenFd(ramfs_next_inode, fl.acc, fl.append, -ENOENT)
              /\ UNCHANGED <<ramfs_pool, ramfs_pool_used>>
           \/ /\ s = None /\ ~(fl.creat /\ CanCreate(path))
              /\ Fail(-ENOENT)
           \/ /\ s # None /\ ~(fl.creat /\ fl.excl) /\ ramfs_inodes[s].type = "dir"
              /\ Fail(-EISDIR)
           \/ /\ s # None /\ ~(fl.creat /\ fl.excl) /\ ramfs_inodes[s].type = "file"
              /\ OpenFd(ramfs_inodes[s].ino, fl.acc, fl.append, -EMFILE)
              /\ ramfs_inodes' =
                    IF FindFreeFd # None /\ fl.trunc /\ fl.acc # RDONLY
                    THEN [ramfs_inodes EXCEPT ![s].size = 0] ELSE ramfs_inodes
              /\ UNCHANGED <<ramfs_pool, ramfs_pool_used, ramfs_next_inode>>

\* Mutant of Mkdir: does not see that the name exists.
MutantMkdir(path) ==
    /\ out' = << >>
    /\ IF path # << >> /\ CanCreate(path)
       THEN /\ Create(path, "dir") /\ ret' = 0
            /\ UNCHANGED <<ramfs_pool, ramfs_pool_used, ramfs_file_descriptors>>
       ELSE Fail(Failed)

Mkdir(path) ==
    /\ out' = << >>
    /\ IF FindInode(path) = None /\ CanCreate(path)
       THEN /\ Create(path, "dir") /\ ret' = 0
            /\ UNCHANGED <<ramfs_pool, ramfs_pool_used, ramfs_file_descriptors>>
       ELSE Fail(Failed)

Rmdir(path) ==
    LET s == FindInode(path)
    IN  /\ out' = << >>
        /\ IF s # None /\ ramfs_inodes[s].type = "dir"
           THEN /\ ramfs_inodes' = [ramfs_inodes EXCEPT ![s] = FreeInode]
                /\ ret' = 0
                /\ UNCHANGED <<ramfs_pool, ramfs_pool_used, ramfs_file_descriptors,
                               ramfs_next_inode>>
           ELSE Fail(Failed)

\* The inode has the last block of the pool.
IsNewest(s) ==
    /\ ramfs_inodes[s].data # Null
    /\ ramfs_inodes[s].data + ramfs_inodes[s].capacity = ramfs_pool_used

\* ramfs_unlink() with ramfs_release().
Unlink(path) ==
    LET s == FindInode(path)
    IN  /\ out' = << >>
        /\ IF s # None /\ ramfs_inodes[s].type = "file"
           THEN /\ ramfs_pool_used' = IF IsNewest(s)
                                      THEN ramfs_pool_used - ramfs_inodes[s].capacity
                                      ELSE ramfs_pool_used
                /\ ramfs_inodes' = [ramfs_inodes EXCEPT ![s] = FreeInode]
                /\ ret' = 0
                /\ UNCHANGED <<ramfs_pool, ramfs_file_descriptors, ramfs_next_inode>>
           ELSE Fail(Failed)

-----------------------------------------------------------------------------
(* Contents.                                                                *)
Close(f) ==
    /\ out' = << >>
    /\ IF f \in Fds /\ ramfs_file_descriptors[f].ino # 0
       THEN /\ ramfs_file_descriptors' = [ramfs_file_descriptors EXCEPT ![f] = FreeFd]
            /\ ret' = 0
            /\ UNCHANGED <<fsVars, ramfs_next_inode>>
       ELSE Fail(-EBADF)

\* The descriptor is open and its file still exists.
Usable(f) ==
    /\ f \in Fds /\ ramfs_file_descriptors[f].ino # 0
    /\ InodeOfFd(f) # None
    /\ ramfs_inodes[InodeOfFd(f)].type = "file"

\* The bytes from ..  to - 1 of the file in slot s.
Content(s, from, to) == [i \in 1 .. to - from |-> ramfs_pool[ramfs_inodes[s].data + from + i - 1]]

Read(f, count) ==
    LET fd == ramfs_file_descriptors[f]
        s  == InodeOfFd(f)
        rest == ramfs_inodes[s].size - fd.offset
        n  == IF rest <= 0 THEN 0 ELSE IF count < rest THEN count ELSE rest
    IN  IF Usable(f) /\ fd.acc # WRONLY
        THEN /\ ret' = n
             /\ out' = Content(s, fd.offset, fd.offset + n)
             /\ ramfs_file_descriptors' = [ramfs_file_descriptors EXCEPT ![f].offset = @ + n]
             /\ UNCHANGED <<fsVars, ramfs_next_inode>>
        ELSE Fail(-EBADF) /\ out' = << >>

AlignUp(n) == ((n + Align - 1) \div Align) * Align

\* The capacity ramfs_reserve() asks for: doubled, at least what is needed, at
\* most the largest file.
NewCap(c, needed) ==
    LET twice == IF c = 0 THEN FirstCap ELSE 2 * c
        cap == IF twice < needed THEN needed ELSE twice
    IN  AlignUp(IF cap > MaxFileSize THEN MaxFileSize ELSE cap)

\* Mutant of Reserve: every block grows in place.
MutantReserve(s, needed) ==
    LET nd == ramfs_inodes[s]
        cap == NewCap(nd.capacity, needed)
        start == IF nd.data # Null THEN nd.data ELSE ramfs_pool_used
    IN  IF needed <= nd.capacity \/ start + cap > PoolSize
        THEN [ok |-> needed <= nd.capacity, data |-> nd.data, capacity |-> nd.capacity,
              used |-> ramfs_pool_used]
        ELSE [ok |-> TRUE, data |-> start, capacity |-> cap,
              used |-> IF start + cap > ramfs_pool_used THEN start + cap ELSE ramfs_pool_used]

\* ramfs_reserve(): what the inode and the end of the pool become.  In place
\* for the newest block, otherwise in a new block at the end.
Reserve(s, needed) ==
    LET nd == ramfs_inodes[s]
        cap == NewCap(nd.capacity, needed)
        start == IF IsNewest(s) THEN nd.data ELSE ramfs_pool_used
    IN  IF needed <= nd.capacity
        THEN [ok |-> TRUE, data |-> nd.data, capacity |-> nd.capacity, used |-> ramfs_pool_used]
        ELSE IF start + cap <= PoolSize
        THEN [ok |-> TRUE, data |-> start, capacity |-> cap, used |-> start + cap]
        ELSE [ok |-> FALSE, data |-> nd.data, capacity |-> nd.capacity, used |-> ramfs_pool_used]

\* Mutant of StoredPool: the hole keeps what was in the pool.
MutantStoredPool(s, r, off, buf, n) ==
    LET nd == ramfs_inodes[s]
    IN  [i \in 0 .. PoolSize - 1 |->
            LET j == i - r.data
            IN  IF j \in off .. off + n - 1 THEN buf[j - off + 1]
                ELSE IF j \in 0 .. nd.size - 1 /\ r.data # nd.data THEN ramfs_pool[nd.data + j]
                ELSE ramfs_pool[i]]

\* The pool after the contents moved to r.data, the hole between the end of
\* the file and off was zeroed and n bytes of buf were stored at off.
StoredPool(s, r, off, buf, n) ==
    LET nd == ramfs_inodes[s]
    IN  [i \in 0 .. PoolSize - 1 |->
            LET j == i - r.data
            IN  IF j \in off .. off + n - 1 THEN buf[j - off + 1]
                ELSE IF j \in nd.size .. off - 1 THEN 0
                ELSE IF j \in 0 .. nd.size - 1 /\ r.data # nd.data THEN ramfs_pool[nd.data + j]
                ELSE ramfs_pool[i]]

\* The bytes of a write of count at off that fit below the largest size.
Clip(off, count) == IF off + count > MaxFileSize THEN MaxFileSize - off ELSE count

\* ramfs_write() once it knows the descriptor, the slot and the offset.
WriteAt(f, s, off, buf) ==
    LET nd == ramfs_inodes[s]
        want == Clip(off, Len(buf))
        r == Reserve(s, off + want)
        n == IF r.ok THEN want ELSE nd.capacity - off
    IN  IF Len(buf) = 0 \/ off >= MaxFileSize \/ n <= 0
        THEN /\ ret' = IF Len(buf) = 0 THEN 0 ELSE -ENOSPC
             /\ ramfs_file_descriptors' = [ramfs_file_descriptors EXCEPT ![f].offset = off]
             /\ UNCHANGED <<fsVars, ramfs_next_inode>>
        ELSE /\ ret' = n
             /\ ramfs_pool' = StoredPool(s, r, off, buf, n)
             /\ ramfs_pool_used' = r.used
             /\ ramfs_inodes' = [ramfs_inodes EXCEPT
                   ![s].data = r.data, ![s].capacity = r.capacity,
                   ![s].size = IF off + n > @ THEN off + n ELSE @]
             /\ ramfs_file_descriptors' = [ramfs_file_descriptors EXCEPT ![f].offset = off + n]
             /\ UNCHANGED ramfs_next_inode

Write(f, buf) ==
    LET fd == ramfs_file_descriptors[f]
        s == InodeOfFd(f)
    IN  /\ out' = << >>
        /\ IF Usable(f) /\ fd.acc # RDONLY
           THEN WriteAt(f, s, IF fd.append THEN ramfs_inodes[s].size ELSE fd.offset, buf)
           ELSE Fail(-EBADF)

Whences == {"set", "cur", "end", "other"}

Lseek(f, offset, whence) ==
    LET fd == ramfs_file_descriptors[f]
        base == CASE whence = "set" -> 0
                  [] whence = "cur" -> fd.offset
                  [] whence = "end" -> ramfs_inodes[InodeOfFd(f)].size
        pos == base + offset
    IN  /\ out' = << >>
        /\ IF ~(f \in Fds /\ fd.ino # 0 /\ InodeOfFd(f) # None)
           THEN Fail(-EBADF)
           ELSE IF whence = "other" \/ pos \notin 0 .. MaxFileSize
           THEN Fail(-EINVAL)
           ELSE /\ ret' = pos
                /\ ramfs_file_descriptors' = [ramfs_file_descriptors EXCEPT ![f].offset = pos]
                /\ UNCHANGED <<fsVars, ramfs_next_inode>>

\* ramfs_fstat() and ramfs_stat(): the size, 0 for a directory.
StatSize(s) == IF ramfs_inodes[s].type = "dir" THEN 0 ELSE ramfs_inodes[s].size

StatResult(s, e) ==
    /\ ret' = IF s = None THEN e ELSE 0
    /\ out' = IF s = None THEN << >> ELSE <<StatSize(s)>>
    /\ UNCHANGED <<fsVars, ramfs_file_descriptors, ramfs_next_inode>>

Fstat(f) ==
    StatResult(IF f \in Fds /\ ramfs_file_descriptors[f].ino # 0 THEN InodeOfFd(f) ELSE None, -EBADF)
Stat(path) == StatResult(FindInode(path), -ENOENT)

-----------------------------------------------------------------------------
(* The calls on descriptors.  Those of the console have no state here; what    *)
(* is read from it and written to it is in the modules Keyboard and Shell.    *)
IsConsole(fd) == fd \in 0 .. FileBase - 1
Answer(r, data) ==
    ret' = r /\ out' = data /\ UNCHANGED <<fsVars, ramfs_file_descriptors, ramfs_next_inode>>

sys_close(fd) == IF IsConsole(fd) THEN Answer(0, << >>) ELSE Close(fd - FileBase)

\* Not for fd 0.
sys_read(fd, count) ==
    IF fd < FileBase THEN Answer(-EBADF, << >>) ELSE Read(fd - FileBase, count)

\* Not for fd 1 and 2.
sys_write(fd, buf) ==
    IF fd < FileBase THEN Answer(-EBADF, << >>) ELSE Write(fd - FileBase, buf)

sys_lseek(fd, offset, whence) ==
    IF IsConsole(fd) THEN Answer(-ESPIPE, << >>) ELSE Lseek(fd - FileBase, offset, whence)

sys_fstat(fd) == IF IsConsole(fd) THEN Answer(0, <<0>>) ELSE Fstat(fd - FileBase)

\* Any file descriptor is "not a terminal", open or not.
sys_isatty(fd) == Answer(IF IsConsole(fd) THEN 1 ELSE 0, << >>)

Next ==
    \/ \E p \in Paths :
          \/ \E creat \in BOOLEAN : OpenOld(p, creat)
          \/ \E fl \in OpenFlags : OpenNew(p, fl)
          \/ Mkdir(p) \/ Rmdir(p) \/ Unlink(p) \/ Stat(p)
    \/ \E fd \in FdArgs :
          \/ sys_close(fd) \/ sys_fstat(fd) \/ sys_isatty(fd)
          \/ fd # 0 /\ \E n \in ReadCounts : sys_read(fd, n)
          \/ fd \notin {1, 2} /\ \E b \in Bufs : sys_write(fd, b)
          \/ \E o \in Seeks, w \in Whences : sys_lseek(fd, o, w)

Spec == Init /\ [][Next]_vars

-----------------------------------------------------------------------------
(* Properties.                                                              *)
Used == {s \in Slots : ramfs_inodes[s].ino # 0}
Files == {s \in Used : ramfs_inodes[s].type = "file"}

BlockEnd(s) == ramfs_inodes[s].data + ramfs_inodes[s].capacity

\* The contents of files lie in the used part of the pool, no two files share a
\* byte of it, and no file is longer than its block: through growth in place,
\* moves to the end, truncation and the release of the newest block.
BlocksApart ==
    /\ ramfs_pool_used <= PoolSize
    /\ \A s \in Slots :
          /\ ramfs_inodes[s].size <= ramfs_inodes[s].capacity
          /\ ramfs_inodes[s].capacity > 0 =>
                s \in Files /\ ramfs_inodes[s].data # Null /\ BlockEnd(s) <= ramfs_pool_used
    /\ \A s, t \in Files :
          s # t /\ ramfs_inodes[s].capacity > 0 /\ ramfs_inodes[t].capacity > 0
             => BlockEnd(s) <= ramfs_inodes[t].data \/ BlockEnd(t) <= ramfs_inodes[s].data

\* A path names one file: no two inodes have the same directory and name, and
\* no two the same number.
NamesUnique ==
    \A s, t \in Used :
       s # t => /\ ramfs_inodes[s].ino # ramfs_inodes[t].ino
                /\ \/ ramfs_inodes[s].parent # ramfs_inodes[t].parent
                   \/ ramfs_inodes[s].name # ramfs_inodes[t].name

\* A descriptor keeps its file: while it is open it never comes to mean a file
\* made after it was opened, though slots are reused.
FdKeepsFile ==
    [][\A f \in Fds :
          LET i == ramfs_file_descriptors[f].ino
          IN  i # 0 /\ ramfs_file_descriptors'[f].ino # 0 =>
                 /\ ramfs_file_descriptors'[f].ino = i
                 /\ \A s \in Slots : ramfs_inodes'[s].ino = i => ramfs_inodes[s].ino = i]_vars

\* A call that answers with an error changes no file, no name and no descriptor,
\* with two exceptions: opening a new file with all descriptors taken leaves the
\* file behind, and a write to an append descriptor moves its offset first.
FailedCallHarmless ==
    [][ret' < 0 =>
          /\ UNCHANGED <<ramfs_pool, ramfs_pool_used>>
          /\ ramfs_inodes' # ramfs_inodes =>
                /\ FindFreeFd = None
                /\ \A s \in Used : ramfs_inodes'[s] = ramfs_inodes[s]
          /\ \A f \in Fds :
                ramfs_file_descriptors'[f] # ramfs_file_descriptors[f] =>
                   ramfs_file_descriptors[f].append /\ ret' = -ENOSPC]_vars

\* Contents seen through the table, by inode number.
FileNumbers == {ramfs_inodes[s].ino : s \in Files}
SlotOf(i) == CHOOSE s \in Files : ramfs_inodes[s].ino = i
Contents == [i \in FileNumbers |-> Content(SlotOf(i), 0, ramfs_inodes[SlotOf(i)].size)]

\* ramfs.c stores files: behind the pool, the growing and moving blocks and the
\* reuse of slots, each file is a sequence of bytes that only writes to it and
\* truncation change, and reads return.
FS == INSTANCE FileStore WITH files <- Contents, fds <- ramfs_file_descriptors
ImplementsFileStore == FS!Spec
=============================================================================
