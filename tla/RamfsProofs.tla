---------------------------- MODULE RamfsProofs ----------------------------
(***************************************************************************)
(* Proofs about the file system (module Ramfs), for tables, descriptors and   *)
(* a pool of any size, any alignment and any paths, buffers and offsets.      *)
(*                                                                         *)
(* Every call has one of seven effects on the tables; the lemmas of the first  *)
(* half say which, and the invariants are proved effect by effect.            *)
(***************************************************************************)
EXTENDS Ramfs, WellFoundedInduction, TLAPS

-----------------------------------------------------------------------------
(* The loops that return the first match.                                    *)

\* The least element of a set of naturals.
LEMMA Smallest ==
    ASSUME NEW S \in SUBSET Nat, S # {}
    PROVE  \E m \in S : \A k \in S : m <= k
  <1>1. PICK m \in S : \A k \in S : ~(<<k, m>> \in OpToRel(<, Nat))
    BY WFMin, NatLessThanWellFounded, Zenon
  <1>2. \A k \in S : ~(k < m) BY <1>1, Zenon DEF OpToRel
  <1> QED BY <1>2

\* First fails exactly when nothing matches.
LEMMA FirstMatch ==
    ASSUME NEW S \in SUBSET Nat
    PROVE  /\ S = {} => First(S) = None
           /\ S # {} => First(S) \in S /\ First(S) # None
  <1>1. CASE S = {} BY <1>1 DEF First
  <1>2. CASE S # {}
    <2>1. \E m \in S : \A k \in S : m <= k BY <1>2, Smallest
    <2>2. First(S) \in S BY <2>1, <1>2, Zenon DEF First
    <2>3. First(S) \in Nat BY <2>2
    <2>4. First(S) # None
      <3> DEFINE x == First(S)
      <3>1. x \in Nat BY <2>3
      <3> HIDE DEF x
      <3>2. x # None BY <3>1 DEF None
      <3> QED BY <3>2 DEF x
    <2> QED BY <2>2, <2>4, <1>2
  <1> QED BY <1>1, <1>2

LEMMA TablesAreNat == Slots \subseteq Nat /\ Fds \subseteq Nat /\ 0 \in Slots
  BY TableAssumption DEF Slots, Fds

LEMMA FindInodeIs ==
    ASSUME NEW path, FindInode(path) # None
    PROVE  /\ FindInode(path) \in Slots
           /\ FindInode(path) = 0 \/ ramfs_inodes[FindInode(path)].ino # 0
  <1>1. CASE path = << >> BY <1>1, TablesAreNat DEF FindInode
  <1>2. CASE path # << >>
    <2> DEFINE S == Entries(ResolveDir(DirOf(path)), NameOf(path))
    <2>1. FindInode(path) = First(S) BY <1>2 DEF FindInode
    <2>2. S \subseteq Slots /\ \A s \in S : ramfs_inodes[s].ino # 0 BY DEF Entries
    <2>3. S \in SUBSET Nat BY <2>2, TablesAreNat
    <2> HIDE DEF S
    <2>4. First(S) \in S BY <2>1, <2>3, FirstMatch
    <2> QED BY <2>1, <2>2, <2>4
  <1> QED BY <1>1, <1>2

\* A path that names nothing has no entry in its directory.
LEMMA FindInodeNone ==
    ASSUME NEW path, FindInode(path) = None, ResolveDir(DirOf(path)) # None
    PROVE  path # << >> /\ Entries(ResolveDir(DirOf(path)), NameOf(path)) = {}
  <1>1. path # << >> BY DEF FindInode, None
  <1> DEFINE S == Entries(ResolveDir(DirOf(path)), NameOf(path))
  <1>2. First(S) = None BY <1>1 DEF FindInode
  <1>3. S \in SUBSET Nat BY TablesAreNat DEF Entries
  <1> HIDE DEF S
  <1>4. S = {} BY <1>2, <1>3, FirstMatch
  <1> QED BY <1>1, <1>4 DEF S

LEMMA FindFreeInodeIs ==
    ASSUME FindFreeInode # None
    PROVE  FindFreeInode \in Slots \ {0} /\ ramfs_inodes[FindFreeInode].ino = 0
  <1> DEFINE S == {s \in Slots \ {0} : ramfs_inodes[s].ino = 0}
  <1>1. FindFreeInode = First(S) BY DEF FindFreeInode
  <1>2. S \in SUBSET Nat BY TablesAreNat
  <1>3. First(S) \in S
    <2> HIDE DEF S
    <2> QED BY <1>1, <1>2, FirstMatch
  <1> QED BY <1>1, <1>3

LEMMA FindFreeFdIs ==
    ASSUME FindFreeFd # None
    PROVE  FindFreeFd \in Fds /\ ramfs_file_descriptors[FindFreeFd].ino = 0
  <1> DEFINE S == {f \in Fds : ramfs_file_descriptors[f].ino = 0}
  <1>1. FindFreeFd = First(S) BY DEF FindFreeFd
  <1>2. S \in SUBSET Nat BY TablesAreNat
  <1>3. First(S) \in S
    <2> HIDE DEF S
    <2> QED BY <1>1, <1>2, FirstMatch
  <1> QED BY <1>1, <1>3

LEMMA InodeOfFdIs ==
    ASSUME NEW f, InodeOfFd(f) # None
    PROVE  /\ InodeOfFd(f) \in Slots
           /\ ramfs_inodes[InodeOfFd(f)].ino = ramfs_file_descriptors[f].ino
  <1> DEFINE S == {s \in Slots : ramfs_inodes[s].ino = ramfs_file_descriptors[f].ino}
  <1>1. InodeOfFd(f) = First(S) BY DEF InodeOfFd
  <1>2. S \in SUBSET Nat BY TablesAreNat
  <1>3. First(S) \in S
    <2> HIDE DEF S
    <2> QED BY <1>1, <1>2, FirstMatch
  <1> QED BY <1>1, <1>3

-----------------------------------------------------------------------------
(* The records of the table.                                                *)

InodeRec(i, t, n, z, p, d, c) ==
    [ino |-> i, type |-> t, name |-> n, size |-> z, parent |-> p, data |-> d, capacity |-> c]

\* A record with the fields of an inode.
Shape(r) == r = InodeRec(r.ino, r.type, r.name, r.size, r.parent, r.data, r.capacity)

LEMMA RecFields ==
    ASSUME NEW i, NEW t, NEW n, NEW z, NEW p, NEW d, NEW c
    PROVE  LET r == InodeRec(i, t, n, z, p, d, c)
           IN  /\ r.ino = i /\ r.type = t /\ r.name = n /\ r.size = z /\ r.parent = p
               /\ r.data = d /\ r.capacity = c /\ Shape(r)
  BY DEF InodeRec, Shape

LEMMA ShapeIs ==
    ASSUME NEW r, Shape(r)
    PROVE  r = [ino |-> r.ino, type |-> r.type, name |-> r.name, size |-> r.size,
                parent |-> r.parent, data |-> r.data, capacity |-> r.capacity]
  BY DEF Shape, InodeRec

LEMMA SetSize ==
    ASSUME NEW r, Shape(r), NEW v
    PROVE  [r EXCEPT !.size = v] =
              InodeRec(r.ino, r.type, r.name, v, r.parent, r.data, r.capacity)
  BY ShapeIs DEF InodeRec

LEMMA SetData ==
    ASSUME NEW r, Shape(r), NEW v
    PROVE  [r EXCEPT !.data = v] =
              InodeRec(r.ino, r.type, r.name, r.size, r.parent, v, r.capacity)
  BY ShapeIs DEF InodeRec

LEMMA SetCapacity ==
    ASSUME NEW r, Shape(r), NEW v
    PROVE  [r EXCEPT !.capacity = v] =
              InodeRec(r.ino, r.type, r.name, r.size, r.parent, r.data, v)
  BY ShapeIs DEF InodeRec

\* The assignments of ramfs_write to an inode.
LEMMA SetBlock ==
    ASSUME NEW r, Shape(r), NEW d, NEW c, NEW v,
           NEW x, x = [r EXCEPT !.data = d, !.capacity = c, !.size = v]
    PROVE  x = InodeRec(r.ino, r.type, r.name, v, r.parent, d, c)
  <1> DEFINE q == [r EXCEPT !.data = d]
             w == [q EXCEPT !.capacity = c]
  <1>1. [r EXCEPT !.data = d, !.capacity = c, !.size = v] = [w EXCEPT !.size = v]
    BY ShapeIs
  <1>2. q = InodeRec(r.ino, r.type, r.name, r.size, r.parent, d, r.capacity) BY SetData
  <1> HIDE DEF q
  <1>3. /\ Shape(q) /\ q.ino = r.ino /\ q.type = r.type /\ q.name = r.name
        /\ q.size = r.size /\ q.parent = r.parent /\ q.data = d
    BY <1>2, RecFields
  <1>4. w = InodeRec(r.ino, r.type, r.name, r.size, r.parent, d, c)
    <2>1. w = InodeRec(q.ino, q.type, q.name, q.size, q.parent, q.data, c) BY <1>3, SetCapacity
    <2> QED BY <2>1, <1>3
  <1> HIDE DEF w
  <1>5. /\ Shape(w) /\ w.ino = r.ino /\ w.type = r.type /\ w.name = r.name
        /\ w.parent = r.parent /\ w.data = d /\ w.capacity = c
    BY <1>4, RecFields
  <1>6. [w EXCEPT !.size = v] = InodeRec(r.ino, r.type, r.name, v, r.parent, d, c)
    <2>1. [w EXCEPT !.size = v] =
             InodeRec(w.ino, w.type, w.name, v, w.parent, w.data, w.capacity)
      BY <1>5, SetSize
    <2> QED BY <2>1, <1>5
  <1> QED BY <1>1, <1>6

LEMMA FreeInodeIs ==
    /\ Shape(FreeInode) /\ FreeInode.ino = 0 /\ FreeInode.type = "file" /\ FreeInode.size = 0
    /\ FreeInode.data = Null /\ FreeInode.capacity = 0
  BY DEF FreeInode, Shape, InodeRec

LEMMA NewInodeIs ==
    ASSUME NEW path, NEW type
    PROVE  NewInode(path, type) =
              InodeRec(ramfs_next_inode, type, NameOf(path), 0, ResolveDir(DirOf(path)), Null, 0)
  <1> DEFINE n == NameOf(path)
             p == ResolveDir(DirOf(path))
             i == ramfs_next_inode
  <1>1. NewInode(path, type) = [FreeInode EXCEPT !.ino = i, !.type = type, !.name = n, !.parent = p]
    BY DEF NewInode
  <1> HIDE DEF n, p, i
  <1>2. [FreeInode EXCEPT !.ino = i, !.type = type, !.name = n, !.parent = p] =
           InodeRec(i, type, n, 0, p, Null, 0)
    <2> DEFINE a == [FreeInode EXCEPT !.ino = i]
               b == [a EXCEPT !.type = type]
               c == [b EXCEPT !.name = n]
    <2>1. [FreeInode EXCEPT !.ino = i, !.type = type, !.name = n, !.parent = p] =
             [c EXCEPT !.parent = p]
      BY DEF FreeInode
    <2>2. FreeInode = InodeRec(0, "file", FreeInode.name, 0, 0, Null, 0)
      BY Zenon DEF FreeInode, InodeRec
    <2>3. a = InodeRec(i, "file", FreeInode.name, 0, 0, Null, 0) BY <2>2 DEF InodeRec
    <2> HIDE DEF a
    <2>4. b = InodeRec(i, type, FreeInode.name, 0, 0, Null, 0) BY <2>3 DEF InodeRec
    <2> HIDE DEF b
    <2>5. c = InodeRec(i, type, n, 0, 0, Null, 0) BY <2>4 DEF InodeRec
    <2> HIDE DEF c
    <2>6. [c EXCEPT !.parent = p] = InodeRec(i, type, n, 0, p, Null, 0)
      BY <2>5 DEF InodeRec
    <2> QED BY <2>1, <2>6
  <1> QED BY <1>1, <1>2 DEF n, p, i

-----------------------------------------------------------------------------
(* Types.                                                                   *)

\* An inode has a block exactly when it has a capacity.
InodeType(r) ==
    /\ Shape(r) /\ r.ino \in Nat /\ r.type \in {"file", "dir"}
    /\ r.size \in Nat /\ r.capacity \in Nat /\ r.data \in Int
    /\ r.data = Null <=> r.capacity = 0
    /\ r.data # Null => r.data >= 0

FdType == [ino : Nat, offset : Nat, acc : 0 .. 3, append : BOOLEAN]

\* Type invariant.  Names and directory numbers are only compared, so that they
\* may be anything.
RamType ==
    /\ ramfs_inodes = [s \in Slots |-> ramfs_inodes[s]]
    /\ \A s \in Slots : InodeType(ramfs_inodes[s])
    /\ ramfs_pool \in [0 .. PoolSize - 1 -> Nat]
    /\ ramfs_pool_used \in Nat
    /\ ramfs_file_descriptors \in [Fds -> FdType]
    /\ ramfs_next_inode \in Nat \ {0}

-----------------------------------------------------------------------------
(* The effects of calls on the tables.                                       *)

Quiet == UNCHANGED <<fsVars, ramfs_file_descriptors, ramfs_next_inode>>

\* A closed descriptor is opened for the inode number i.
Opened(i) ==
    \E f \in Fds, acc \in 0 .. 3, append \in BOOLEAN :
       /\ ramfs_file_descriptors[f].ino = 0 /\ ret' = f + FileBase
       /\ ramfs_file_descriptors' = [ramfs_file_descriptors EXCEPT
             ![f] = [ino |-> i, offset |-> 0, acc |-> acc, append |-> append]]

Makes(path, type) ==
    /\ FindInode(path) = None /\ CanCreate(path) /\ Create(path, type)
    /\ UNCHANGED <<ramfs_pool, ramfs_pool_used>>
    /\ \/ type = "file" /\ Opened(ramfs_next_inode)
       \/ /\ type = "file" /\ FindFreeFd = None /\ ret' < 0
          /\ UNCHANGED ramfs_file_descriptors
       \/ type = "dir" /\ ret' = 0 /\ UNCHANGED ramfs_file_descriptors

\* Only the root has the number 0.
Opens(s) ==
    /\ s = 0 \/ ramfs_inodes[s].ino # 0
    /\ ramfs_inodes[s].type = "file" /\ Opened(ramfs_inodes[s].ino)
    /\ \/ UNCHANGED ramfs_inodes
       \/ ramfs_inodes' = [ramfs_inodes EXCEPT ![s].size = 0]
    /\ UNCHANGED <<ramfs_pool, ramfs_pool_used, ramfs_next_inode>>

Frees(s) ==
    /\ ramfs_pool_used' = IF IsNewest(s) THEN ramfs_pool_used - ramfs_inodes[s].capacity
                          ELSE ramfs_pool_used
    /\ ramfs_inodes' = [ramfs_inodes EXCEPT ![s] = FreeInode]
    /\ ret' = 0
    /\ UNCHANGED <<ramfs_pool, ramfs_file_descriptors, ramfs_next_inode>>

Closes(f) ==
    /\ ramfs_file_descriptors[f].ino # 0
    /\ ramfs_file_descriptors' = [ramfs_file_descriptors EXCEPT ![f] = FreeFd]
    /\ ret' = 0 /\ UNCHANGED <<fsVars, ramfs_next_inode>>

\* The offset is changed, by a failing call only when the descriptor appends.
Moves(f, pos) ==
    /\ ramfs_file_descriptors[f].ino # 0
    /\ ramfs_file_descriptors' = [ramfs_file_descriptors EXCEPT ![f].offset = pos]
    /\ \/ ret' \in Nat
       \/ ret' = -ENOSPC /\ (ramfs_file_descriptors[f].append
                               \/ pos = ramfs_file_descriptors[f].offset)
    /\ UNCHANGED <<fsVars, ramfs_next_inode>>

\* What Read takes from the file.
ReadCount(f, count) ==
    LET rest == ramfs_inodes[InodeOfFd(f)].size - ramfs_file_descriptors[f].offset
    IN  IF rest <= 0 THEN 0 ELSE IF count < rest THEN count ELSE rest

\* Where a write begins.
WritePos(f) == IF ramfs_file_descriptors[f].append THEN ramfs_inodes[InodeOfFd(f)].size
               ELSE ramfs_file_descriptors[f].offset

\* The three calls that move an offset and nothing else: lseek, read, and a write
\* that stores nothing.
Sought(f, pos) ==
    /\ InodeOfFd(f) # None /\ pos \in 0 .. MaxFileSize
    /\ ret' = pos /\ out' = << >>

Took(f, n, pos) ==
    /\ Usable(f) /\ ramfs_file_descriptors[f].acc # WRONLY
    /\ pos = ramfs_file_descriptors[f].offset + ReadCount(f, n)
    /\ ret' = ReadCount(f, n)
    /\ out' = Content(InodeOfFd(f), ramfs_file_descriptors[f].offset, pos)

StoredNone(f, pos) ==
    /\ Usable(f) /\ ramfs_file_descriptors[f].acc # RDONLY
    /\ pos = WritePos(f) /\ ret' \in {0, -ENOSPC}

Want(off, buf) == Clip(off, Len(buf))
Stored(s, off, buf) ==
    IF Reserve(s, off + Want(off, buf)).ok THEN Want(off, buf)
    ELSE ramfs_inodes[s].capacity - off

\* Bytes of buf are stored in slot s at off through descriptor f.
Writes(f, s, off, buf) ==
    /\ ramfs_file_descriptors[f].ino # 0 /\ ramfs_file_descriptors[f].acc # RDONLY
    /\ s = InodeOfFd(f) /\ off = WritePos(f)
    /\ ramfs_inodes[s].ino = ramfs_file_descriptors[f].ino
    /\ ramfs_inodes[s].type = "file"
    /\ off < MaxFileSize /\ Len(buf) # 0 /\ Stored(s, off, buf) > 0
    /\ ret' = Stored(s, off, buf)
    /\ LET r == Reserve(s, off + Want(off, buf))
           n == Stored(s, off, buf)
       IN  /\ ramfs_pool' = StoredPool(s, r, off, buf, n)
           /\ ramfs_pool_used' = r.used
           /\ ramfs_inodes' = [ramfs_inodes EXCEPT
                 ![s].data = r.data, ![s].capacity = r.capacity,
                 ![s].size = IF off + n > @ THEN off + n ELSE @]
           /\ ramfs_file_descriptors' = [ramfs_file_descriptors EXCEPT ![f].offset = off + n]
    /\ UNCHANGED ramfs_next_inode

\* A call with read counts in C and buffers in B.
Effect(C, B) ==
    \/ Quiet /\ (ret' > 0 => out' = << >>)
    \/ \E p \in Paths, type \in {"file", "dir"} : Makes(p, type)
    \/ \E s \in Slots : Opens(s) \/ Frees(s)
    \/ \E f \in Fds :
          \/ Closes(f)
          \/ \E pos \in Nat :
                /\ Moves(f, pos)
                /\ \/ Sought(f, pos)
                   \/ \E n \in C : Took(f, n, pos)
                   \/ B # {} /\ StoredNone(f, pos)
          \/ \E s \in Slots, off \in Nat, buf \in B : Writes(f, s, off, buf)

LEMMA OpenFdEffect ==
    ASSUME RamType, NEW i, NEW acc \in 0 .. 3, NEW append \in BOOLEAN, NEW e, OpenFd(i, acc, append, e)
    PROVE  \/ FindFreeFd # None /\ Opened(i)
           \/ FindFreeFd = None /\ ret' = e /\ UNCHANGED ramfs_file_descriptors
  <1>1. CASE FindFreeFd = None BY <1>1 DEF OpenFd
  <1>2. CASE FindFreeFd # None
    <2>1. FindFreeFd \in Fds /\ ramfs_file_descriptors[FindFreeFd].ino = 0
      BY <1>2, FindFreeFdIs
    <2>2. /\ ret' = FindFreeFd + FileBase
          /\ ramfs_file_descriptors' = [ramfs_file_descriptors EXCEPT
                ![FindFreeFd] = [ino |-> i, offset |-> 0, acc |-> acc, append |-> append]]
      BY <1>2 DEF OpenFd, sys_wrap_fd
    <2>3. Opened(i) BY <2>1, <2>2, Zenon DEF Opened
    <2> QED BY <1>2, <2>3
  <1> QED BY <1>1, <1>2

LEMMA FailQuiet ==
    ASSUME NEW C, NEW B, NEW e, Fail(e), out' = << >>
    PROVE  Effect(C, B)
  BY DEF Fail, Quiet, Effect

LEMMA OpenOldEffect ==
    ASSUME NEW C, NEW B, RamType, NEW p \in Paths, NEW creat \in BOOLEAN, OpenOld(p, creat)
    PROVE  Effect(C, B)
  <1>o. out' = << >> BY DEF OpenOld
  <1> DEFINE s == FindInode(p)
  <1>a. RDWR \in 0 .. 3 /\ FALSE \in BOOLEAN BY DEF RDWR
  <1>1. CASE /\ s = None /\ creat /\ CanCreate(p) /\ Create(p, "file")
             /\ OpenFd(ramfs_next_inode, RDWR, FALSE, Failed)
             /\ UNCHANGED <<ramfs_pool, ramfs_pool_used>>
    <2>1. \/ Opened(ramfs_next_inode)
          \/ FindFreeFd = None /\ ret' = Failed /\ UNCHANGED ramfs_file_descriptors
      BY <1>1, <1>a, OpenFdEffect
    <2>2. Makes(p, "file") BY <1>1, <2>1 DEF Makes, Failed
    <2> QED BY <2>2 DEF Effect
  <1>2. CASE s # None /\ ramfs_inodes[s].type = "file"
             /\ OpenFd(ramfs_inodes[s].ino, RDWR, FALSE, Failed)
             /\ UNCHANGED <<fsVars, ramfs_next_inode>>
    <2>1. \/ Opened(ramfs_inodes[s].ino)
          \/ UNCHANGED ramfs_file_descriptors
      BY <1>2, <1>a, OpenFdEffect
    <2>2. s \in Slots /\ (s = 0 \/ ramfs_inodes[s].ino # 0) BY <1>2, FindInodeIs
    <2>3. CASE Opened(ramfs_inodes[s].ino)
      <3>1. Opens(s) BY <1>2, <2>2, <2>3 DEF Opens, fsVars
      <3> HIDE DEF s
      <3> QED BY <2>2, <3>1 DEF Effect
    <2>4. CASE UNCHANGED ramfs_file_descriptors
      BY <1>o, <1>2, <2>4 DEF Effect, Quiet
    <2> QED BY <2>1, <2>3, <2>4
  <1>3. CASE Fail(Failed) BY <1>3, <1>o, FailQuiet
  <1> QED BY <1>1, <1>2, <1>3 DEF OpenOld

LEMMA OpenNewEffect ==
    ASSUME NEW C, NEW B, RamType, NEW p \in Paths, NEW fl \in OpenFlags, OpenNew(p, fl)
    PROVE  Effect(C, B)
  <1>o. out' = << >> BY DEF OpenNew
  <1> DEFINE s == FindInode(p)
  <1>a. fl.acc \in 0 .. 3 /\ fl.append \in BOOLEAN BY ArgumentAssumption
  <1>1. CASE /\ s = None /\ fl.creat /\ CanCreate(p) /\ Create(p, "file")
             /\ OpenFd(ramfs_next_inode, fl.acc, fl.append, -ENOENT)
             /\ UNCHANGED <<ramfs_pool, ramfs_pool_used>>
    <2>1. \/ Opened(ramfs_next_inode)
          \/ FindFreeFd = None /\ ret' = -ENOENT /\ UNCHANGED ramfs_file_descriptors
      BY <1>1, <1>a, OpenFdEffect
    <2>2. Makes(p, "file") BY <1>1, <2>1 DEF Makes, ENOENT
    <2> QED BY <2>2 DEF Effect
  <1>2. CASE /\ s # None /\ ramfs_inodes[s].type = "file"
             /\ OpenFd(ramfs_inodes[s].ino, fl.acc, fl.append, -EMFILE)
             /\ ramfs_inodes' =
                   IF FindFreeFd # None /\ fl.trunc /\ fl.acc # RDONLY
                   THEN [ramfs_inodes EXCEPT ![s].size = 0] ELSE ramfs_inodes
             /\ UNCHANGED <<ramfs_pool, ramfs_pool_used, ramfs_next_inode>>
    <2>1. \/ FindFreeFd # None /\ Opened(ramfs_inodes[s].ino)
          \/ FindFreeFd = None /\ UNCHANGED ramfs_file_descriptors
      BY <1>2, <1>a, OpenFdEffect
    <2>2. s \in Slots /\ (s = 0 \/ ramfs_inodes[s].ino # 0) BY <1>2, FindInodeIs
    <2>3. CASE FindFreeFd # None /\ Opened(ramfs_inodes[s].ino)
      <3>1. Opens(s) BY <1>2, <2>2, <2>3 DEF Opens
      <3> HIDE DEF s
      <3> QED BY <2>2, <3>1 DEF Effect
    <2>4. CASE FindFreeFd = None /\ UNCHANGED ramfs_file_descriptors
      BY <1>o, <1>2, <2>4 DEF Effect, Quiet, fsVars
    <2> QED BY <2>1, <2>3, <2>4
  <1>3. CASE Fail(-EEXIST) \/ Fail(-ENOENT) \/ Fail(-EISDIR) BY <1>3, <1>o, FailQuiet
  <1> QED BY <1>1, <1>2, <1>3 DEF OpenNew

LEMMA MkdirEffect ==
    ASSUME NEW C, NEW B, RamType, NEW p \in Paths, Mkdir(p)
    PROVE  Effect(C, B)
  <1>o. out' = << >> BY DEF Mkdir
  <1>1. CASE FindInode(p) = None /\ CanCreate(p)
    <2>1. Makes(p, "dir") BY <1>1 DEF Mkdir, Makes
    <2> QED BY <2>1 DEF Effect
  <1>2. CASE ~(FindInode(p) = None /\ CanCreate(p))
    <2>1. Fail(Failed) BY <1>2 DEF Mkdir
    <2> QED BY <2>1, <1>o, FailQuiet
  <1> QED BY <1>1, <1>2

\* A directory has no block, so that nothing is given back.
LEMMA RmdirEffect ==
    ASSUME NEW C, NEW B, RamType, BlocksApart, NEW p \in Paths, Rmdir(p)
    PROVE  Effect(C, B)
  <1>o. out' = << >> BY DEF Rmdir
  <1> DEFINE s == FindInode(p)
  <1>1. CASE s # None /\ ramfs_inodes[s].type = "dir"
    <2>1. s \in Slots BY <1>1, FindInodeIs
    <2>2. /\ ramfs_inodes' = [ramfs_inodes EXCEPT ![s] = FreeInode]
          /\ ret' = 0
          /\ UNCHANGED <<ramfs_pool, ramfs_pool_used, ramfs_file_descriptors, ramfs_next_inode>>
      BY <1>1 DEF Rmdir
    <2> HIDE DEF s
    <2>3. InodeType(ramfs_inodes[s]) BY <2>1 DEF RamType
    <2>4. ~(ramfs_inodes[s].capacity > 0) BY <1>1, <2>1 DEF BlocksApart, Files
    <2>5. ~IsNewest(s) BY <2>3, <2>4 DEF IsNewest, InodeType
    <2>6. Frees(s) BY <2>2, <2>5 DEF Frees
    <2> QED BY <2>1, <2>6 DEF Effect
  <1>2. CASE ~(s # None /\ ramfs_inodes[s].type = "dir")
    <2>1. Fail(Failed) BY <1>2 DEF Rmdir
    <2> QED BY <2>1, <1>o, FailQuiet
  <1> QED BY <1>1, <1>2

LEMMA UnlinkEffect ==
    ASSUME NEW C, NEW B, RamType, NEW p \in Paths, Unlink(p)
    PROVE  Effect(C, B)
  <1>o. out' = << >> BY DEF Unlink
  <1> DEFINE s == FindInode(p)
  <1>1. CASE s # None /\ ramfs_inodes[s].type = "file"
    <2>1. s \in Slots BY <1>1, FindInodeIs
    <2>2. Frees(s) BY <1>1 DEF Unlink, Frees
    <2> HIDE DEF s
    <2> QED BY <2>1, <2>2 DEF Effect
  <1>2. CASE ~(s # None /\ ramfs_inodes[s].type = "file")
    <2>1. Fail(Failed) BY <1>2 DEF Unlink
    <2> QED BY <2>1, <1>o, FailQuiet
  <1> QED BY <1>1, <1>2

LEMMA CloseEffect ==
    ASSUME NEW C, NEW B, NEW f, Close(f)
    PROVE  Effect(C, B)
  <1>o. out' = << >> BY DEF Close
  <1>1. CASE f \in Fds /\ ramfs_file_descriptors[f].ino # 0
    <2>1. Closes(f) BY <1>1 DEF Close, Closes
    <2> QED BY <1>1, <2>1 DEF Effect
  <1>2. CASE ~(f \in Fds /\ ramfs_file_descriptors[f].ino # 0)
    <2>1. Fail(-EBADF) BY <1>2 DEF Close
    <2> QED BY <2>1, <1>o, FailQuiet
  <1> QED BY <1>1, <1>2

LEMMA ReadCountIs ==
    ASSUME RamType, NEW f \in Fds, InodeOfFd(f) # None, NEW count \in Nat
    PROVE  ReadCount(f, count) \in Nat /\ ramfs_file_descriptors[f].offset \in Nat
  <1> DEFINE a == ramfs_inodes[InodeOfFd(f)].size
             b == ramfs_file_descriptors[f].offset
  <1>1. a \in Nat /\ b \in Nat BY InodeOfFdIs DEF RamType, InodeType, FdType
  <1>2. ReadCount(f, count) = IF a - b <= 0 THEN 0 ELSE IF count < a - b THEN count ELSE a - b
    BY DEF ReadCount
  <1> HIDE DEF a, b
  <1>3. ReadCount(f, count) \in Nat BY <1>1, <1>2
  <1> QED BY <1>1, <1>3 DEF b

LEMMA ReadEffect ==
    ASSUME NEW C \in SUBSET Nat, NEW B, RamType, NEW f \in Int, NEW count \in C, Read(f, count)
    PROVE  Effect(C, B)
  <1>0. count \in Nat OBVIOUS
  <1>1. CASE Usable(f) /\ ramfs_file_descriptors[f].acc # WRONLY
    <2> DEFINE n == ReadCount(f, count)
               pos == ramfs_file_descriptors[f].offset + n
    <2>1. f \in Fds /\ ramfs_file_descriptors[f].ino # 0 /\ InodeOfFd(f) # None
      BY <1>1 DEF Usable
    <2>2. n \in Nat /\ ramfs_file_descriptors[f].offset \in Nat BY <1>0, <2>1, ReadCountIs
    <2>3. /\ ret' = n
          /\ ramfs_file_descriptors' = [ramfs_file_descriptors EXCEPT ![f].offset = @ + n]
          /\ UNCHANGED <<fsVars, ramfs_next_inode>>
      BY <1>1 DEF Read, ReadCount
    <2>b. /\ ret' = ReadCount(f, count)
          /\ out' = Content(InodeOfFd(f), ramfs_file_descriptors[f].offset, pos)
          /\ pos = ramfs_file_descriptors[f].offset + ReadCount(f, count)
      BY <1>1 DEF Read, ReadCount
    <2> HIDE DEF n
    <2>4. ramfs_file_descriptors' = [ramfs_file_descriptors EXCEPT ![f].offset = pos]
      BY <2>3
    <2>5. pos \in Nat /\ ret' \in Nat BY <2>2, <2>3
    <2> HIDE DEF pos
    <2>a. Took(f, count, pos) BY <1>1, <2>b DEF Took
    <2>6. Moves(f, pos) BY <2>1, <2>3, <2>4, <2>5 DEF Moves
    <2> QED BY <2>1, <2>5, <2>6, <2>a DEF Effect
  <1>2. CASE ~(Usable(f) /\ ramfs_file_descriptors[f].acc # WRONLY)
    <2>1. Fail(-EBADF) /\ out' = << >> BY <1>2 DEF Read
    <2> QED BY <2>1, FailQuiet
  <1> QED BY <1>1, <1>2

LEMMA WriteEffect ==
    ASSUME NEW C, NEW B \in SUBSET Seq(Nat), RamType, NEW f \in Int, NEW buf \in B, Write(f, buf)
    PROVE  Effect(C, B)
  <1>o. out' = << >> BY DEF Write
  <1>0. buf \in Seq(Nat) OBVIOUS
  <1>1. CASE Usable(f) /\ ramfs_file_descriptors[f].acc # RDONLY
    <2> DEFINE s == InodeOfFd(f)
               off == WritePos(f)
               n == Stored(s, off, buf)
               r == Reserve(s, off + Want(off, buf))
    <2>1. /\ f \in Fds /\ ramfs_file_descriptors[f].ino # 0 /\ s # None
          /\ ramfs_inodes[s].type = "file"
      BY <1>1 DEF Usable
    <2>2. s \in Slots /\ ramfs_inodes[s].ino = ramfs_file_descriptors[f].ino
      BY <2>1, InodeOfFdIs
    <2>3. off \in Nat
      <3>1. ramfs_inodes[s].size \in Nat BY <2>2 DEF RamType, InodeType
      <3>2. ramfs_file_descriptors[f].offset \in Nat BY <2>1 DEF RamType, FdType
      <3> QED BY <3>1, <3>2 DEF WritePos
    <2>4. WriteAt(f, s, off, buf) BY <1>1 DEF Write, WritePos
    <2>5. CASE Len(buf) = 0 \/ off >= MaxFileSize \/ n <= 0
      <3>1. /\ ret' = IF Len(buf) = 0 THEN 0 ELSE -ENOSPC
            /\ ramfs_file_descriptors' = [ramfs_file_descriptors EXCEPT ![f].offset = off]
            /\ UNCHANGED <<fsVars, ramfs_next_inode>>
        BY <2>4, <2>5 DEF WriteAt, Want, Stored
      <3>2. ramfs_file_descriptors[f].append \/ off = ramfs_file_descriptors[f].offset
        BY DEF WritePos
      <3>3. ret' \in Nat \/ ret' = -ENOSPC BY <3>1
      <3>5. StoredNone(f, off) BY <1>1, <3>1 DEF StoredNone
      <3> HIDE DEF off
      <3>4. Moves(f, off) BY <2>1, <3>1, <3>2, <3>3 DEF Moves
      <3> QED BY <2>1, <2>3, <3>4, <3>5 DEF Effect
    <2>6. CASE ~(Len(buf) = 0 \/ off >= MaxFileSize \/ n <= 0)
      <3>1. /\ ret' = n
            /\ ramfs_pool' = StoredPool(s, r, off, buf, n)
            /\ ramfs_pool_used' = r.used
            /\ ramfs_inodes' = [ramfs_inodes EXCEPT
                  ![s].data = r.data, ![s].capacity = r.capacity,
                  ![s].size = IF off + n > @ THEN off + n ELSE @]
            /\ ramfs_file_descriptors' = [ramfs_file_descriptors EXCEPT ![f].offset = off + n]
            /\ UNCHANGED ramfs_next_inode
        BY <2>4, <2>6 DEF WriteAt, Want, Stored
      <3>2. Len(buf) # 0 /\ off < MaxFileSize /\ n > 0
        <4>1. n \in Int
          <5>1. Len(buf) \in Nat /\ MaxFileSize \in Nat BY PoolAssumption
          <5>2. Want(off, buf) \in Int BY <5>1, <2>3 DEF Want, Clip
          <5>3. ramfs_inodes[s].capacity - off \in Int BY <2>2, <2>3 DEF RamType, InodeType
          <5> QED BY <5>2, <5>3 DEF Stored
        <4> HIDE DEF n, off
        <4> QED BY <4>1, <2>3, <2>6, PoolAssumption
      <3>3. Writes(f, s, off, buf) BY <1>1, <2>1, <2>2, <3>1, <3>2 DEF Writes
      <3> HIDE DEF s, off
      <3> QED BY <2>1, <2>2, <2>3, <3>3 DEF Effect
    <2> QED BY <2>5, <2>6
  <1>2. CASE ~(Usable(f) /\ ramfs_file_descriptors[f].acc # RDONLY)
    <2>1. Fail(-EBADF) BY <1>2 DEF Write
    <2> QED BY <2>1, <1>o, FailQuiet
  <1> QED BY <1>1, <1>2

LEMMA LseekEffect ==
    ASSUME NEW C, NEW B, NEW f \in Int, NEW offset \in Int, NEW whence \in Whences, Lseek(f, offset, whence)
    PROVE  Effect(C, B)
  <1>o. out' = << >> BY DEF Lseek
  <1>1. CASE Fail(-EBADF) \/ Fail(-EINVAL) BY <1>1, <1>o, FailQuiet
  <1>2. CASE ~(Fail(-EBADF) \/ Fail(-EINVAL))
    <2>1. f \in Fds /\ ramfs_file_descriptors[f].ino # 0 /\ InodeOfFd(f) # None
      BY <1>2 DEF Lseek
    <2>2. PICK pos \in 0 .. MaxFileSize :
            /\ ret' = pos
            /\ ramfs_file_descriptors' = [ramfs_file_descriptors EXCEPT ![f].offset = pos]
            /\ UNCHANGED <<fsVars, ramfs_next_inode>>
      BY <1>2, Zenon DEF Lseek
    <2>3. pos \in Nat /\ ret' \in Nat BY <2>2, PoolAssumption
    <2>4. Moves(f, pos) BY <2>1, <2>2, <2>3 DEF Moves
    <2>5. Sought(f, pos) BY <1>o, <2>1, <2>2 DEF Sought
    <2> QED BY <2>1, <2>3, <2>4, <2>5 DEF Effect
  <1> QED BY <1>1, <1>2

LEMMA StatEffect ==
    ASSUME NEW C, NEW B, NEW s, NEW e, ~(e > 0), StatResult(s, e)
    PROVE  Effect(C, B)
  BY DEF StatResult, Effect, Quiet

LEMMA AnswerEffect ==
    ASSUME NEW C, NEW B, NEW r, NEW data, r > 0 => data = << >>, Answer(r, data)
    PROVE  Effect(C, B)
  BY DEF Answer, Effect, Quiet

LEMMA ArgumentsAre == ReadCounts \in SUBSET Nat /\ Bufs \in SUBSET Seq(Nat)
  BY ArgumentAssumption

\* Every call has one of the effects.
LEMMA NextEffect ==
    ASSUME RamType, BlocksApart, Next
    PROVE  Effect(ReadCounts, Bufs)
  <1>0. /\ ReadCounts \in SUBSET Nat /\ Bufs \in SUBSET Seq(Nat)
        /\ ~(-EBADF > 0) /\ ~(-ENOENT > 0) /\ ~(-ESPIPE > 0)
    BY ArgumentAssumption DEF EBADF, ENOENT, ESPIPE
  <1>1. ASSUME NEW p \in Paths,
               \/ \E creat \in BOOLEAN : OpenOld(p, creat)
               \/ \E fl \in OpenFlags : OpenNew(p, fl)
               \/ Mkdir(p) \/ Rmdir(p) \/ Unlink(p) \/ Stat(p)
        PROVE  Effect(ReadCounts, Bufs)
    BY <1>0, <1>1, OpenOldEffect, OpenNewEffect, MkdirEffect, RmdirEffect, UnlinkEffect, StatEffect
       DEF Stat
  <1>2. ASSUME NEW fd \in FdArgs,
               \/ sys_close(fd) \/ sys_fstat(fd) \/ sys_isatty(fd)
               \/ fd # 0 /\ \E n \in ReadCounts : sys_read(fd, n)
               \/ fd \notin {1, 2} /\ \E b \in Bufs : sys_write(fd, b)
               \/ \E o \in Seeks, w \in Whences : sys_lseek(fd, o, w)
        PROVE  Effect(ReadCounts, Bufs)
    <2>1. fd \in Int /\ fd - FileBase \in Int BY TableAssumption
    <2>2. CASE sys_close(fd) BY <2>2, AnswerEffect, CloseEffect DEF sys_close
    <2>3. CASE sys_fstat(fd) BY <1>0, <2>3, AnswerEffect, StatEffect DEF sys_fstat, Fstat
    <2>4. CASE sys_isatty(fd) BY <2>4, AnswerEffect DEF sys_isatty
    <2>5. ASSUME NEW n \in ReadCounts, sys_read(fd, n) PROVE Effect(ReadCounts, Bufs)
      <3> QED BY <2>1, <2>5, <1>0, AnswerEffect, ReadEffect DEF sys_read
    <2>6. ASSUME NEW b \in Bufs, sys_write(fd, b) PROVE Effect(ReadCounts, Bufs)
      <3> QED BY <2>1, <2>6, <1>0, AnswerEffect, WriteEffect DEF sys_write
    <2>7. ASSUME NEW o \in Seeks, NEW w \in Whences, sys_lseek(fd, o, w)
          PROVE  Effect(ReadCounts, Bufs)
      <3>1. o \in Int BY ArgumentAssumption
      <3> QED BY <2>1, <2>7, <1>0, <3>1, AnswerEffect, LseekEffect DEF sys_lseek
    <2> QED BY <1>2, <2>2, <2>3, <2>4, <2>5, <2>6, <2>7
  <1> QED BY <1>1, <1>2 DEF Next

-----------------------------------------------------------------------------
(* What a change of one inode preserves.                                     *)

\* Numbers are given out in order, so that the next one is not in use.
NumbersOld ==
    /\ \A s \in Slots : ramfs_inodes[s].ino < ramfs_next_inode
    /\ \A f \in Fds : ramfs_file_descriptors[f].ino < ramfs_next_inode

\* The inductive invariant.
RamInv == RamType /\ BlocksApart /\ NumbersOld /\ NamesUnique

\* Slot s becomes r and the others stay.
Put(s, r) ==
    /\ ramfs_inodes' = [t \in Slots |-> ramfs_inodes'[t]]
    /\ ramfs_inodes'[s] = r
    /\ \A t \in Slots : t # s => ramfs_inodes'[t] = ramfs_inodes[t]

LEMMA PutIs ==
    ASSUME RamType, NEW s \in Slots, NEW r, ramfs_inodes' = [ramfs_inodes EXCEPT ![s] = r]
    PROVE  Put(s, r)
  <1>1. ramfs_inodes = [t \in Slots |-> ramfs_inodes[t]] BY DEF RamType
  <1> QED BY <1>1 DEF Put

LEMMA PutSize ==
    ASSUME RamType, NEW s \in Slots, NEW v, ramfs_inodes' = [ramfs_inodes EXCEPT ![s].size = v]
    PROVE  Put(s, InodeRec(ramfs_inodes[s].ino, ramfs_inodes[s].type, ramfs_inodes[s].name, v,
                           ramfs_inodes[s].parent, ramfs_inodes[s].data,
                           ramfs_inodes[s].capacity))
  <1>1. ramfs_inodes = [t \in Slots |-> ramfs_inodes[t]] BY DEF RamType
  <1>2. Shape(ramfs_inodes[s]) BY DEF RamType, InodeType
  <1>3. ramfs_inodes' = [ramfs_inodes EXCEPT ![s] = [ramfs_inodes[s] EXCEPT !.size = v]]
    BY <1>1, ShapeIs
  <1> DEFINE x == ramfs_inodes[s]
             y == InodeRec(x.ino, x.type, x.name, v, x.parent, x.data, x.capacity)
  <1>4. [x EXCEPT !.size = v] = y
    <2>1. Shape(x) BY <1>2
    <2> HIDE DEF x
    <2> QED BY <2>1, SetSize
  <1>5. ramfs_inodes' = [ramfs_inodes EXCEPT ![s] = y] BY <1>3, <1>4
  <1> HIDE DEF y
  <1>6. Put(s, y) BY <1>5, PutIs
  <1> QED BY <1>6 DEF y

LEMMA PutBlock ==
    ASSUME RamType, NEW s \in Slots, NEW d, NEW c, NEW v \in Nat,
           ramfs_inodes' = [ramfs_inodes EXCEPT ![s].data = d, ![s].capacity = c,
                               ![s].size = IF v > @ THEN v ELSE @]
    PROVE  Put(s, InodeRec(ramfs_inodes[s].ino, ramfs_inodes[s].type, ramfs_inodes[s].name,
                           IF v > ramfs_inodes[s].size THEN v ELSE ramfs_inodes[s].size,
                           ramfs_inodes[s].parent, d, c))
  <1> DEFINE g == ramfs_inodes
             z == IF v > g[s].size THEN v ELSE g[s].size
  <1>1. g = [t \in Slots |-> g[t]] BY DEF RamType
  <1>2. \A t \in Slots : Shape(g[t]) BY DEF RamType, InodeType
  <1> DEFINE x == g[s]
             y == [x EXCEPT !.data = d, !.capacity = c, !.size = z]
             w == InodeRec(x.ino, x.type, x.name, z, x.parent, d, c)
  <1>3. Put(s, y) BY <1>1, <1>2 DEF Put, Shape, InodeRec
  <1>4. y = w
    <2>1. Shape(x) /\ y = [x EXCEPT !.data = d, !.capacity = c, !.size = z] BY <1>2
    <2> HIDE DEF x, y, z
    <2> QED BY <2>1, SetBlock
  <1> QED BY <1>3, <1>4

\* The blocks stay apart when the block of the changed inode is apart from the
\* others and all are in the used part.
LEMMA PutBlocks ==
    ASSUME RamType, BlocksApart, NEW s \in Slots, NEW r, InodeType(r), Put(s, r),
           ramfs_pool_used' \in Nat, ramfs_pool_used' <= PoolSize,
           r.size <= r.capacity,
           r.capacity > 0 => r.ino # 0 /\ r.type = "file" /\ r.data + r.capacity <= ramfs_pool_used',
           \A t \in Slots : t # s /\ ramfs_inodes[t].capacity > 0 =>
              /\ BlockEnd(t) <= ramfs_pool_used'
              /\ r.capacity > 0 =>
                    BlockEnd(t) <= r.data \/ r.data + r.capacity <= ramfs_inodes[t].data
    PROVE  BlocksApart'
  <1>1. /\ ramfs_inodes'[s] = r
        /\ \A t \in Slots : t # s => ramfs_inodes'[t] = ramfs_inodes[t]
    BY DEF Put
  <1>2. \A t \in Slots : InodeType(ramfs_inodes[t]) BY DEF RamType
  <1>3. ASSUME NEW t \in Slots
        PROVE  /\ ramfs_inodes'[t].size <= ramfs_inodes'[t].capacity
               /\ ramfs_inodes'[t].capacity > 0 =>
                     t \in Files' /\ ramfs_inodes'[t].data # Null /\ BlockEnd(t)' <= ramfs_pool_used'
    <2>1. CASE t = s
      <3>1. r.capacity > 0 => r.data # Null BY DEF InodeType
      <3> QED BY <2>1, <3>1, <1>1 DEF Files, Used, BlockEnd
    <2>2. CASE t # s
      <3>1. ramfs_inodes'[t] = ramfs_inodes[t] BY <1>1, <2>2
      <3>2. /\ ramfs_inodes[t].size <= ramfs_inodes[t].capacity
            /\ ramfs_inodes[t].capacity > 0 => t \in Files /\ ramfs_inodes[t].data # Null
        BY DEF BlocksApart
      <3>3. ramfs_inodes[t].capacity > 0 => BlockEnd(t) <= ramfs_pool_used' BY <2>2
      <3> QED BY <3>1, <3>2, <3>3 DEF Files, Used, BlockEnd
    <2> QED BY <2>1, <2>2
  <1>4. ASSUME NEW t \in Slots, NEW u \in Slots, t # u,
               ramfs_inodes'[t].capacity > 0, ramfs_inodes'[u].capacity > 0
        PROVE  BlockEnd(t)' <= ramfs_inodes'[u].data \/ BlockEnd(u)' <= ramfs_inodes'[t].data
    <2>1. CASE t = s
      <3>1. ramfs_inodes'[t] = r /\ ramfs_inodes'[u] = ramfs_inodes[u] BY <1>1, <1>4, <2>1
      <3>2. BlockEnd(u) <= r.data \/ r.data + r.capacity <= ramfs_inodes[u].data
        BY <1>4, <2>1, <3>1
      <3> QED BY <3>1, <3>2 DEF BlockEnd
    <2>2. CASE u = s
      <3>1. ramfs_inodes'[u] = r /\ ramfs_inodes'[t] = ramfs_inodes[t] BY <1>1, <1>4, <2>2
      <3>2. BlockEnd(t) <= r.data \/ r.data + r.capacity <= ramfs_inodes[t].data
        BY <1>4, <2>2, <3>1
      <3> QED BY <3>1, <3>2 DEF BlockEnd
    <2>3. CASE t # s /\ u # s
      <3>1. ramfs_inodes'[u] = ramfs_inodes[u] /\ ramfs_inodes'[t] = ramfs_inodes[t]
        BY <1>1, <2>3
      <3>2. t \in Files /\ u \in Files BY <3>1, <1>4 DEF BlocksApart
      <3>3. BlockEnd(t) <= ramfs_inodes[u].data \/ BlockEnd(u) <= ramfs_inodes[t].data
        BY <3>1, <3>2, <1>4 DEF BlocksApart
      <3> QED BY <3>1, <3>3 DEF BlockEnd
    <2> QED BY <2>1, <2>2, <2>3
  <1>5. Files' \subseteq Slots BY DEF Files, Used
  <1> QED BY <1>3, <1>4, <1>5 DEF BlocksApart

\* Names and numbers stay unique when the changed inode keeps its own, is free,
\* or has the next number and a name that was not in its directory.
LEMMA PutNames ==
    ASSUME RamType, NumbersOld, NamesUnique, NEW s \in Slots, NEW r, Put(s, r),
           \/ r.ino = ramfs_inodes[s].ino /\ r.parent = ramfs_inodes[s].parent
              /\ r.name = ramfs_inodes[s].name
           \/ r.ino = 0
           \/ r.ino = ramfs_next_inode /\ Entries(r.parent, r.name) = {}
    PROVE  NamesUnique'
  <1>1. /\ ramfs_inodes'[s] = r
        /\ \A t \in Slots : t # s => ramfs_inodes'[t] = ramfs_inodes[t]
    BY DEF Put
  <1>2. ASSUME NEW t \in Slots, t # s, r.ino # 0, ramfs_inodes[t].ino # 0
        PROVE  /\ r.ino # ramfs_inodes[t].ino
               /\ r.parent # ramfs_inodes[t].parent \/ r.name # ramfs_inodes[t].name
    <2>1. CASE r.ino = ramfs_inodes[s].ino /\ r.parent = ramfs_inodes[s].parent
               /\ r.name = ramfs_inodes[s].name
      BY <1>2, <2>1 DEF NamesUnique, Used
    <2>2. CASE r.ino = ramfs_next_inode /\ Entries(r.parent, r.name) = {}
      <3>1. ramfs_inodes[t].ino < ramfs_next_inode /\ ramfs_inodes[t].ino \in Nat
            /\ ramfs_next_inode \in Nat
        BY DEF NumbersOld, RamType, InodeType
      <3>2. t \notin Entries(r.parent, r.name) BY <2>2
      <3>3. r.parent # ramfs_inodes[t].parent \/ r.name # ramfs_inodes[t].name
        BY <1>2, <3>2 DEF Entries
      <3> QED BY <2>2, <3>1, <3>3
    <2> QED BY <1>2, <2>1, <2>2
  <1>3. ASSUME NEW t \in Used', NEW u \in Used', t # u
        PROVE  /\ ramfs_inodes'[t].ino # ramfs_inodes'[u].ino
               /\ \/ ramfs_inodes'[t].parent # ramfs_inodes'[u].parent
                  \/ ramfs_inodes'[t].name # ramfs_inodes'[u].name
    <2>1. /\ t \in Slots /\ u \in Slots /\ ramfs_inodes'[t].ino # 0 /\ ramfs_inodes'[u].ino # 0
      BY DEF Used
    <2>2. CASE t = s
      <3>1. u # s /\ ramfs_inodes'[u] = ramfs_inodes[u] BY <1>1, <1>3, <2>1, <2>2
      <3> QED BY <1>1, <1>2, <2>1, <2>2, <3>1
    <2>3. CASE u = s
      <3>1. t # s /\ ramfs_inodes'[t] = ramfs_inodes[t] BY <1>1, <1>3, <2>1, <2>3
      <3> QED BY <1>1, <1>2, <2>1, <2>3, <3>1
    <2>4. CASE t # s /\ u # s
      <3>1. ramfs_inodes'[t] = ramfs_inodes[t] /\ ramfs_inodes'[u] = ramfs_inodes[u]
        BY <1>1, <2>1, <2>4
      <3> QED BY <1>3, <2>1, <3>1 DEF NamesUnique, Used
    <2> QED BY <2>2, <2>3, <2>4
  <1> QED BY <1>3 DEF NamesUnique

-----------------------------------------------------------------------------
(* The pool.                                                                *)

\* Rounding up gives enough.
LEMMA AlignUpIs ==
    ASSUME NEW n \in Nat
    PROVE  AlignUp(n) \in Nat /\ AlignUp(n) >= n
  <1> DEFINE x == n + Align - 1
             q == x \div Align
             m == x % Align
  <1>1. Align \in Nat \ {0} /\ x \in Nat BY PoolAssumption
  <1>2. q \in Int /\ m \in 0 .. Align - 1 /\ x = Align * q + m
    <2> HIDE DEF x
    <2>1. x \div Align \in Int /\ x % Align \in 0 .. Align - 1
          /\ x = Align * (x \div Align) + (x % Align)
      BY <1>1
    <2> QED BY <2>1
  <1>3. AlignUp(n) = q * Align BY DEF AlignUp
  <1>4. x = n + Align - 1 OBVIOUS
  <1> HIDE DEF x, q, m
  <1>5. q * Align = x - m BY <1>1, <1>2
  <1> QED BY <1>1, <1>2, <1>3, <1>4, <1>5

\* The capacity asked for is enough for a file that is not too long.
LEMMA NewCapIs ==
    ASSUME NEW c \in Nat, NEW needed \in Nat, needed <= MaxFileSize
    PROVE  NewCap(c, needed) \in Nat /\ NewCap(c, needed) >= needed
  <1> DEFINE twice == IF c = 0 THEN FirstCap ELSE 2 * c
             cap == IF twice < needed THEN needed ELSE twice
             least == IF cap > MaxFileSize THEN MaxFileSize ELSE cap
  <1>1. MaxFileSize \in Nat /\ FirstCap \in Nat BY PoolAssumption
  <1>2. least \in Nat /\ least >= needed BY <1>1
  <1>3. NewCap(c, needed) = AlignUp(least) BY DEF NewCap
  <1> HIDE DEF least
  <1>4. AlignUp(least) \in Nat /\ AlignUp(least) >= least BY <1>2, AlignUpIs
  <1> QED BY <1>2, <1>3, <1>4

\* Only the newest block ends where the used part of the pool does.
LEMMA NewestIsLast ==
    ASSUME RamType, BlocksApart, NEW s \in Slots, IsNewest(s),
           NEW t \in Slots, t # s, ramfs_inodes[t].capacity > 0
    PROVE  BlockEnd(t) <= ramfs_inodes[s].data
  <1> DEFINE a == ramfs_inodes[s]
             b == ramfs_inodes[t]
  <1>1. /\ a.capacity \in Nat /\ a.data \in Int /\ b.capacity \in Nat /\ b.data \in Int
        /\ (a.data = Null <=> a.capacity = 0) /\ ramfs_pool_used \in Nat
    BY DEF RamType, InodeType
  <1>2. a.data # Null /\ a.data + a.capacity = ramfs_pool_used BY DEF IsNewest
  <1>3. a.capacity > 0 BY <1>1, <1>2
  <1>4. s \in Files /\ t \in Files /\ b.data + b.capacity <= ramfs_pool_used
    BY <1>3 DEF BlocksApart, BlockEnd
  <1>5. b.data + b.capacity <= a.data \/ a.data + a.capacity <= b.data
    BY <1>3, <1>4 DEF BlocksApart, BlockEnd
  <1>6. BlockEnd(t) = b.data + b.capacity BY DEF BlockEnd
  <1>7. b.capacity > 0 OBVIOUS
  <1> HIDE DEF a, b
  <1>8. b.data + b.capacity <= a.data BY <1>1, <1>2, <1>4, <1>5, <1>7
  <1> QED BY <1>6, <1>8 DEF a

\* ramfs_reserve finds a block that is apart from the others: the old one, the
\* old one enlarged over the unused part, or a new one there.
LEMMA ReserveIs ==
    ASSUME RamType, BlocksApart, NEW s \in Files, NEW needed \in Nat, 0 < needed,
           needed <= MaxFileSize
    PROVE  LET r == Reserve(s, needed)
               nd == ramfs_inodes[s]
           IN  /\ r.ok \in BOOLEAN /\ r.data \in Int /\ r.capacity \in Nat /\ r.used \in Nat
               /\ r.used <= PoolSize
               /\ (r.data = Null <=> r.capacity = 0) /\ (r.data # Null => r.data >= 0)
               /\ r.ok => needed <= r.capacity
               /\ ~r.ok => nd.capacity < needed /\ r.capacity = nd.capacity /\ r.data = nd.data
               /\ nd.capacity <= r.capacity
               /\ r.capacity > 0 => r.data + r.capacity <= r.used
               /\ \A t \in Slots : t # s /\ ramfs_inodes[t].capacity > 0 =>
                     /\ BlockEnd(t) <= r.used
                     /\ r.capacity > 0 =>
                           BlockEnd(t) <= r.data \/ r.data + r.capacity <= ramfs_inodes[t].data
               /\ (r.data = nd.data /\ r.capacity >= nd.capacity) \/ r.data = ramfs_pool_used
  <1> DEFINE nd == ramfs_inodes[s]
             cap == NewCap(nd.capacity, needed)
             start == IF IsNewest(s) THEN nd.data ELSE ramfs_pool_used
             r == Reserve(s, needed)
  <1>0. s \in Slots BY DEF Files, Used
  <1>1. /\ nd.capacity \in Nat /\ nd.data \in Int /\ (nd.data = Null <=> nd.capacity = 0)
        /\ (nd.data # Null => nd.data >= 0)
        /\ ramfs_pool_used \in Nat /\ PoolSize \in Nat
    BY <1>0, PoolAssumption DEF RamType, InodeType
  <1>2. /\ ramfs_pool_used <= PoolSize
        /\ nd.capacity > 0 => nd.data + nd.capacity <= ramfs_pool_used
    BY <1>0 DEF BlocksApart, BlockEnd
  <1>3. ASSUME NEW t \in Slots, t # s, ramfs_inodes[t].capacity > 0
        PROVE  /\ BlockEnd(t) \in Nat
               /\ BlockEnd(t) <= ramfs_pool_used
               /\ nd.capacity > 0 => BlockEnd(t) <= nd.data \/ nd.data + nd.capacity <= ramfs_inodes[t].data
    <2>1. t \in Files /\ BlockEnd(t) <= ramfs_pool_used BY <1>3 DEF BlocksApart
    <2>2. nd.capacity > 0 => BlockEnd(t) <= nd.data \/ BlockEnd(s) <= ramfs_inodes[t].data
      BY <1>3, <2>1 DEF BlocksApart
    <2>3. BlockEnd(s) = nd.data + nd.capacity BY DEF BlockEnd
    <2>4. BlockEnd(t) \in Nat BY <1>3 DEF BlockEnd, RamType, InodeType
    <2> QED BY <2>1, <2>2, <2>3, <2>4
  <1>4. CASE needed <= nd.capacity
    <2>1. r = [ok |-> TRUE, data |-> nd.data, capacity |-> nd.capacity, used |-> ramfs_pool_used]
      BY <1>4 DEF Reserve
    <2>2. r.ok = TRUE /\ r.data = nd.data /\ r.capacity = nd.capacity /\ r.used = ramfs_pool_used
      BY <2>1
    <2> HIDE DEF r, nd
    <2>a. r.ok \in BOOLEAN /\ (r.ok => needed <= r.capacity) BY <1>4, <2>2
    <2>3. /\ r.data \in Int /\ r.capacity \in Nat /\ r.used \in Nat
          /\ r.used <= PoolSize
          /\ (r.data = Null <=> r.capacity = 0) /\ (r.data # Null => r.data >= 0)
          /\ nd.capacity <= r.capacity
          /\ r.capacity > 0 => r.data + r.capacity <= r.used
      BY <1>1, <1>2, <1>4, <2>2
    <2>4. \A t \in Slots : t # s /\ ramfs_inodes[t].capacity > 0 =>
             /\ BlockEnd(t) <= r.used
             /\ r.capacity > 0 =>
                   BlockEnd(t) <= r.data \/ r.data + r.capacity <= ramfs_inodes[t].data
      BY <1>3, <2>2
    <2> QED BY <2>a, <2>2, <2>3, <2>4, <1>1 DEF r, nd
  <1>5. CASE ~(needed <= nd.capacity) /\ start + cap <= PoolSize
    <2>1. r = [ok |-> TRUE, data |-> start, capacity |-> cap, used |-> start + cap]
      BY <1>5 DEF Reserve
    <2>2. r.ok = TRUE /\ r.data = start /\ r.capacity = cap /\ r.used = start + cap
      BY <2>1
    <2>3. cap \in Nat /\ cap >= needed
      <3> HIDE DEF nd
      <3> QED BY <1>1, NewCapIs
    <2>4. start \in Nat /\ (start = nd.data \/ start = ramfs_pool_used)
      <3>1. IsNewest(s) => nd.data # Null BY DEF IsNewest
      <3> HIDE DEF nd
      <3> QED BY <1>1, <3>1
    <2>5. ASSUME NEW t \in Slots, t # s, ramfs_inodes[t].capacity > 0
          PROVE  BlockEnd(t) <= start /\ BlockEnd(t) \in Nat
      <3>1. CASE IsNewest(s)
        <4>1. BlockEnd(t) <= nd.data BY <1>0, <2>5, <3>1, NewestIsLast
        <4> QED BY <4>1, <3>1, <1>3, <2>5
      <3>2. CASE ~IsNewest(s) BY <3>2, <1>3, <2>5
      <3> QED BY <3>1, <3>2
    <2> HIDE DEF r, start, cap, nd
    <2>a. r.ok \in BOOLEAN /\ (r.ok => needed <= r.capacity) BY <2>2, <2>3
    <2>6. /\ r.data \in Int /\ r.capacity \in Nat /\ r.used \in Nat
          /\ r.used <= PoolSize
          /\ (r.data = Null <=> r.capacity = 0) /\ (r.data # Null => r.data >= 0)
          /\ nd.capacity <= r.capacity
          /\ r.capacity > 0 => r.data + r.capacity <= r.used
      BY <1>1, <1>5, <2>2, <2>3, <2>4 DEF Null
    <2>7. \A t \in Slots : t # s /\ ramfs_inodes[t].capacity > 0 =>
             /\ BlockEnd(t) <= r.used
             /\ r.capacity > 0 =>
                   BlockEnd(t) <= r.data \/ r.data + r.capacity <= ramfs_inodes[t].data
      <3> SUFFICES ASSUME NEW t \in Slots, t # s, ramfs_inodes[t].capacity > 0
                   PROVE  BlockEnd(t) <= r.used /\ BlockEnd(t) <= r.data
        OBVIOUS
      <3>1. BlockEnd(t) <= start /\ BlockEnd(t) \in Nat BY <2>5
      <3> QED BY <3>1, <2>2, <2>3, <2>4
    <2> QED BY <2>a, <2>2, <2>4, <2>6, <2>7 DEF r, nd
  <1>6. CASE ~(needed <= nd.capacity) /\ ~(start + cap <= PoolSize)
    <2>1. r = [ok |-> FALSE, data |-> nd.data, capacity |-> nd.capacity, used |-> ramfs_pool_used]
      BY <1>6 DEF Reserve
    <2>2. r.ok = FALSE /\ r.data = nd.data /\ r.capacity = nd.capacity /\ r.used = ramfs_pool_used
      BY <2>1
    <2> HIDE DEF r, nd, start, cap
    <2>a. r.ok \in BOOLEAN /\ ~r.ok BY <2>2
    <2>3. /\ r.data \in Int /\ r.capacity \in Nat /\ r.used \in Nat
          /\ r.used <= PoolSize
          /\ (r.data = Null <=> r.capacity = 0) /\ (r.data # Null => r.data >= 0)
          /\ nd.capacity < needed
          /\ nd.capacity <= r.capacity
          /\ r.capacity > 0 => r.data + r.capacity <= r.used
      BY <1>1, <1>2, <1>6, <2>2
    <2>4. \A t \in Slots : t # s /\ ramfs_inodes[t].capacity > 0 =>
             /\ BlockEnd(t) <= r.used
             /\ r.capacity > 0 =>
                   BlockEnd(t) <= r.data \/ r.data + r.capacity <= ramfs_inodes[t].data
      BY <1>3, <2>2
    <2> QED BY <2>a, <2>2, <2>3, <2>4, <1>1 DEF r, nd
  <1> QED BY <1>4, <1>5, <1>6

-----------------------------------------------------------------------------
(* The descriptors.                                                         *)

LEMMA OpenedIs ==
    ASSUME RamType, NEW i \in Nat, Opened(i)
    PROVE  /\ ramfs_file_descriptors' \in [Fds -> FdType]
           /\ \A f \in Fds : /\ ramfs_file_descriptors'[f].ino \in {ramfs_file_descriptors[f].ino, i}
                             /\ ramfs_file_descriptors[f].ino # 0 =>
                                   ramfs_file_descriptors'[f] = ramfs_file_descriptors[f]
           /\ ret' >= 0
  <1>1. PICK f \in Fds, acc \in 0 .. 3, append \in BOOLEAN :
          /\ ramfs_file_descriptors[f].ino = 0 /\ ret' = f + FileBase
          /\ ramfs_file_descriptors' = [ramfs_file_descriptors EXCEPT
                ![f] = [ino |-> i, offset |-> 0, acc |-> acc, append |-> append]]
    BY DEF Opened
  <1> DEFINE d == [ino |-> i, offset |-> 0, acc |-> acc, append |-> append]
  <1>2. d \in FdType /\ d.ino = i BY DEF FdType
  <1>3. ramfs_file_descriptors \in [Fds -> FdType] BY DEF RamType
  <1>4. ramfs_file_descriptors' = [ramfs_file_descriptors EXCEPT ![f] = d] BY <1>1
  <1> HIDE DEF d
  <1>5. ret' >= 0 BY <1>1, TablesAreNat, TableAssumption
  <1> QED BY <1>1, <1>2, <1>3, <1>4, <1>5

LEMMA ClosedIs ==
    ASSUME RamType, NEW f \in Fds,
           ramfs_file_descriptors' = [ramfs_file_descriptors EXCEPT ![f] = FreeFd]
    PROVE  /\ ramfs_file_descriptors' \in [Fds -> FdType]
           /\ ramfs_file_descriptors'[f].ino = 0
           /\ \A g \in Fds : g # f => ramfs_file_descriptors'[g] = ramfs_file_descriptors[g]
  <1>1. FreeFd \in FdType /\ FreeFd.ino = 0 BY DEF FreeFd, FdType, RDONLY
  <1>2. ramfs_file_descriptors \in [Fds -> FdType] BY DEF RamType
  <1> QED BY <1>1, <1>2

LEMMA MovedIs ==
    ASSUME RamType, NEW f \in Fds, NEW pos \in Nat,
           ramfs_file_descriptors' = [ramfs_file_descriptors EXCEPT ![f].offset = pos]
    PROVE  /\ ramfs_file_descriptors' \in [Fds -> FdType]
           /\ ramfs_file_descriptors'[f].ino = ramfs_file_descriptors[f].ino
           /\ pos = ramfs_file_descriptors[f].offset =>
                 ramfs_file_descriptors'[f] = ramfs_file_descriptors[f]
           /\ \A g \in Fds : g # f => ramfs_file_descriptors'[g] = ramfs_file_descriptors[g]
  <1>1. ramfs_file_descriptors \in [Fds -> FdType] BY DEF RamType
  <1> QED BY <1>1 DEF FdType

-----------------------------------------------------------------------------
(* Every effect preserves the invariant.                                     *)

LEMMA QuietPreserves ==
    ASSUME RamInv, Quiet
    PROVE  RamInv'
  BY DEF RamInv, Quiet, fsVars, RamType, BlocksApart, NumbersOld, NamesUnique, Files, Used,
         BlockEnd

LEMMA MakesPreserves ==
    ASSUME RamInv, NEW p, NEW type \in {"file", "dir"}, Makes(p, type)
    PROVE  RamInv'
  <1>0. RamType /\ BlocksApart /\ NumbersOld /\ NamesUnique BY DEF RamInv
  <1> DEFINE s == FindFreeInode
             r == NewInode(p, type)
  <1>1. /\ FindInode(p) = None /\ FindFreeInode # None /\ ResolveDir(DirOf(p)) # None
        /\ ramfs_inodes' = [ramfs_inodes EXCEPT ![s] = r]
        /\ ramfs_next_inode' = ramfs_next_inode + 1
        /\ ramfs_pool' = ramfs_pool /\ ramfs_pool_used' = ramfs_pool_used
    BY DEF Makes, CanCreate, Create
  <1>2. s \in Slots /\ ramfs_inodes[s].ino = 0 BY <1>1, FindFreeInodeIs
  <1>3. r = InodeRec(ramfs_next_inode, type, NameOf(p), 0, ResolveDir(DirOf(p)), Null, 0)
    BY NewInodeIs
  <1>4. Entries(ResolveDir(DirOf(p)), NameOf(p)) = {} BY <1>1, FindInodeNone
  <1>5. /\ Shape(r) /\ r.ino = ramfs_next_inode /\ r.type = type /\ r.name = NameOf(p)
        /\ r.size = 0 /\ r.parent = ResolveDir(DirOf(p)) /\ r.data = Null /\ r.capacity = 0
    BY <1>3, RecFields
  <1> HIDE DEF s, r
  <1>6. ramfs_next_inode \in Nat \ {0} /\ ramfs_pool_used \in Nat BY <1>0 DEF RamType
  <1>7. InodeType(r) BY <1>5, <1>6 DEF InodeType, Null
  <1>8. Put(s, r) BY <1>0, <1>1, <1>2, PutIs
  <1>9. /\ ramfs_file_descriptors' \in [Fds -> FdType]
        /\ \A f \in Fds : ramfs_file_descriptors'[f].ino < ramfs_next_inode'
    <2>1. CASE Opened(ramfs_next_inode)
      <3>1. /\ ramfs_file_descriptors' \in [Fds -> FdType]
            /\ \A f \in Fds : ramfs_file_descriptors'[f].ino \in
                                 {ramfs_file_descriptors[f].ino, ramfs_next_inode}
        BY <1>0, <1>6, <2>1, OpenedIs
      <3>2. \A f \in Fds : /\ ramfs_file_descriptors[f].ino < ramfs_next_inode
                           /\ ramfs_file_descriptors[f].ino \in Nat
        BY <1>0 DEF NumbersOld, RamType, FdType
      <3> QED BY <3>1, <3>2, <1>1, <1>6
    <2>2. CASE UNCHANGED ramfs_file_descriptors
      <3>1. \A f \in Fds : /\ ramfs_file_descriptors[f].ino < ramfs_next_inode
                           /\ ramfs_file_descriptors[f].ino \in Nat
        BY <1>0 DEF NumbersOld, RamType, FdType
      <3> QED BY <3>1, <2>2, <1>0, <1>1, <1>6 DEF RamType
    <2> QED BY <2>1, <2>2 DEF Makes
  <1>10. RamType'
    <2>1. \A t \in Slots : InodeType(ramfs_inodes'[t])
      BY <1>0, <1>7, <1>8 DEF Put, RamType
    <2>2. ramfs_next_inode' \in Nat \ {0} BY <1>1, <1>6
    <2>3. ramfs_pool' \in [0 .. PoolSize - 1 -> Nat] /\ ramfs_pool_used' \in Nat
      BY <1>0, <1>1 DEF RamType
    <2> QED BY <1>8, <1>9, <2>1, <2>2, <2>3 DEF RamType, Put
  <1>11. BlocksApart'
    <2>1. ramfs_pool_used' \in Nat /\ ramfs_pool_used' <= PoolSize
      BY <1>0, <1>1, <1>6 DEF BlocksApart
    <2>2. \A t \in Slots : ramfs_inodes[t].capacity > 0 => BlockEnd(t) <= ramfs_pool_used'
      BY <1>0, <1>1 DEF BlocksApart
    <2>3. r.size <= r.capacity /\ ~(r.capacity > 0) BY <1>5
    <2> QED BY <1>0, <1>2, <1>7, <1>8, <2>1, <2>2, <2>3, PutBlocks
  <1>12. NamesUnique'
    BY <1>0, <1>2, <1>4, <1>5, <1>8, PutNames
  <1>13. NumbersOld'
    <2>1. \A t \in Slots : ramfs_inodes[t].ino < ramfs_next_inode /\ ramfs_inodes[t].ino \in Nat
      BY <1>0 DEF NumbersOld, RamType, InodeType
    <2>2. \A t \in Slots : ramfs_inodes'[t].ino < ramfs_next_inode'
      BY <2>1, <1>1, <1>5, <1>6, <1>8 DEF Put
    <2> QED BY <2>2, <1>9 DEF NumbersOld
  <1> QED BY <1>10, <1>11, <1>12, <1>13 DEF RamInv

LEMMA OpensPreserves ==
    ASSUME RamInv, NEW s \in Slots, Opens(s)
    PROVE  RamInv'
  <1>0. RamType /\ BlocksApart /\ NumbersOld /\ NamesUnique BY DEF RamInv
  <1> DEFINE x == ramfs_inodes[s]
  <1>1. /\ ramfs_pool' = ramfs_pool /\ ramfs_pool_used' = ramfs_pool_used
        /\ ramfs_next_inode' = ramfs_next_inode /\ Opened(x.ino)
    BY DEF Opens
  <1>2. InodeType(x) /\ x.ino < ramfs_next_inode BY <1>0 DEF RamType, NumbersOld
  <1>3. /\ ramfs_file_descriptors' \in [Fds -> FdType]
        /\ \A f \in Fds : ramfs_file_descriptors'[f].ino < ramfs_next_inode
    <2>1. x.ino \in Nat BY <1>2 DEF InodeType
    <2>2. /\ ramfs_file_descriptors' \in [Fds -> FdType]
          /\ \A f \in Fds : ramfs_file_descriptors'[f].ino \in {ramfs_file_descriptors[f].ino, x.ino}
      BY <1>0, <1>1, <2>1, OpenedIs
    <2> QED BY <2>2, <1>0, <1>2 DEF NumbersOld
  <1>4. CASE UNCHANGED ramfs_inodes
    BY <1>0, <1>1, <1>3, <1>4 DEF RamInv, RamType, BlocksApart, NumbersOld, NamesUnique, Files, Used,
       BlockEnd
  <1>5. CASE ramfs_inodes' = [ramfs_inodes EXCEPT ![s].size = 0]
    <2> DEFINE r == InodeRec(x.ino, x.type, x.name, 0, x.parent, x.data, x.capacity)
    <2>1. Put(s, r) BY <1>0, <1>5, PutSize
    <2>2. /\ Shape(r) /\ r.ino = x.ino /\ r.type = x.type /\ r.name = x.name /\ r.size = 0
          /\ r.parent = x.parent /\ r.data = x.data /\ r.capacity = x.capacity
      BY RecFields
    <2> HIDE DEF r
    <2>3. InodeType(r) BY <1>2, <2>2 DEF InodeType
    <2>4. RamType'
      <3>1. \A t \in Slots : InodeType(ramfs_inodes'[t])
        BY <1>0, <2>1, <2>3 DEF Put, RamType
      <3> QED BY <3>1, <2>1, <1>0, <1>1, <1>3 DEF RamType, Put
    <2>5. BlocksApart'
      <3>1. ramfs_pool_used' \in Nat /\ ramfs_pool_used' <= PoolSize
        BY <1>0, <1>1 DEF BlocksApart, RamType
      <3>2. r.size <= r.capacity BY <1>2, <2>2 DEF InodeType
      <3>3. x.capacity > 0 => s \in Files /\ BlockEnd(s) <= ramfs_pool_used
        BY <1>0 DEF BlocksApart
      <3>4. r.capacity > 0 =>
               r.ino # 0 /\ r.type = "file" /\ r.data + r.capacity <= ramfs_pool_used'
        BY <3>3, <2>2, <1>1 DEF Files, Used, BlockEnd
      <3>5. ASSUME NEW t \in Slots, t # s, ramfs_inodes[t].capacity > 0
            PROVE  /\ BlockEnd(t) <= ramfs_pool_used'
                   /\ r.capacity > 0 =>
                         BlockEnd(t) <= r.data \/ r.data + r.capacity <= ramfs_inodes[t].data
        <4>1. t \in Files /\ BlockEnd(t) <= ramfs_pool_used BY <1>0, <3>5 DEF BlocksApart
        <4>2. x.capacity > 0 => BlockEnd(t) <= x.data \/ BlockEnd(s) <= ramfs_inodes[t].data
          BY <1>0, <3>3, <3>5, <4>1 DEF BlocksApart
        <4> QED BY <4>1, <4>2, <2>2, <1>1 DEF BlockEnd
      <3> QED BY <1>0, <2>1, <2>3, <3>1, <3>2, <3>4, <3>5, PutBlocks
    <2>6. NamesUnique' BY <1>0, <2>1, <2>2, PutNames
    <2>7. NumbersOld' BY <1>0, <1>1, <1>2, <1>3, <2>1, <2>2 DEF NumbersOld, Put
    <2> QED BY <2>4, <2>5, <2>6, <2>7 DEF RamInv
  <1> QED BY <1>4, <1>5 DEF Opens

LEMMA FreesPreserves ==
    ASSUME RamInv, NEW s \in Slots, Frees(s)
    PROVE  RamInv'
  <1>0. RamType /\ BlocksApart /\ NumbersOld /\ NamesUnique BY DEF RamInv
  <1> DEFINE x == ramfs_inodes[s]
  <1>1. /\ ramfs_pool' = ramfs_pool /\ ramfs_file_descriptors' = ramfs_file_descriptors
        /\ ramfs_next_inode' = ramfs_next_inode
        /\ ramfs_pool_used' = IF IsNewest(s) THEN ramfs_pool_used - x.capacity ELSE ramfs_pool_used
        /\ ramfs_inodes' = [ramfs_inodes EXCEPT ![s] = FreeInode]
    BY DEF Frees
  <1>2. Put(s, FreeInode) BY <1>0, <1>1, PutIs
  <1>3. InodeType(FreeInode) BY FreeInodeIs DEF InodeType, Null
  <1>4. InodeType(x) BY <1>0 DEF RamType
  <1>5. /\ ramfs_pool_used' \in Nat /\ ramfs_pool_used' <= PoolSize
        /\ IsNewest(s) => ramfs_pool_used' = x.data
    <2>1. x.capacity \in Nat /\ x.data \in Int /\ (x.data # Null => x.data >= 0)
      BY <1>4 DEF InodeType
    <2>2. ramfs_pool_used \in Nat /\ ramfs_pool_used <= PoolSize /\ PoolSize \in Nat
      BY <1>0, PoolAssumption DEF RamType, BlocksApart
    <2>3. IsNewest(s) => x.data # Null /\ x.data + x.capacity = ramfs_pool_used BY DEF IsNewest
    <2> HIDE DEF x
    <2> QED BY <1>1, <2>1, <2>2, <2>3
  <1>6. RamType'
    <2>1. \A t \in Slots : InodeType(ramfs_inodes'[t])
      BY <1>0, <1>2, <1>3 DEF Put, RamType
    <2> QED BY <2>1, <1>0, <1>1, <1>2, <1>5 DEF RamType, Put
  <1>7. BlocksApart'
    <2>1. ASSUME NEW t \in Slots, t # s, ramfs_inodes[t].capacity > 0
          PROVE  BlockEnd(t) <= ramfs_pool_used'
      <3>1. CASE IsNewest(s) BY <3>1, <1>0, <1>5, <2>1, NewestIsLast
      <3>2. CASE ~IsNewest(s) BY <3>2, <1>0, <1>1, <2>1 DEF BlocksApart
      <3> QED BY <3>1, <3>2
    <2>2. FreeInode.size <= FreeInode.capacity /\ ~(FreeInode.capacity > 0) BY FreeInodeIs
    <2> QED BY <1>0, <1>2, <1>3, <1>5, <2>1, <2>2, PutBlocks
  <1>8. NamesUnique' BY <1>0, <1>2, FreeInodeIs, PutNames
  <1>9. NumbersOld'
    <2>1. FreeInode.ino < ramfs_next_inode BY <1>0, FreeInodeIs DEF RamType
    <2> QED BY <2>1, <1>0, <1>1, <1>2 DEF NumbersOld, Put
  <1> QED BY <1>6, <1>7, <1>8, <1>9 DEF RamInv

\* Only descriptors change.
LEMMA FdsPreserve ==
    ASSUME RamInv, UNCHANGED <<fsVars, ramfs_next_inode>>,
           ramfs_file_descriptors' \in [Fds -> FdType],
           \A f \in Fds : ramfs_file_descriptors'[f].ino \in {ramfs_file_descriptors[f].ino, 0}
    PROVE  RamInv'
  <1>0. RamType /\ BlocksApart /\ NumbersOld /\ NamesUnique BY DEF RamInv
  <1>1. /\ ramfs_inodes' = ramfs_inodes /\ ramfs_pool' = ramfs_pool
        /\ ramfs_pool_used' = ramfs_pool_used /\ ramfs_next_inode' = ramfs_next_inode
    BY DEF fsVars
  <1>2. RamType' BY <1>0, <1>1 DEF RamType
  <1>3. BlocksApart' /\ NamesUnique'
    BY <1>0, <1>1 DEF BlocksApart, NamesUnique, Files, Used, BlockEnd
  <1>4. NumbersOld' BY <1>0, <1>1 DEF NumbersOld, RamType
  <1> QED BY <1>2, <1>3, <1>4 DEF RamInv

\* What a write stores: at most the buffer, inside the block.
LEMMA StoredIs ==
    ASSUME RamType, BlocksApart, NEW s \in Files, NEW off \in Nat, off < MaxFileSize,
           NEW buf \in Seq(Nat), Len(buf) # 0, Stored(s, off, buf) > 0
    PROVE  LET needed == off + Want(off, buf)
               n == Stored(s, off, buf)
           IN  /\ needed \in Nat /\ 0 < needed /\ needed <= MaxFileSize
               /\ n \in Nat /\ n <= Len(buf) /\ off + n <= Reserve(s, needed).capacity
  <1> DEFINE want == Want(off, buf)
             needed == off + want
             n == Stored(s, off, buf)
             r == Reserve(s, needed)
  <1>1. Len(buf) \in Nat /\ MaxFileSize \in Nat BY PoolAssumption
  <1>2. want \in Nat /\ want > 0 /\ want <= Len(buf) /\ needed <= MaxFileSize
    BY <1>1 DEF Want, Clip
  <1>3. needed \in Nat /\ 0 < needed BY <1>2
  <1>4. n = IF r.ok THEN want ELSE ramfs_inodes[s].capacity - off BY DEF Stored
  <1>5. n > 0 OBVIOUS
  <1>6. ramfs_inodes[s].capacity \in Nat BY DEF RamType, InodeType, Files, Used
  <1> HIDE DEF want, n
  <1>7. /\ r.capacity \in Nat /\ r.ok \in BOOLEAN /\ (r.ok => needed <= r.capacity)
        /\ ~r.ok => ramfs_inodes[s].capacity < needed /\ r.capacity = ramfs_inodes[s].capacity
    <2> HIDE DEF needed
    <2> QED BY <1>2, <1>3, ReserveIs
  <1> HIDE DEF r
  <1>8. n \in Nat /\ n <= Len(buf) /\ off + n <= r.capacity
    BY <1>1, <1>2, <1>4, <1>5, <1>6, <1>7
  <1> QED BY <1>2, <1>3, <1>8 DEF want, n, r

\* The bytes stay bytes.
LEMMA StoredPoolType ==
    ASSUME RamType, BlocksApart, NEW s \in Slots, NEW r, NEW off \in Nat, NEW buf \in Seq(Nat),
           NEW n \in Nat, n <= Len(buf), r.data \in Int
    PROVE  StoredPool(s, r, off, buf, n) \in [0 .. PoolSize - 1 -> Nat]
  <1> DEFINE nd == ramfs_inodes[s]
             val(i) == IF i - r.data \in off .. off + n - 1 THEN buf[i - r.data - off + 1]
                       ELSE IF i - r.data \in nd.size .. off - 1 THEN 0
                       ELSE IF i - r.data \in 0 .. nd.size - 1 /\ r.data # nd.data
                            THEN ramfs_pool[nd.data + (i - r.data)]
                       ELSE ramfs_pool[i]
  <1>1. /\ nd.size \in Nat /\ nd.capacity \in Nat /\ nd.data \in Int
        /\ (nd.data = Null <=> nd.capacity = 0) /\ (nd.data # Null => nd.data >= 0)
        /\ nd.size <= nd.capacity
        /\ nd.capacity > 0 => nd.data + nd.capacity <= ramfs_pool_used
        /\ ramfs_pool_used \in Nat /\ ramfs_pool_used <= PoolSize /\ PoolSize \in Nat
    BY PoolAssumption DEF RamType, InodeType, BlocksApart, BlockEnd
  <1>2. ramfs_pool \in [0 .. PoolSize - 1 -> Nat] BY DEF RamType
  <1>3. ASSUME NEW i \in 0 .. PoolSize - 1 PROVE val(i) \in Nat
    <2> DEFINE j == i - r.data
    <2>0. i \in Int /\ j \in Int OBVIOUS
    <2>1. CASE j \in off .. off + n - 1
      <3>1. j - off + 1 \in 1 .. Len(buf) BY <2>0, <2>1
      <3>2. buf[j - off + 1] \in Nat BY <3>1
      <3> QED BY <2>1, <3>2
    <2>2. CASE j \notin off .. off + n - 1 /\ j \in nd.size .. off - 1 BY <2>2
    <2>3. CASE /\ j \notin off .. off + n - 1 /\ j \notin nd.size .. off - 1
               /\ j \in 0 .. nd.size - 1 /\ r.data # nd.data
      <3>1. j >= 0 /\ j < nd.size BY <2>0, <2>3, <1>1
      <3>2. nd.data + j \in 0 .. PoolSize - 1
        <4> HIDE DEF nd, j
        <4>1. nd.capacity > 0 /\ j < nd.capacity BY <1>1, <2>0, <3>1
        <4>2. nd.data >= 0 /\ nd.data + nd.capacity <= PoolSize BY <1>1, <4>1
        <4>3. nd.data + j \in Int /\ 0 <= nd.data + j /\ nd.data + j < PoolSize
          BY <1>1, <2>0, <3>1, <4>1, <4>2
        <4> QED BY <1>1, <4>3
      <3>3. ramfs_pool[nd.data + j] \in Nat BY <3>2, <1>2
      <3> QED BY <2>3, <3>3
    <2>4. CASE /\ j \notin off .. off + n - 1 /\ j \notin nd.size .. off - 1
               /\ ~(j \in 0 .. nd.size - 1 /\ r.data # nd.data)
      <3>1. ramfs_pool[i] \in Nat BY <1>2
      <3> QED BY <2>4, <3>1
    <2> QED BY <2>1, <2>2, <2>3, <2>4
  <1>4. StoredPool(s, r, off, buf, n) = [i \in 0 .. PoolSize - 1 |-> val(i)]
    BY DEF StoredPool
  <1> HIDE DEF val
  <1> QED BY <1>3, <1>4

LEMMA WritesPreserves ==
    ASSUME RamInv, NEW f \in Fds, NEW s \in Slots, NEW off \in Nat, NEW buf \in Seq(Nat),
           Writes(f, s, off, buf)
    PROVE  RamInv'
  <1>0. RamType /\ BlocksApart /\ NumbersOld /\ NamesUnique BY DEF RamInv
  <1> DEFINE x == ramfs_inodes[s]
             needed == off + Want(off, buf)
             n == Stored(s, off, buf)
             r == Reserve(s, needed)
             z == IF off + n > x.size THEN off + n ELSE x.size
             y == InodeRec(x.ino, x.type, x.name, z, x.parent, r.data, r.capacity)
  <1>1. /\ ramfs_file_descriptors[f].ino # 0 /\ x.ino = ramfs_file_descriptors[f].ino
        /\ x.type = "file" /\ off < MaxFileSize /\ Len(buf) # 0 /\ n > 0
        /\ ramfs_pool' = StoredPool(s, r, off, buf, n)
        /\ ramfs_pool_used' = r.used
        /\ ramfs_inodes' = [ramfs_inodes EXCEPT
              ![s].data = r.data, ![s].capacity = r.capacity,
              ![s].size = IF off + n > @ THEN off + n ELSE @]
        /\ ramfs_file_descriptors' = [ramfs_file_descriptors EXCEPT ![f].offset = off + n]
        /\ ramfs_next_inode' = ramfs_next_inode
    BY DEF Writes
  <1>2. s \in Files /\ InodeType(x) /\ x.size <= x.capacity
    BY <1>0, <1>1 DEF Files, Used, RamType, BlocksApart
  <1>3. /\ needed \in Nat /\ 0 < needed /\ needed <= MaxFileSize
        /\ n \in Nat /\ n <= Len(buf) /\ off + n <= r.capacity
    BY <1>0, <1>1, <1>2, StoredIs
  <1>4. /\ r.data \in Int /\ r.capacity \in Nat /\ r.used \in Nat /\ r.used <= PoolSize
        /\ (r.data = Null <=> r.capacity = 0) /\ (r.data # Null => r.data >= 0)
        /\ x.capacity <= r.capacity
        /\ r.capacity > 0 => r.data + r.capacity <= r.used
        /\ \A t \in Slots : t # s /\ ramfs_inodes[t].capacity > 0 =>
              /\ BlockEnd(t) <= r.used
              /\ r.capacity > 0 =>
                    BlockEnd(t) <= r.data \/ r.data + r.capacity <= ramfs_inodes[t].data
    <2> HIDE DEF needed
    <2> QED BY <1>0, <1>2, <1>3, ReserveIs
  <1> HIDE DEF needed, n, r
  <1>5. off + n \in Nat BY <1>3
  <1>6. Put(s, y) BY <1>0, <1>1, <1>5, PutBlock
  <1>7. /\ Shape(y) /\ y.ino = x.ino /\ y.type = x.type /\ y.name = x.name /\ y.size = z
        /\ y.parent = x.parent /\ y.data = r.data /\ y.capacity = r.capacity
    BY RecFields
  <1> HIDE DEF y
  <1>8. z \in Nat /\ z <= r.capacity
    <2>1. x.size \in Nat /\ x.capacity \in Nat BY <1>2 DEF InodeType
    <2> HIDE DEF x
    <2> QED BY <2>1, <1>2, <1>3, <1>4, <1>5
  <1>9. InodeType(y) BY <1>2, <1>4, <1>7, <1>8 DEF InodeType
  <1> HIDE DEF z
  <1>10. /\ ramfs_file_descriptors' \in [Fds -> FdType]
         /\ \A g \in Fds : ramfs_file_descriptors'[g].ino = ramfs_file_descriptors[g].ino
    BY <1>0, <1>1, <1>5, MovedIs
  <1>11. RamType'
    <2>1. \A t \in Slots : InodeType(ramfs_inodes'[t])
      BY <1>0, <1>6, <1>9 DEF Put, RamType
    <2>2. ramfs_pool' \in [0 .. PoolSize - 1 -> Nat]
      BY <1>0, <1>1, <1>3, <1>4, StoredPoolType
    <2> QED BY <2>1, <2>2, <1>0, <1>1, <1>4, <1>6, <1>10 DEF RamType, Put
  <1>12. BlocksApart'
    <2>1. y.ino # 0 /\ y.type = "file" /\ y.size <= y.capacity BY <1>1, <1>7, <1>8
    <2>2. ramfs_pool_used' \in Nat /\ ramfs_pool_used' <= PoolSize BY <1>1, <1>4
    <2>3. y.capacity > 0 => y.data + y.capacity <= ramfs_pool_used' BY <1>1, <1>4, <1>7
    <2>4. \A t \in Slots : t # s /\ ramfs_inodes[t].capacity > 0 =>
              /\ BlockEnd(t) <= ramfs_pool_used'
              /\ y.capacity > 0 =>
                    BlockEnd(t) <= y.data \/ y.data + y.capacity <= ramfs_inodes[t].data
      BY <1>1, <1>4, <1>7
    <2> QED BY <1>0, <1>6, <1>9, <2>1, <2>2, <2>3, <2>4, PutBlocks
  <1>13. NamesUnique' BY <1>0, <1>6, <1>7, PutNames
  <1>14. NumbersOld'
    <2>1. \A t \in Slots : ramfs_inodes'[t].ino = ramfs_inodes[t].ino
      BY <1>6, <1>7 DEF Put
    <2> QED BY <1>0, <1>1, <1>10, <2>1 DEF NumbersOld
  <1> QED BY <1>11, <1>12, <1>13, <1>14 DEF RamInv

LEMMA EffectPreserves ==
    ASSUME NEW C, NEW B \in SUBSET Seq(Nat), RamInv, Effect(C, B)
    PROVE  RamInv'
  <1>0. RamType BY DEF RamInv
  <1>1. ASSUME NEW f \in Fds, Closes(f) PROVE RamInv'
    <2>1. /\ ramfs_file_descriptors' \in [Fds -> FdType]
          /\ \A g \in Fds : ramfs_file_descriptors'[g].ino \in {ramfs_file_descriptors[g].ino, 0}
      BY <1>0, <1>1, ClosedIs DEF Closes
    <2> QED BY <1>1, <2>1, FdsPreserve DEF Closes
  <1>2. ASSUME NEW f \in Fds, NEW pos \in Nat, Moves(f, pos) PROVE RamInv'
    <2>1. /\ ramfs_file_descriptors' \in [Fds -> FdType]
          /\ \A g \in Fds : ramfs_file_descriptors'[g].ino \in {ramfs_file_descriptors[g].ino, 0}
      BY <1>0, <1>2, MovedIs DEF Moves
    <2> QED BY <1>2, <2>1, FdsPreserve DEF Moves
  <1> QED
    BY <1>1, <1>2, QuietPreserves, MakesPreserves, OpensPreserves, FreesPreserves,
       WritesPreserves DEF Effect

LEMMA RamInit == Init => RamInv
  <1> SUFFICES ASSUME Init PROVE RamInv OBVIOUS
  <1> DEFINE root == [FreeInode EXCEPT !.type = "dir", !.name = "/"]
  <1>1. /\ root.ino = 0 /\ root.type = "dir" /\ root.size = 0 /\ root.data = Null
        /\ root.capacity = 0 /\ Shape(root)
    <2> DEFINE a == [FreeInode EXCEPT !.type = "dir"]
    <2>1. root = [a EXCEPT !.name = "/"] BY DEF FreeInode
    <2>2. FreeInode = InodeRec(0, "file", FreeInode.name, 0, 0, Null, 0)
      BY Zenon DEF FreeInode, InodeRec
    <2>3. a = InodeRec(0, "dir", FreeInode.name, 0, 0, Null, 0) BY <2>2 DEF InodeRec
    <2> HIDE DEF a
    <2>4. [a EXCEPT !.name = "/"] = InodeRec(0, "dir", "/", 0, 0, Null, 0)
      BY <2>3 DEF InodeRec
    <2> HIDE DEF root
    <2>5. root = InodeRec(0, "dir", "/", 0, 0, Null, 0) BY <2>1, <2>4
    <2> QED BY <2>5, RecFields
  <1>2. ramfs_inodes = [s \in Slots |-> IF s = 0 THEN root ELSE FreeInode] BY DEF Init
  <1> HIDE DEF root
  <1>3. /\ ramfs_inodes = [s \in Slots |-> ramfs_inodes[s]]
        /\ \A s \in Slots : ramfs_inodes[s] \in {root, FreeInode}
    BY <1>2
  <1>4. InodeType(root) /\ InodeType(FreeInode) BY <1>1, FreeInodeIs DEF InodeType, Null
  <1>5. \A s \in Slots : /\ InodeType(ramfs_inodes[s]) /\ ramfs_inodes[s].ino = 0
                         /\ ramfs_inodes[s].size = 0 /\ ramfs_inodes[s].capacity = 0
    BY <1>1, <1>3, <1>4, FreeInodeIs
  <1>6. FreeFd \in FdType /\ FreeFd.ino = 0 BY DEF FreeFd, FdType, RDONLY
  <1>7. RamType BY <1>3, <1>5, <1>6 DEF Init, RamType
  <1>8. BlocksApart
    <2>1. Files = {} BY <1>5 DEF Files, Used
    <2>2. ramfs_pool_used <= PoolSize BY PoolAssumption DEF Init
    <2> QED BY <1>5, <2>1, <2>2 DEF BlocksApart
  <1>9. NumbersOld BY <1>5, <1>6 DEF Init, NumbersOld
  <1>10. NamesUnique BY <1>5 DEF NamesUnique, Used
  <1> QED BY <1>7, <1>8, <1>9, <1>10 DEF RamInv

LEMMA RamStep == RamInv /\ [Next]_vars => RamInv'
  <1> SUFFICES ASSUME RamInv, [Next]_vars PROVE RamInv' OBVIOUS
  <1>1. CASE Next BY <1>1, ArgumentsAre, NextEffect, EffectPreserves DEF RamInv
  <1>2. CASE UNCHANGED vars BY <1>2, QuietPreserves DEF vars, Quiet
  <1> QED BY <1>1, <1>2

LEMMA Always == Spec => []RamInv
  BY RamInit, RamStep, PTL DEF Spec

\* Type correctness of the tables, with a block exactly for the inodes that have a
\* capacity.
THEOREM TypeCorrect == Spec => []RamType
  <1>1. RamInv => RamType BY DEF RamInv
  <1> QED BY <1>1, Always, PTL

\* For every size of the pool and the tables and every sequence of calls: the
\* blocks of files lie in the used part of the pool, apart from each other, and
\* hold their files.
THEOREM BlocksHold == Spec => []BlocksApart
  <1>1. RamInv => BlocksApart BY DEF RamInv
  <1> QED BY <1>1, Always, PTL

\* For every set of paths and every sequence of calls, no two inodes have the
\* same number, or the same directory and name.
THEOREM NamesHold == Spec => []NamesUnique
  <1>1. RamInv => NamesUnique BY DEF RamInv
  <1> QED BY <1>1, Always, PTL


-----------------------------------------------------------------------------
(* Action properties.                                                       *)

\* What an effect does to the numbers of inodes and of open descriptors.
LEMMA EffectNumbers ==
    ASSUME NEW C, NEW B \in SUBSET Seq(Nat), RamInv, Effect(C, B)
    PROVE  /\ \A s \in Slots :
                 ramfs_inodes'[s].ino \in {ramfs_inodes[s].ino, 0, ramfs_next_inode}
           /\ \A f \in Fds :
                 ramfs_file_descriptors[f].ino # 0 =>
                    ramfs_file_descriptors'[f].ino \in {ramfs_file_descriptors[f].ino, 0}
  <1>0. RamType BY DEF RamInv
  <1>1. \A s \in Slots : ramfs_inodes[s].ino \in Nat BY <1>0 DEF RamType, InodeType
  <1> DEFINE Inodes == \A s \in Slots :
                          ramfs_inodes'[s].ino \in {ramfs_inodes[s].ino, 0, ramfs_next_inode}
             Descriptors == \A f \in Fds :
                               ramfs_file_descriptors[f].ino # 0 =>
                                  ramfs_file_descriptors'[f].ino \in
                                     {ramfs_file_descriptors[f].ino, 0}
  <1>2. CASE Quiet
    BY <1>2 DEF Quiet, fsVars
  <1>3. ASSUME NEW p \in Paths, NEW type \in {"file", "dir"}, Makes(p, type)
        PROVE  Inodes /\ Descriptors
    <2> DEFINE s == FindFreeInode
               r == NewInode(p, type)
    <2>1. s \in Slots BY <1>3, FindFreeInodeIs DEF Makes, CanCreate
    <2>2. r.ino = ramfs_next_inode BY NewInodeIs, RecFields
    <2>3. ramfs_inodes' = [ramfs_inodes EXCEPT ![s] = r] BY <1>3 DEF Makes, Create
    <2> HIDE DEF s, r
    <2>4. Put(s, r) BY <1>0, <2>1, <2>3, PutIs
    <2>5. Inodes BY <2>2, <2>4 DEF Put
    <2>6. ramfs_next_inode \in Nat BY <1>0 DEF RamType
    <2>7. CASE Opened(ramfs_next_inode) BY <1>0, <2>5, <2>6, <2>7, OpenedIs
    <2>8. CASE UNCHANGED ramfs_file_descriptors BY <2>5, <2>8
    <2> QED BY <1>3, <2>7, <2>8 DEF Makes
  <1>4. ASSUME NEW s \in Slots, Opens(s) PROVE Inodes /\ Descriptors
    <2>1. Opened(ramfs_inodes[s].ino) BY <1>4 DEF Opens
    <2>2. Descriptors BY <1>0, <1>1, <2>1, OpenedIs
    <2>3. CASE UNCHANGED ramfs_inodes BY <2>2, <2>3
    <2>4. CASE ramfs_inodes' = [ramfs_inodes EXCEPT ![s].size = 0]
      <3>1. Inodes BY <1>0, <2>4, PutSize, RecFields DEF Put
      <3> QED BY <2>2, <3>1
    <2> QED BY <1>4, <2>3, <2>4 DEF Opens
  <1>5. ASSUME NEW s \in Slots, Frees(s) PROVE Inodes /\ Descriptors
    <2>1. Put(s, FreeInode) BY <1>0, <1>5, PutIs DEF Frees
    <2>2. Inodes BY <2>1, FreeInodeIs DEF Put
    <2> QED BY <1>5, <2>2 DEF Frees
  <1>6. ASSUME NEW f \in Fds, Closes(f) PROVE Inodes /\ Descriptors
    <2>1. Inodes BY <1>6 DEF Closes, fsVars
    <2>2. Descriptors BY <1>0, <1>6, ClosedIs DEF Closes
    <2> QED BY <2>1, <2>2
  <1>7. ASSUME NEW f \in Fds, NEW pos \in Nat, Moves(f, pos) PROVE Inodes /\ Descriptors
    <2>1. Inodes BY <1>7 DEF Moves, fsVars
    <2>2. Descriptors BY <1>0, <1>7, MovedIs DEF Moves
    <2> QED BY <2>1, <2>2
  <1>8. ASSUME NEW f \in Fds, NEW s \in Slots, NEW off \in Nat, NEW buf \in Seq(Nat),
               Writes(f, s, off, buf)
        PROVE  Inodes /\ Descriptors
    <2> DEFINE n == Stored(s, off, buf)
               r == Reserve(s, off + Want(off, buf))
    <2>1. n \in Nat /\ off + n \in Nat
      <3>1. s \in Files BY <1>8 DEF Writes, Files, Used
      <3>2. n \in Nat BY <1>8, <3>1, StoredIs DEF Writes, RamInv
      <3> QED BY <3>2
    <2>2. /\ ramfs_inodes' = [ramfs_inodes EXCEPT
                ![s].data = r.data, ![s].capacity = r.capacity,
                ![s].size = IF off + n > @ THEN off + n ELSE @]
          /\ ramfs_file_descriptors' = [ramfs_file_descriptors EXCEPT ![f].offset = off + n]
      BY <1>8 DEF Writes
    <2> HIDE DEF n, r
    <2> DEFINE y == InodeRec(ramfs_inodes[s].ino, ramfs_inodes[s].type, ramfs_inodes[s].name,
                             IF off + n > ramfs_inodes[s].size THEN off + n
                             ELSE ramfs_inodes[s].size,
                             ramfs_inodes[s].parent, r.data, r.capacity)
    <2>a. Put(s, y) BY <1>0, <2>1, <2>2, PutBlock
    <2>b. y.ino = ramfs_inodes[s].ino BY RecFields
    <2> HIDE DEF y
    <2>3. Inodes BY <2>a, <2>b DEF Put
    <2>4. Descriptors BY <1>0, <2>1, <2>2, MovedIs
    <2> QED BY <2>3, <2>4
  <1> QED BY <1>2, <1>3, <1>4, <1>5, <1>6, <1>7, <1>8 DEF Effect

\* Steps of FdKeepsFile and FailedCallHarmless.
KeepsFile ==
    \A f \in Fds :
       LET i == ramfs_file_descriptors[f].ino
       IN  i # 0 /\ ramfs_file_descriptors'[f].ino # 0 =>
              /\ ramfs_file_descriptors'[f].ino = i
              /\ \A s \in Slots : ramfs_inodes'[s].ino = i => ramfs_inodes[s].ino = i

Harmless ==
    ret' < 0 =>
       /\ UNCHANGED <<ramfs_pool, ramfs_pool_used>>
       /\ ramfs_inodes' # ramfs_inodes =>
             /\ FindFreeFd = None
             /\ \A s \in Used : ramfs_inodes'[s] = ramfs_inodes[s]
       /\ \A f \in Fds :
             ramfs_file_descriptors'[f] # ramfs_file_descriptors[f] =>
                ramfs_file_descriptors[f].append /\ ret' = -ENOSPC

LEMMA EffectKeepsFile ==
    ASSUME NEW C, NEW B \in SUBSET Seq(Nat), RamInv, Effect(C, B)
    PROVE  KeepsFile
  <1>1. ASSUME NEW f \in Fds, ramfs_file_descriptors[f].ino # 0,
               ramfs_file_descriptors'[f].ino # 0
        PROVE  /\ ramfs_file_descriptors'[f].ino = ramfs_file_descriptors[f].ino
               /\ \A s \in Slots :
                     ramfs_inodes'[s].ino = ramfs_file_descriptors[f].ino =>
                        ramfs_inodes[s].ino = ramfs_file_descriptors[f].ino
    <2>1. ramfs_file_descriptors'[f].ino = ramfs_file_descriptors[f].ino
      BY <1>1, EffectNumbers
    <2>2. ramfs_file_descriptors[f].ino # ramfs_next_inode
      <3>1. ramfs_file_descriptors[f].ino < ramfs_next_inode /\ ramfs_next_inode \in Nat
        BY DEF RamInv, NumbersOld, RamType
      <3> QED BY <3>1
    <2> QED BY <1>1, <2>1, <2>2, EffectNumbers
  <1> QED BY <1>1 DEF KeepsFile

LEMMA EffectHarmless ==
    ASSUME NEW C, NEW B \in SUBSET Seq(Nat), RamInv, Effect(C, B)
    PROVE  Harmless
  <1> DEFINE Store == UNCHANGED <<ramfs_pool, ramfs_pool_used>>
             Names == ramfs_inodes' # ramfs_inodes =>
                         /\ FindFreeFd = None
                         /\ \A s \in Used : ramfs_inodes'[s] = ramfs_inodes[s]
             Descriptors ==
                \A f \in Fds :
                   ramfs_file_descriptors'[f] # ramfs_file_descriptors[f] =>
                      ramfs_file_descriptors[f].append /\ ret' = -ENOSPC
  <1>0. RamType BY DEF RamInv
  <1>1. ASSUME ret' < 0 PROVE Store /\ Names /\ Descriptors
    <2>2. CASE Quiet BY <2>2 DEF Quiet, fsVars
    <2>3. ASSUME NEW p \in Paths, NEW type \in {"file", "dir"}, Makes(p, type)
          PROVE  Store /\ Names /\ Descriptors
      <3> DEFINE s == FindFreeInode
                 r == NewInode(p, type)
      <3>1. s \in Slots /\ ramfs_inodes[s].ino = 0
        BY <2>3, FindFreeInodeIs DEF Makes, CanCreate
      <3>2. ramfs_inodes' = [ramfs_inodes EXCEPT ![s] = r] BY <2>3 DEF Makes, Create
      <3> HIDE DEF s, r
      <3>3. Put(s, r) BY <1>0, <3>1, <3>2, PutIs
      <3>4. \A t \in Used : ramfs_inodes'[t] = ramfs_inodes[t]
        BY <3>1, <3>3 DEF Put, Used
      <3>5. FindFreeFd = None /\ UNCHANGED ramfs_file_descriptors
        <4>1. ~Opened(ramfs_next_inode)
          <5>1. ramfs_next_inode \in Nat BY <1>0 DEF RamType
          <5>2. Opened(ramfs_next_inode) => ret' >= 0 BY <1>0, <5>1, OpenedIs
          <5>3. Opened(ramfs_next_inode) => ret' \in Int
            BY TablesAreNat, TableAssumption DEF Opened
          <5> QED BY <1>1, <5>2, <5>3
        <4>2. ret' # 0 BY <1>1
        <4> QED BY <2>3, <4>1, <4>2 DEF Makes
      <3> QED BY <2>3, <3>4, <3>5 DEF Makes
    <2>4. ASSUME NEW s \in Slots, Opens(s) PROVE FALSE
      <3>1. ramfs_inodes[s].ino \in Nat BY <1>0 DEF RamType, InodeType
      <3>2. Opened(ramfs_inodes[s].ino) BY <2>4 DEF Opens
      <3>3. ret' >= 0 BY <1>0, <3>1, <3>2, OpenedIs
      <3>4. ret' \in Int BY <3>2, TablesAreNat, TableAssumption DEF Opened
      <3> QED BY <1>1, <3>3, <3>4
    <2>5. ASSUME NEW s \in Slots, Frees(s) PROVE FALSE BY <1>1, <2>5 DEF Frees
    <2>6. ASSUME NEW f \in Fds, Closes(f) PROVE FALSE BY <1>1, <2>6 DEF Closes
    <2>7. ASSUME NEW f \in Fds, NEW pos \in Nat, Moves(f, pos)
          PROVE  Store /\ Names /\ Descriptors
      <3>1. UNCHANGED <<ramfs_inodes, ramfs_pool, ramfs_pool_used>>
        BY <2>7 DEF Moves, fsVars
      <3>2. /\ ret' = -ENOSPC
            /\ ramfs_file_descriptors[f].append \/ pos = ramfs_file_descriptors[f].offset
        BY <1>1, <2>7 DEF Moves
      <3>3. Descriptors BY <1>0, <2>7, <3>2, MovedIs DEF Moves
      <3> QED BY <3>1, <3>3
    <2>8. ASSUME NEW f \in Fds, NEW s \in Slots, NEW off \in Nat, NEW buf \in Seq(Nat),
                 Writes(f, s, off, buf)
          PROVE  FALSE
      <3>1. s \in Files BY <2>8 DEF Writes, Files, Used
      <3>2. Stored(s, off, buf) \in Nat BY <2>8, <3>1, StoredIs DEF Writes, RamInv
      <3>3. ret' = Stored(s, off, buf) BY <2>8 DEF Writes
      <3> HIDE DEF Stored
      <3> QED BY <1>1, <3>2, <3>3
    <2> QED BY <2>2, <2>3, <2>4, <2>5, <2>6, <2>7, <2>8 DEF Effect
  <1> QED BY <1>1 DEF Harmless

\* For tables of any size and every sequence of calls: an open descriptor never
\* comes to mean a file that is made later in the slot of its own.
THEOREM FdKeeps == Spec => FdKeepsFile
  <1>1. RamInv /\ [Next]_vars => [KeepsFile]_vars
    BY ArgumentsAre, NextEffect, EffectKeepsFile DEF RamInv
  <1> QED BY <1>1, Always, PTL DEF Spec, FdKeepsFile, KeepsFile

\* For tables of any size and every sequence of calls: a call that fails changes
\* no file, name or descriptor, but for the file that stays when no descriptor is
\* free and the offset that an appending write moves.
THEOREM FailuresHarmless == Spec => FailedCallHarmless
  <1>1. RamInv /\ [Next]_vars => [Harmless]_vars
    BY ArgumentsAre, NextEffect, EffectHarmless DEF RamInv
  <1> QED BY <1>1, Always, PTL DEF Spec, FailedCallHarmless, Harmless

-----------------------------------------------------------------------------
(***************************************************************************)
(* The file system implements the abstract file store (module FileStore), as  *)
(* long as the root directory is not removed.  The contents of a file in the   *)
(* store are its bytes in the pool.                                          *)
(***************************************************************************)

(* A descriptor means a file, never a directory: numbers are not used again.  *)
FdFiles ==
    \A f \in Fds, s \in Slots :
       /\ ramfs_file_descriptors[f].ino # 0
       /\ ramfs_inodes[s].ino = ramfs_file_descriptors[f].ino
       => ramfs_inodes[s].type = "file"

\* Effects that open nothing and make nothing.
LEMMA FdFilesKept ==
    ASSUME FdFiles,
           \A f \in Fds : ramfs_file_descriptors'[f].ino \in {ramfs_file_descriptors[f].ino, 0},
           \A s \in Slots : \/ ramfs_inodes'[s].ino = 0
                            \/ /\ ramfs_inodes'[s].ino = ramfs_inodes[s].ino
                               /\ ramfs_inodes'[s].type = ramfs_inodes[s].type
    PROVE  FdFiles'
  BY DEF FdFiles

LEMMA MakesFdFiles ==
    ASSUME RamInv, FdFiles, NEW p, NEW type \in {"file", "dir"}, Makes(p, type)
    PROVE  FdFiles'
  <1>0. RamType /\ NumbersOld BY DEF RamInv
  <1> DEFINE u == FindFreeInode
             r == NewInode(p, type)
             i == ramfs_next_inode
  <1>1. u \in Slots BY FindFreeInodeIs DEF Makes, CanCreate
  <1>2. r.ino = i /\ r.type = type BY NewInodeIs, RecFields
  <1>3. ramfs_inodes' = [ramfs_inodes EXCEPT ![u] = r] BY DEF Makes, Create
  <1>4. i \in Nat /\ i # 0 BY <1>0 DEF RamType
  <1>5. /\ \A s \in Slots : ramfs_inodes[s].ino # i
        /\ \A f \in Fds : ramfs_file_descriptors[f].ino # i
    <2>1. /\ \A s \in Slots : ramfs_inodes[s].ino < i
          /\ \A f \in Fds : ramfs_file_descriptors[f].ino < i
      BY <1>0 DEF NumbersOld
    <2> HIDE DEF i
    <2> QED BY <2>1, <1>4
  <1>6. \/ UNCHANGED ramfs_file_descriptors
        \/ type = "file" /\ Opened(i)
    BY DEF Makes
  <1>7. /\ type = "file" \/ UNCHANGED ramfs_file_descriptors
        /\ \A f \in Fds : ramfs_file_descriptors'[f].ino \in {ramfs_file_descriptors[f].ino, i}
    BY <1>0, <1>4, <1>6, OpenedIs
  <1> HIDE DEF u, r, i
  <1>8. Put(u, r) BY <1>0, <1>1, <1>3, PutIs
  <1>9. ASSUME NEW f \in Fds, NEW s \in Slots, ramfs_file_descriptors'[f].ino # 0,
               ramfs_inodes'[s].ino = ramfs_file_descriptors'[f].ino
        PROVE  ramfs_inodes'[s].type = "file"
    <2>1. CASE s = u BY <1>2, <1>5, <1>7, <1>8, <1>9, <2>1 DEF Put
    <2>2. CASE s # u BY <1>5, <1>7, <1>8, <1>9, <2>2 DEF Put, FdFiles
    <2> QED BY <2>1, <2>2
  <1> QED BY <1>9 DEF FdFiles

LEMMA OpensFdFiles ==
    ASSUME RamInv, FdFiles, NEW u \in Slots, Opens(u)
    PROVE  FdFiles'
  <1>0. RamType /\ NamesUnique BY DEF RamInv
  <1>1. ramfs_inodes[u].type = "file" /\ Opened(ramfs_inodes[u].ino) BY DEF Opens
  <1>2. ramfs_inodes[u].ino \in Nat BY <1>0 DEF RamType, InodeType
  <1>3. \A f \in Fds : ramfs_file_descriptors'[f].ino \in
                          {ramfs_file_descriptors[f].ino, ramfs_inodes[u].ino}
    BY <1>0, <1>1, <1>2, OpenedIs
  <1>4. \A s \in Slots : /\ ramfs_inodes'[s].ino = ramfs_inodes[s].ino
                         /\ ramfs_inodes'[s].type = ramfs_inodes[s].type
    <2>1. CASE UNCHANGED ramfs_inodes BY <2>1
    <2>2. CASE ramfs_inodes' = [ramfs_inodes EXCEPT ![u].size = 0]
      BY <1>0, <2>2, PutSize, RecFields DEF Put
    <2> QED BY <2>1, <2>2 DEF Opens
  <1>5. \A s \in Slots : ramfs_inodes[s].ino = ramfs_inodes[u].ino /\ ramfs_inodes[u].ino # 0
                            => s = u
    BY <1>0 DEF NamesUnique, Used
  <1>6. ASSUME NEW f \in Fds, NEW s \in Slots, ramfs_file_descriptors'[f].ino # 0,
               ramfs_inodes'[s].ino = ramfs_file_descriptors'[f].ino
        PROVE  ramfs_inodes'[s].type = "file"
    <2>1. CASE ramfs_file_descriptors'[f].ino = ramfs_file_descriptors[f].ino
      BY <1>4, <1>6, <2>1 DEF FdFiles
    <2>2. CASE ramfs_file_descriptors'[f].ino = ramfs_inodes[u].ino
      BY <1>1, <1>4, <1>5, <1>6, <2>2
    <2> QED BY <1>3, <2>1, <2>2
  <1> QED BY <1>6 DEF FdFiles

\* The slot that is written keeps its number, name and type.
LEMMA WritesIs ==
    ASSUME RamInv, NEW f \in Fds, NEW s \in Slots, NEW off \in Nat, NEW buf \in Seq(Nat),
           Writes(f, s, off, buf)
    PROVE  LET n == Stored(s, off, buf)
               r == Reserve(s, off + Want(off, buf))
               x == ramfs_inodes[s]
           IN  /\ s \in Files /\ n \in Nat /\ n > 0 /\ n <= Len(buf)
               /\ off + n <= r.capacity
               /\ Put(s, InodeRec(x.ino, x.type, x.name,
                                  IF off + n > x.size THEN off + n ELSE x.size,
                                  x.parent, r.data, r.capacity))
  <1> DEFINE n == Stored(s, off, buf)
             r == Reserve(s, off + Want(off, buf))
  <1>1. s \in Files BY DEF Writes, Files, Used
  <1>2. n \in Nat /\ n <= Len(buf) /\ off + n <= r.capacity /\ n > 0
    BY <1>1, StoredIs DEF Writes, RamInv
  <1>3. off + n \in Nat BY <1>2
  <1>4. ramfs_inodes' = [ramfs_inodes EXCEPT
          ![s].data = r.data, ![s].capacity = r.capacity,
          ![s].size = IF off + n > @ THEN off + n ELSE @]
    BY DEF Writes
  <1> HIDE DEF n, r
  <1>5. RamType BY DEF RamInv
  <1>6. Put(s, InodeRec(ramfs_inodes[s].ino, ramfs_inodes[s].type, ramfs_inodes[s].name,
                        IF off + n > ramfs_inodes[s].size THEN off + n ELSE ramfs_inodes[s].size,
                        ramfs_inodes[s].parent, r.data, r.capacity))
    BY <1>3, <1>4, <1>5, PutBlock
  <1> QED BY <1>1, <1>2, <1>6 DEF n, r

LEMMA FdFilesStep ==
    ASSUME NEW C, NEW B \in SUBSET Seq(Nat), RamInv, FdFiles, Effect(C, B)
    PROVE  FdFiles'
  <1>0. RamType BY DEF RamInv
  <1>1. CASE Quiet BY <1>1, FdFilesKept DEF Quiet, fsVars
  <1>2. ASSUME NEW s \in Slots, Frees(s) PROVE FdFiles'
    <2>1. Put(s, FreeInode) BY <1>0, <1>2, PutIs DEF Frees
    <2> QED BY <1>2, <2>1, FreeInodeIs, FdFilesKept DEF Put, Frees
  <1>3. ASSUME NEW f \in Fds, Closes(f) PROVE FdFiles'
    <2>1. \A g \in Fds : ramfs_file_descriptors'[g].ino \in {ramfs_file_descriptors[g].ino, 0}
      BY <1>0, <1>3, ClosedIs DEF Closes
    <2> QED BY <1>3, <2>1, FdFilesKept DEF Closes, fsVars
  <1>4. ASSUME NEW f \in Fds, NEW pos \in Nat, Moves(f, pos) PROVE FdFiles'
    <2>1. \A g \in Fds : ramfs_file_descriptors'[g].ino \in {ramfs_file_descriptors[g].ino, 0}
      BY <1>0, <1>4, MovedIs DEF Moves
    <2> QED BY <1>4, <2>1, FdFilesKept DEF Moves, fsVars
  <1>5. ASSUME NEW f \in Fds, NEW s \in Slots, NEW off \in Nat, NEW buf \in Seq(Nat),
               Writes(f, s, off, buf)
        PROVE  FdFiles'
    <2> DEFINE n == Stored(s, off, buf)
               r == Reserve(s, off + Want(off, buf))
               x == ramfs_inodes[s]
               y == InodeRec(x.ino, x.type, x.name, IF off + n > x.size THEN off + n ELSE x.size,
                             x.parent, r.data, r.capacity)
    <2>1. n \in Nat /\ Put(s, y) BY <1>5, WritesIs
    <2>2. y.ino = x.ino /\ y.type = x.type BY RecFields
    <2>3. ramfs_file_descriptors' = [ramfs_file_descriptors EXCEPT ![f].offset = off + n]
      BY <1>5 DEF Writes
    <2> HIDE DEF n, y
    <2>4. off + n \in Nat BY <2>1
    <2>5. \A g \in Fds : ramfs_file_descriptors'[g].ino \in {ramfs_file_descriptors[g].ino, 0}
      BY <1>0, <2>3, <2>4, MovedIs
    <2>6. \A t \in Slots : /\ ramfs_inodes'[t].ino = ramfs_inodes[t].ino
                           /\ ramfs_inodes'[t].type = ramfs_inodes[t].type
      BY <2>1, <2>2 DEF Put
    <2> QED BY <2>5, <2>6, FdFilesKept
  <1> QED
    BY <1>1, <1>2, <1>3, <1>4, <1>5, MakesFdFiles, OpensFdFiles DEF Effect

-----------------------------------------------------------------------------
(* The contents, seen through the table.                                    *)

Bytes(s) == Content(s, 0, ramfs_inodes[s].size)

\* The bytes of a slot, and what Contents says of its number.
ContentsAre ==
    /\ Contents = [i \in FileNumbers |-> Contents[i]]
    /\ \A s \in Files : /\ ramfs_inodes[s].ino \in FileNumbers
                        /\ Contents[ramfs_inodes[s].ino] = Bytes(s)
    /\ \A i \in FileNumbers : \E s \in Files : ramfs_inodes[s].ino = i

LEMMA ContentsByTable == RamInv => ContentsAre
  <1> SUFFICES ASSUME RamInv PROVE ContentsAre OBVIOUS
  <1>1. Contents = [i \in FileNumbers |-> Bytes(SlotOf(i))] BY DEF Contents, Bytes
  <1>2. ASSUME NEW s \in Files
        PROVE  ramfs_inodes[s].ino \in FileNumbers /\ SlotOf(ramfs_inodes[s].ino) = s
    <2>1. ramfs_inodes[s].ino \in FileNumbers BY DEF FileNumbers
    <2>2. \A t \in Files : ramfs_inodes[t].ino = ramfs_inodes[s].ino => t = s
      BY DEF RamInv, NamesUnique, Files
    <2>3. SlotOf(ramfs_inodes[s].ino) = s BY <2>2, Zenon DEF SlotOf
    <2> QED BY <2>1, <2>3
  <1>3. \A i \in FileNumbers : \E s \in Files : ramfs_inodes[s].ino = i
    BY Zenon DEF FileNumbers
  <1>4. ASSUME NEW s \in Files PROVE Contents[ramfs_inodes[s].ino] = Bytes(s)
    BY <1>1, <1>2, Zenon
  <1>5. Contents = [i \in FileNumbers |-> Contents[i]] BY <1>1, Zenon
  <1> QED BY <1>2, <1>3, <1>4, <1>5 DEF ContentsAre

LEMMA ContentsByTableNext == RamInv' => ContentsAre'
  BY ContentsByTable, PTL

\* Contents after a step, slot by slot.
LEMMA ContentsBecome ==
    ASSUME RamInv', NEW D, NEW g, g = [i \in D |-> g[i]],
           \A s \in Slots : s \in Files' =>
              ramfs_inodes'[s].ino \in D /\ g[ramfs_inodes'[s].ino] = Bytes(s)',
           \A i \in D : \E s \in Slots : s \in Files' /\ ramfs_inodes'[s].ino = i
    PROVE  Contents' = g
  <1>1. ContentsAre' BY ContentsByTableNext
  <1>2. Files' \subseteq Slots BY DEF Files, Used, Slots
  <1>3. /\ Contents' = [i \in FileNumbers' |-> Contents'[i]]
        /\ \A s \in Files' : /\ ramfs_inodes'[s].ino \in FileNumbers'
                             /\ Contents'[ramfs_inodes'[s].ino] = Bytes(s)'
        /\ \A i \in FileNumbers' : \E s \in Files' : ramfs_inodes'[s].ino = i
    BY <1>1, Zenon DEF ContentsAre
  <1>4. FileNumbers' = D BY <1>2, <1>3
  <1>5. \A i \in D : Contents'[i] = g[i] BY <1>2, <1>3, <1>4
  <1> HIDE DEF Contents
  <1> QED BY <1>3, <1>4, <1>5, Zenon

\* The bytes of a slot that keeps its record, when the pool is as before.
LEMMA SameBytes ==
    ASSUME NEW s, ramfs_inodes'[s] = ramfs_inodes[s], ramfs_pool' = ramfs_pool
    PROVE  Bytes(s)' = Bytes(s)
  BY DEF Bytes, Content

\* A slot without bytes.
LEMMA NoBytes ==
    ASSUME NEW s, ramfs_inodes'[s].size = 0
    PROVE  Bytes(s)' = << >>
  BY DEF Bytes, Content

-----------------------------------------------------------------------------
(* What the effects do to the contents.                                      *)

LEMMA ContentsKept ==
    ASSUME UNCHANGED fsVars
    PROVE  Contents' = Contents
  BY DEF Contents, Content, SlotOf, FileNumbers, Files, Used, fsVars

\* A slot that was free becomes a file with the new number i, without bytes.
LEMMA ContentsOfNew ==
    ASSUME RamInv, RamInv', NEW u \in Slots, NEW r, NEW i,
           ramfs_inodes[u].ino = 0, Put(u, r), ramfs_pool' = ramfs_pool,
           r.ino = i, i # 0, r.size = 0, r.type = "file", i \notin FileNumbers, NEW new,
           new = [j \in FileNumbers \cup {i} |-> IF j = i THEN << >> ELSE Contents[j]]
    PROVE  Contents' = new
  <1>1. ContentsAre BY ContentsByTable
  <1> DEFINE D == FileNumbers \cup {i}
             g == [j \in D |-> IF j = i THEN << >> ELSE Contents[j]]
  <1>2. g = [j \in D |-> g[j]] OBVIOUS
  <1>3. \A s \in Slots : s # u => (s \in Files' <=> s \in Files) BY DEF Put, Files, Used
  <1>4. u \in Files' /\ u \notin Files BY DEF Put, Files, Used
  <1>5. ASSUME NEW s \in Slots, s \in Files'
        PROVE  ramfs_inodes'[s].ino \in D /\ g[ramfs_inodes'[s].ino] = Bytes(s)'
    <2>1. CASE s = u
      <3>1. ramfs_inodes'[s].ino = i /\ ramfs_inodes'[s].size = 0 BY <2>1 DEF Put
      <3>2. Bytes(s)' = << >> BY <3>1, NoBytes
      <3>3. g[i] = << >> OBVIOUS
      <3> HIDE DEF g
      <3> QED BY <3>1, <3>2, <3>3
    <2>2. CASE s # u
      <3>1. s \in Files /\ ramfs_inodes'[s] = ramfs_inodes[s] BY <1>3, <1>5, <2>2 DEF Put
      <3>2. Bytes(s)' = Bytes(s) BY <3>1, SameBytes
      <3>3. /\ ramfs_inodes[s].ino \in FileNumbers
            /\ Contents[ramfs_inodes[s].ino] = Bytes(s)
        BY <1>1, <3>1, Zenon DEF ContentsAre
      <3>4. \A j \in FileNumbers : j \in D /\ g[j] = Contents[j]
        <4> HIDE DEF FileNumbers, Contents
        <4> QED OBVIOUS
      <3> HIDE DEF g, D, FileNumbers, Contents
      <3> QED BY <3>1, <3>2, <3>3, <3>4
    <2> QED BY <2>1, <2>2
  <1>6. ASSUME NEW j \in D PROVE \E s \in Slots : s \in Files' /\ ramfs_inodes'[s].ino = j
    <2>1. CASE j = i BY <1>4, <2>1 DEF Put
    <2>2. CASE j \in FileNumbers
      <3>1. PICK s \in Files : ramfs_inodes[s].ino = j BY <1>1, <2>2, Zenon DEF ContentsAre
      <3>2. s \in Slots /\ s # u BY <1>4, <3>1 DEF Files, Used
      <3> QED BY <1>3, <3>1, <3>2 DEF Put
    <2> QED BY <2>1, <2>2
  <1> HIDE DEF g, D
  <1>7. Contents' = g BY <1>2, <1>5, <1>6, ContentsBecome
  <1> QED BY <1>7 DEF g, D

\* A file disappears.
LEMMA ContentsOfRemoved ==
    ASSUME RamInv, RamInv', NEW u \in Files, Put(u, FreeInode), ramfs_pool' = ramfs_pool
    PROVE  Contents' = [j \in FileNumbers \ {ramfs_inodes[u].ino} |-> Contents[j]]
  <1>1. ContentsAre BY ContentsByTable
  <1> DEFINE i == ramfs_inodes[u].ino
             D == FileNumbers \ {i}
             g == [j \in D |-> Contents[j]]
  <1>2. g = [j \in D |-> g[j]] OBVIOUS
  <1>3. \A s \in Slots : s # u => (s \in Files' <=> s \in Files) BY DEF Put, Files, Used
  <1>4. u \notin Files' /\ u \in Slots BY FreeInodeIs DEF Put, Files, Used
  <1>5. ASSUME NEW s \in Slots, s \in Files'
        PROVE  ramfs_inodes'[s].ino \in D /\ g[ramfs_inodes'[s].ino] = Bytes(s)'
    <2>1. s # u BY <1>4, <1>5
    <2>2. s \in Files /\ ramfs_inodes'[s] = ramfs_inodes[s] BY <1>3, <1>5, <2>1 DEF Put
    <2>3. Bytes(s)' = Bytes(s) BY <2>2, SameBytes
    <2>4. /\ ramfs_inodes[s].ino \in FileNumbers
          /\ Contents[ramfs_inodes[s].ino] = Bytes(s)
      BY <1>1, <2>2, Zenon DEF ContentsAre
    <2>5. ramfs_inodes[s].ino # i BY <2>1, <2>2 DEF RamInv, NamesUnique, Files
    <2>6. \A j \in D : g[j] = Contents[j] OBVIOUS
    <2>7. ramfs_inodes[s].ino \in D BY <2>4, <2>5
    <2> HIDE DEF g, D, FileNumbers, Contents
    <2> QED BY <2>2, <2>3, <2>4, <2>6, <2>7
  <1>6. ASSUME NEW j \in D PROVE \E s \in Slots : s \in Files' /\ ramfs_inodes'[s].ino = j
    <2>1. PICK s \in Files : ramfs_inodes[s].ino = j BY <1>1, Zenon DEF ContentsAre
    <2>2. s \in Slots /\ s # u BY <2>1 DEF Files, Used
    <2> QED BY <1>3, <2>1, <2>2 DEF Put
  <1> HIDE DEF g, D
  <1>7. Contents' = g BY <1>2, <1>5, <1>6, ContentsBecome
  <1> QED BY <1>7 DEF g, D

\* Slot u is no file before and after: the contents stay.
LEMMA ContentsOfOthers ==
    ASSUME RamInv, RamInv', NEW u \in Slots, NEW r, Put(u, r), ramfs_pool' = ramfs_pool,
           u \notin Files, r.ino = 0 \/ r.type = "dir"
    PROVE  Contents' = Contents
  <1>1. ContentsAre BY ContentsByTable
  <1>2. Contents = [j \in FileNumbers |-> Contents[j]] BY <1>1, Zenon DEF ContentsAre
  <1>3. \A s \in Slots : (s \in Files' <=> s \in Files) BY DEF Put, Files, Used
  <1>4. ASSUME NEW s \in Slots, s \in Files'
        PROVE  /\ ramfs_inodes'[s].ino \in FileNumbers
               /\ Contents[ramfs_inodes'[s].ino] = Bytes(s)'
    <2>1. s \in Files /\ ramfs_inodes'[s] = ramfs_inodes[s] BY <1>3, <1>4 DEF Put
    <2>2. Bytes(s)' = Bytes(s) BY <2>1, SameBytes
    <2>3. /\ ramfs_inodes[s].ino \in FileNumbers
          /\ Contents[ramfs_inodes[s].ino] = Bytes(s)
      BY <1>1, <2>1, Zenon DEF ContentsAre
    <2> HIDE DEF FileNumbers, Contents
    <2> QED BY <2>1, <2>2, <2>3
  <1>5. ASSUME NEW j \in FileNumbers
        PROVE  \E s \in Slots : s \in Files' /\ ramfs_inodes'[s].ino = j
    <2>1. PICK s \in Files : ramfs_inodes[s].ino = j BY <1>1, Zenon DEF ContentsAre
    <2>2. s \in Slots BY <2>1 DEF Files, Used
    <2>3. s # u BY <2>1
    <2> QED BY <1>3, <2>1, <2>2, <2>3 DEF Put
  <1> DEFINE g == Contents
             D == FileNumbers
  <1>6. /\ g = [j \in D |-> g[j]]
        /\ \A s \in Slots : s \in Files' =>
              ramfs_inodes'[s].ino \in D /\ g[ramfs_inodes'[s].ino] = Bytes(s)'
        /\ \A j \in D : \E s \in Slots : s \in Files' /\ ramfs_inodes'[s].ino = j
    BY <1>2, <1>4, <1>5, Zenon
  <1> HIDE DEF g, D
  <1>7. Contents' = g BY <1>6, ContentsBecome
  <1> QED BY <1>7 DEF g

\* A file gets new bytes, the bytes of the others stay.
LEMMA ContentsOfChanged ==
    ASSUME RamInv, RamInv', NEW u \in Files, NEW r, Put(u, r),
           r.ino = ramfs_inodes[u].ino, r.type = "file",
           \A s \in Files : s # u => Bytes(s)' = Bytes(s)
    PROVE  Contents' = [Contents EXCEPT ![ramfs_inodes[u].ino] = Bytes(u)']
  <1>1. ContentsAre BY ContentsByTable
  <1> DEFINE i == ramfs_inodes[u].ino
             D == FileNumbers
             c == Contents
             b == Bytes(u)'
             g == [c EXCEPT ![i] = b]
  <1>2. c = [j \in D |-> c[j]] BY <1>1, Zenon DEF ContentsAre
  <1>3. i \in D BY <1>1, Zenon DEF ContentsAre
  <1>4. \A s \in Slots : (s \in Files' <=> s \in Files) BY DEF Put, Files, Used
  <1>5. \A s \in Slots : ramfs_inodes'[s].ino = ramfs_inodes[s].ino BY DEF Put
  <1>6. \A s \in Files : s \in Slots BY DEF Files, Used
  <1>7. \A s \in Files : /\ ramfs_inodes[s].ino \in D
                         /\ c[ramfs_inodes[s].ino] = Bytes(s)
    BY <1>1, Zenon DEF ContentsAre
  <1>8. \A s \in Files : s # u => ramfs_inodes[s].ino # i
    BY DEF RamInv, NamesUnique, Files
  <1>9. \A j \in D : \E s \in Files : ramfs_inodes[s].ino = j BY <1>1, Zenon DEF ContentsAre
  <1> HIDE DEF D, c
  <1>10. g = [j \in D |-> g[j]] BY <1>2
  <1>11. ASSUME NEW s \in Slots, s \in Files'
         PROVE  ramfs_inodes'[s].ino \in D /\ g[ramfs_inodes'[s].ino] = Bytes(s)'
    <2>1. s \in Files /\ ramfs_inodes'[s].ino = ramfs_inodes[s].ino BY <1>4, <1>5, <1>11
    <2>2. CASE s = u
      <3>1. g[i] = b BY <1>2, <1>3
      <3> HIDE DEF g
      <3> QED BY <2>1, <2>2, <3>1, <1>3
    <2>3. CASE s # u
      <3>1. \A j \in D : j # i => g[j] = c[j] BY <1>2
      <3> HIDE DEF g, i
      <3> QED BY <2>1, <2>3, <3>1, <1>7, <1>8
    <2> QED BY <2>2, <2>3
  <1>12. \A j \in D : \E s \in Slots : s \in Files' /\ ramfs_inodes'[s].ino = j
    BY <1>4, <1>5, <1>6, <1>9
  <1> HIDE DEF g
  <1>13. Contents' = g BY <1>10, <1>11, <1>12, ContentsBecome
  <1> QED BY <1>13 DEF g, c

-----------------------------------------------------------------------------
(* The bytes after a write.                                                 *)

LEMMA BytesIs ==
    ASSUME RamInv, NEW s \in Slots
    PROVE  /\ Bytes(s) = [k \in 1 .. ramfs_inodes[s].size |-> ramfs_pool[ramfs_inodes[s].data + k - 1]]
           /\ ramfs_inodes[s].size \in Nat
           /\ Bytes(s) \in Seq(Nat) /\ Len(Bytes(s)) = ramfs_inodes[s].size
  <1> DEFINE d == ramfs_inodes[s].data
             z == ramfs_inodes[s].size
             c == ramfs_inodes[s].capacity
  <1>1. /\ z \in Nat /\ c \in Nat /\ d \in Int /\ z <= c
        /\ (c > 0 => d >= 0 /\ d + c <= ramfs_pool_used)
        /\ ramfs_pool_used \in Nat /\ ramfs_pool_used <= PoolSize /\ PoolSize \in Nat
    BY PoolAssumption DEF RamInv, RamType, InodeType, BlocksApart, BlockEnd
  <1>2. Bytes(s) = [k \in 1 .. z - 0 |-> ramfs_pool[d + 0 + k - 1]] BY DEF Bytes, Content
  <1>3. ramfs_pool \in [0 .. PoolSize - 1 -> Nat] BY DEF RamInv, RamType
  <1> HIDE DEF d, z, c
  <1>4. Bytes(s) = [k \in 1 .. z |-> ramfs_pool[d + k - 1]] BY <1>1, <1>2
  <1>5. ASSUME NEW k \in 1 .. z PROVE ramfs_pool[d + k - 1] \in Nat
    <2>1. k \in Nat /\ 1 <= k /\ k <= c /\ c > 0 BY <1>1
    <2>2. d + k - 1 \in 0 .. PoolSize - 1 BY <1>1, <2>1
    <2> QED BY <1>3, <2>2
  <1>6. Bytes(s) \in Seq(Nat) /\ Len(Bytes(s)) = z BY <1>1, <1>4, <1>5
  <1> QED BY <1>1, <1>4, <1>6 DEF d, z

\* Files other than the one that is written: their blocks are apart from where
\* the bytes go.
LEMMA OtherBytes ==
    ASSUME RamInv, RamInv', NEW s \in Slots, NEW r, NEW off \in Nat, NEW buf, NEW n \in Nat, NEW y,
           ramfs_pool' = StoredPool(s, r, off, buf, n), Put(s, y),
           off + n <= r.capacity, ramfs_inodes[s].size <= r.capacity, r.capacity > 0,
           r.data \in Int, r.capacity \in Nat,
           NEW t \in Slots, t # s,
           ramfs_inodes[t].capacity > 0 =>
              \/ BlockEnd(t) <= r.data
              \/ r.data + r.capacity <= ramfs_inodes[t].data
    PROVE  Bytes(t)' = Bytes(t)
  <1> DEFINE d == ramfs_inodes[t].data
             z == ramfs_inodes[t].size
             c == ramfs_inodes[t].capacity
             nd == ramfs_inodes[s]
  <1>1. /\ z \in Nat /\ c \in Nat /\ d \in Int /\ z <= c
        /\ (c > 0 => d >= 0 /\ d + c <= ramfs_pool_used)
        /\ ramfs_pool_used \in Nat /\ ramfs_pool_used <= PoolSize /\ PoolSize \in Nat
        /\ nd.size \in Nat
    BY PoolAssumption DEF RamInv, RamType, InodeType, BlocksApart, BlockEnd
  <1>2. Bytes(t) = [k \in 1 .. z |-> ramfs_pool[d + k - 1]] BY BytesIs
  <1>3. ramfs_inodes'[t] = ramfs_inodes[t] BY DEF Put
  <1>4. Bytes(t)' = [k \in 1 .. z - 0 |-> ramfs_pool'[d + 0 + k - 1]]
    BY <1>3 DEF Bytes, Content
  <1>5. c > 0 => d + c <= r.data \/ r.data + r.capacity <= d BY DEF BlockEnd
  <1>6. \A i \in 0 .. PoolSize - 1 :
           (i - r.data \notin 0 .. r.capacity - 1) => ramfs_pool'[i] = ramfs_pool[i]
    <2> SUFFICES ASSUME NEW i \in 0 .. PoolSize - 1, i - r.data \notin 0 .. r.capacity - 1
                 PROVE  ramfs_pool'[i] = ramfs_pool[i]
      OBVIOUS
    <2> DEFINE j == i - r.data
    <2>1. j \in Int BY <1>1
    <2>2. /\ j \notin off .. off + n - 1 /\ j \notin nd.size .. off - 1
          /\ j \notin 0 .. nd.size - 1
      <3>1. j \notin 0 .. r.capacity - 1 /\ nd.size <= r.capacity OBVIOUS
      <3> HIDE DEF j, nd
      <3> QED BY <1>1, <2>1, <3>1
    <2>3. ramfs_pool'[i] =
            IF j \in off .. off + n - 1 THEN buf[j - off + 1]
            ELSE IF j \in nd.size .. off - 1 THEN 0
            ELSE IF j \in 0 .. nd.size - 1 /\ r.data # nd.data THEN ramfs_pool[nd.data + j]
            ELSE ramfs_pool[i]
      BY DEF StoredPool
    <2> HIDE DEF j, nd
    <2> QED BY <2>2, <2>3
  <1> HIDE DEF d, z, c
  <1>7. ASSUME NEW k \in 1 .. z PROVE ramfs_pool'[d + k - 1] = ramfs_pool[d + k - 1]
    <2>1. k \in Nat /\ 1 <= k /\ k <= c /\ c > 0 BY <1>1
    <2>2. d + k - 1 \in 0 .. PoolSize - 1 BY <1>1, <2>1
    <2>3. (d + k - 1) - r.data \notin 0 .. r.capacity - 1 BY <1>1, <1>5, <2>1
    <2> QED BY <1>6, <2>2, <2>3
  <1>8. Bytes(t)' = [k \in 1 .. z |-> ramfs_pool'[d + k - 1]] BY <1>1, <1>4
  <1> QED BY <1>2, <1>7, <1>8


\* The file that is written: the bytes of buf from off on, zeroes in a hole, the
\* rest as before, in its old block or in the new one.
LEMMA OwnBytes ==
    ASSUME RamInv, RamInv', NEW s \in Slots, NEW r, NEW off \in Nat, NEW buf \in Seq(Nat),
           NEW n \in Nat, n <= Len(buf), NEW y,
           ramfs_pool' = StoredPool(s, r, off, buf, n), Put(s, y),
           off + n <= r.capacity, ramfs_inodes[s].size <= r.capacity, r.capacity > 0,
           r.data \in Nat, r.capacity \in Nat, r.data + r.capacity <= PoolSize,
           y.data = r.data,
           y.size = IF off + n > ramfs_inodes[s].size THEN off + n ELSE ramfs_inodes[s].size
    PROVE  Bytes(s)' = FS!Overwrite(Bytes(s), off, SubSeq(buf, 1, n))
  <1> DEFINE d == ramfs_inodes[s].data
             z == ramfs_inodes[s].size
             w == IF off + n > z THEN off + n ELSE z
             e == r.data
             b == SubSeq(buf, 1, n)
             c == Bytes(s)
  <1>1. z \in Nat /\ d \in Int /\ PoolSize \in Nat /\ e \in Nat
    BY PoolAssumption DEF RamInv, RamType, InodeType
  <1>2. /\ c = [k \in 1 .. z |-> ramfs_pool[d + k - 1]] /\ Len(c) = z BY BytesIs
  <1>3. ramfs_inodes'[s] = y BY DEF Put
  <1>4. Bytes(s)' = [k \in 1 .. w - 0 |-> ramfs_pool'[e + 0 + k - 1]]
    BY <1>3 DEF Bytes, Content
  <1>5. Len(b) = n /\ \A k \in 1 .. n : b[k] = buf[k] OBVIOUS
  <1>6. w \in Nat /\ w <= r.capacity BY <1>1
  <1>7. \A i \in 0 .. PoolSize - 1 : ramfs_pool'[i] =
           IF i - e \in off .. off + n - 1 THEN buf[i - e - off + 1]
           ELSE IF i - e \in z .. off - 1 THEN 0
           ELSE IF i - e \in 0 .. z - 1 /\ e # d THEN ramfs_pool[d + (i - e)]
           ELSE ramfs_pool[i]
    BY DEF StoredPool
  <1> HIDE DEF b, c, d, e, z
  <1>8. FS!Overwrite(c, off, b) =
          [k \in 1 .. w |-> IF k \in off + 1 .. off + n THEN b[k - off]
                            ELSE IF k <= z THEN c[k] ELSE 0]
    <2>1. Len(c) = z /\ Len(b) = n BY <1>2, <1>5
    <2> QED BY <2>1 DEF FS!Overwrite
  <1>9. ASSUME NEW k \in 1 .. w
        PROVE  ramfs_pool'[e + k - 1] = IF k \in off + 1 .. off + n THEN b[k - off]
                                        ELSE IF k <= z THEN c[k] ELSE 0
    <2>1. k \in Nat /\ 1 <= k /\ k <= w /\ w <= r.capacity BY <1>6
    <2>2. e + k - 1 \in 0 .. PoolSize - 1
      <3>1. e + r.capacity <= PoolSize BY DEF e
      <3> HIDE DEF w
      <3> QED BY <1>1, <1>6, <2>1, <3>1
    <2>3. (e + k - 1) - e = k - 1 BY <1>1, <2>1
    <2>4. ramfs_pool'[e + k - 1] =
             IF k - 1 \in off .. off + n - 1 THEN buf[k - 1 - off + 1]
             ELSE IF k - 1 \in z .. off - 1 THEN 0
             ELSE IF k - 1 \in 0 .. z - 1 /\ e # d THEN ramfs_pool[d + (k - 1)]
             ELSE ramfs_pool[e + k - 1]
      BY <1>7, <2>2, <2>3
    <2>5. CASE k \in off + 1 .. off + n
      <3>1. k - 1 \in off .. off + n - 1 /\ k - 1 - off + 1 = k - off /\ k - off \in 1 .. n
        BY <2>1, <2>5
      <3>2. ramfs_pool'[e + k - 1] = buf[k - off] BY <2>4, <3>1
      <3> QED BY <1>5, <2>5, <3>1, <3>2
    <2>6. CASE k \notin off + 1 .. off + n /\ k > z
      <3>1. k - 1 \notin off .. off + n - 1 /\ k - 1 \in z .. off - 1
        BY <1>1, <2>1, <2>6
      <3> QED BY <2>4, <2>6, <3>1, <1>1, <2>1
    <2>7. CASE k \notin off + 1 .. off + n /\ k <= z
      <3>1. k - 1 \notin off .. off + n - 1 /\ k - 1 \notin z .. off - 1 /\ k - 1 \in 0 .. z - 1
        BY <1>1, <2>1, <2>7
      <3>2. c[k] = ramfs_pool[d + k - 1] BY <1>1, <1>2, <2>1, <2>7
      <3>3. d + (k - 1) = d + k - 1 /\ (e = d => e + k - 1 = d + k - 1) BY <1>1, <2>1
      <3>4. ramfs_pool'[e + k - 1] = ramfs_pool[d + k - 1] BY <2>4, <3>1, <3>3
      <3> QED BY <2>7, <3>2, <3>4
    <2> QED BY <1>1, <2>1, <2>5, <2>6, <2>7
  <1>10. Bytes(s)' = [k \in 1 .. w |-> ramfs_pool'[e + k - 1]]
    <2> HIDE DEF w
    <2> QED BY <1>1, <1>4, <1>6
  <1>11. Bytes(s)' = FS!Overwrite(c, off, b)
    <2> HIDE DEF w
    <2> QED BY <1>8, <1>9, <1>10
  <1> QED BY <1>11 DEF c, b

LEMMA SubSeqIs ==
    ASSUME NEW c \in Seq(Nat), NEW m \in Int, NEW n \in Int
    PROVE  SubSeq(c, m, n) = [i \in 1 .. (1 + n - m) |-> c[i + m - 1]]
  OBVIOUS

\* What read returns.
LEMMA BytesRead ==
    ASSUME RamInv, NEW s \in Slots, NEW o \in Nat, NEW count \in Nat, NEW n,
           n = LET rest == ramfs_inodes[s].size - o
               IN  IF rest <= 0 THEN 0 ELSE IF count < rest THEN count ELSE rest
    PROVE  LET c == Bytes(s)
           IN  /\ Content(s, o, o + n) =
                     SubSeq(c, o + 1, IF o + count < Len(c) THEN o + count ELSE Len(c))
               /\ Len(Content(s, o, o + n)) = n /\ n \in Nat
  <1> DEFINE d == ramfs_inodes[s].data
             z == ramfs_inodes[s].size
             c == Bytes(s)
             m == IF o + count < z THEN o + count ELSE z
  <1>1. z \in Nat /\ d \in Int BY DEF RamInv, RamType, InodeType
  <1>2. c = [k \in 1 .. z |-> ramfs_pool[d + k - 1]] /\ Len(c) = z /\ c \in Seq(Nat) BY BytesIs
  <1>3. Content(s, o, o + n) = [k \in 1 .. (o + n) - o |-> ramfs_pool[d + o + k - 1]]
    BY DEF Content
  <1> HIDE DEF d, c
  <1>4. n \in Nat /\ m \in Nat
        /\ (z <= o => n = 0 /\ m <= o) /\ (z > o => m = o + n /\ m <= z)
    <2>1. n = IF z - o <= 0 THEN 0 ELSE IF count < z - o THEN count ELSE z - o OBVIOUS
    <2> HIDE DEF z
    <2> QED BY <1>1, <2>1
  <1> HIDE DEF z, m
  <1>5. Content(s, o, o + n) = [k \in 1 .. n |-> ramfs_pool[d + o + k - 1]]
    <2>1. (o + n) - o = n BY <1>4
    <2> QED BY <1>3, <2>1
  <1>6. SubSeq(c, o + 1, m) = [k \in 1 .. (1 + m - (o + 1)) |-> c[k + (o + 1) - 1]]
    <2>1. o + 1 \in Int /\ m \in Int /\ c \in Seq(Nat) BY <1>2, <1>4
    <2> QED BY ONLY <2>1, SubSeqIs
  <1>7. CASE z <= o
    <2>1. n = 0 /\ m < o + 1 BY <1>4, <1>7
    <2>2. Content(s, o, o + n) = << >>
      <3> DEFINE p(k) == ramfs_pool[d + o + k - 1]
      <3>1. Content(s, o, o + n) = [k \in 1 .. 0 |-> p(k)] BY <1>5, <2>1
      <3> HIDE DEF p
      <3> QED BY <3>1
    <2>3. SubSeq(c, o + 1, m) = << >> BY <1>2, <1>4, <2>1
    <2> QED BY <1>2, <1>4, <2>1, <2>2, <2>3 DEF m, c, z
  <1>8. CASE z > o
    <2>1. 1 + m - (o + 1) = n BY <1>4, <1>8
    <2>2. ASSUME NEW k \in 1 .. n PROVE c[k + (o + 1) - 1] = ramfs_pool[d + o + k - 1]
      <3>1. k + (o + 1) - 1 \in 1 .. z BY <1>1, <1>4, <1>8
      <3>2. d + (k + (o + 1) - 1) - 1 = d + o + k - 1 BY <1>1, <1>4
      <3> QED BY <1>2, <3>1, <3>2
    <2>3. SubSeq(c, o + 1, m) = Content(s, o, o + n) BY <1>5, <1>6, <2>1, <2>2
    <2>4. Len(Content(s, o, o + n)) = n BY <1>4, <1>5
    <2> QED BY <1>2, <1>4, <2>3, <2>4 DEF m, c, z
  <1> QED BY <1>1, <1>7, <1>8

-----------------------------------------------------------------------------
(* Every effect is a step of the file store.                                 *)

\* Without a call rmdir("/").  After one, open("/") would hand out a descriptor for
\* the number 0, which is the mark of a closed one.
RootStays == ramfs_inodes[0].type = "dir"

LEMMA OpenedConnects ==
    ASSUME NEW i, Opened(i)
    PROVE  \E f \in Fds : FS!Connect(f, i)
  <1>1. PICK f \in Fds, acc \in 0 .. 3, append \in BOOLEAN :
          /\ ramfs_file_descriptors[f].ino = 0 /\ ret' = f + FileBase
          /\ ramfs_file_descriptors' = [ramfs_file_descriptors EXCEPT
                ![f] = [ino |-> i, offset |-> 0, acc |-> acc, append |-> append]]
    BY DEF Opened
  <1>2. ret' = FileBase + f BY <1>1, TablesAreNat, TableAssumption
  <1>3. FS!Connect(f, i) BY <1>1, <1>2, Zenon DEF FS!Connect
  <1> QED BY <1>3

LEMMA FileNumbersAre ==
    ASSUME RamInv
    PROVE  /\ DOMAIN Contents = FileNumbers
           /\ \A i \in FileNumbers : i \in Nat \ {0} /\ i < ramfs_next_inode
  <1>1. DOMAIN Contents = FileNumbers BY Zenon DEF Contents
  <1>2. ASSUME NEW s \in Files
        PROVE  ramfs_inodes[s].ino \in Nat \ {0} /\ ramfs_inodes[s].ino < ramfs_next_inode
    BY DEF RamInv, RamType, InodeType, NumbersOld, Files, Used
  <1>3. \A i \in FileNumbers : \E s \in Files : ramfs_inodes[s].ino = i
    BY Zenon DEF FileNumbers
  <1> QED BY <1>1, <1>2, <1>3

LEMMA MakesStep ==
    ASSUME RamInv, RamInv', NEW p, NEW type \in {"file", "dir"}, Makes(p, type)
    PROVE  FS!Next
  <1>0. RamType BY DEF RamInv
  <1> DEFINE u == FindFreeInode
             r == NewInode(p, type)
             i == ramfs_next_inode
  <1>1. u \in Slots /\ ramfs_inodes[u].ino = 0 BY FindFreeInodeIs DEF Makes, CanCreate
  <1>2. r.ino = i /\ r.type = type /\ r.size = 0 BY NewInodeIs, RecFields
  <1>3. ramfs_inodes' = [ramfs_inodes EXCEPT ![u] = r] /\ ramfs_pool' = ramfs_pool
        /\ i <= MaxIno
    BY DEF Makes, Create
  <1>4. i \in Nat \ {0} BY <1>0 DEF RamType
  <1>5. i \in 1 .. MaxIno BY <1>3, <1>4, TableAssumption
  <1>6. i \notin FileNumbers /\ \A f \in Fds : ramfs_file_descriptors[f].ino # i
    <2>1. \A f \in Fds : ramfs_file_descriptors[f].ino < i BY DEF RamInv, NumbersOld
    <2>2. \A j \in FileNumbers : j < i BY FileNumbersAre
    <2> HIDE DEF i
    <2> QED BY <1>4, <2>1, <2>2
  <1> HIDE DEF u, r
  <1>7. Put(u, r) BY <1>0, <1>1, <1>3, PutIs
  <1>8. CASE type = "file"
    <2>1. Contents' = [j \in FileNumbers \cup {i} |-> IF j = i THEN << >> ELSE Contents[j]]
      <3>1. i # 0 BY <1>4
      <3> HIDE DEF i
      <3>2. ramfs_pool' = ramfs_pool /\ r.type = "file" BY <1>2, <1>3, <1>8
      <3>3. i \notin FileNumbers BY <1>6
      <3> DEFINE new == [j \in FileNumbers \cup {i} |-> IF j = i THEN << >> ELSE Contents[j]]
      <3>4. new = [j \in FileNumbers \cup {i} |-> IF j = i THEN << >> ELSE Contents[j]]
        OBVIOUS
      <3> HIDE DEF new
      <3>5. Contents' = new
        BY <1>1, <1>2, <1>7, <3>1, <3>2, <3>3, <3>4, ContentsOfNew
      <3> QED BY <3>5 DEF new
    <2>2. FS!MakeFile(i)
      BY <1>6, <2>1, FileNumbersAre DEF FS!MakeFile
    <2>3. (\E f \in Fds : FS!Connect(f, i)) \/ (ret' < 0 /\ UNCHANGED ramfs_file_descriptors)
      BY <1>8, OpenedConnects DEF Makes
    <2>4. FS!Create(i) BY <2>2, <2>3, Zenon DEF FS!Create
    <2> QED BY <1>5, <2>4 DEF FS!Next
  <1>9. CASE type = "dir"
    <2>1. u \notin Files BY <1>1 DEF Files, Used
    <2>2. Contents' = Contents
      BY <1>1, <1>2, <1>3, <1>7, <1>9, <2>1, ContentsOfOthers
    <2>3. UNCHANGED ramfs_file_descriptors /\ ret' = 0 BY <1>9 DEF Makes
    <2>4. FS!Other BY <2>2, <2>3 DEF FS!Other
    <2> QED BY <2>4 DEF FS!Next
  <1> QED BY <1>8, <1>9

LEMMA OpensStep ==
    ASSUME RamInv, RamInv', RootStays, NEW u \in Slots, ramfs_inodes[u].ino # 0, Opens(u)
    PROVE  FS!Next
  <1>0. RamType BY DEF RamInv
  <1> DEFINE x == ramfs_inodes[u]
             i == x.ino
  <1>1. u \in Files BY DEF Opens, Files, Used
  <1>2. ContentsAre BY ContentsByTable
  <1>3. i \in FileNumbers BY <1>1, <1>2, Zenon DEF ContentsAre
  <1>4. PICK f \in Fds : FS!Connect(f, i) BY OpenedConnects DEF Opens
  <1>5. ramfs_pool' = ramfs_pool BY DEF Opens
  <1>6. CASE UNCHANGED ramfs_inodes
    <2>1. Contents' = Contents BY <1>6, ContentsKept DEF Opens, fsVars
    <2>2. FS!Open(f, i) BY <1>4, <2>1 DEF FS!Open
    <2> QED BY <1>3, <2>2, FileNumbersAre DEF FS!Next
  <1>7. CASE ramfs_inodes' = [ramfs_inodes EXCEPT ![u].size = 0]
    <2> DEFINE y == InodeRec(x.ino, x.type, x.name, 0, x.parent, x.data, x.capacity)
    <2>1. Put(u, y) BY <1>0, <1>7, PutSize
    <2>2. y.ino = x.ino /\ y.type = x.type /\ y.size = 0 BY RecFields
    <2> HIDE DEF y
    <2>3. x.type = "file" BY DEF Opens
    <2>4. Bytes(u)' = << >>
      <3>1. ramfs_inodes'[u].size = 0 BY <2>1, <2>2 DEF Put
      <3> QED BY <3>1, NoBytes
    <2>5. \A s \in Files : s # u => Bytes(s)' = Bytes(s)
      <3>1. \A s \in Files : s # u => ramfs_inodes'[s] = ramfs_inodes[s]
        BY <2>1 DEF Put, Files, Used
      <3> QED BY <1>5, <3>1, SameBytes
    <2>6. Contents' = [Contents EXCEPT ![i] = Bytes(u)']
      BY <1>1, <2>1, <2>2, <2>3, <2>5, ContentsOfChanged
    <2>7. Contents' = [Contents EXCEPT ![i] = << >>] BY <2>4, <2>6
    <2>8. FS!SetContent(i, << >>) BY <2>7, Zenon DEF FS!SetContent
    <2>9. FS!Open(f, i) BY <1>4, <2>8 DEF FS!Open
    <2> QED BY <1>3, <2>9, FileNumbersAre DEF FS!Next
  <1> QED BY <1>6, <1>7 DEF Opens

LEMMA FreesStep ==
    ASSUME RamInv, RamInv', NEW u \in Slots, Frees(u)
    PROVE  FS!Next
  <1>0. RamType BY DEF RamInv
  <1>1. Put(u, FreeInode) BY <1>0, PutIs DEF Frees
  <1>2. /\ ramfs_pool' = ramfs_pool /\ ret' = 0
        /\ ramfs_file_descriptors' = ramfs_file_descriptors
    BY DEF Frees
  <1>3. CASE u \in Files
    <2> DEFINE i == ramfs_inodes[u].ino
    <2>1. ContentsAre BY ContentsByTable
    <2>2. i \in FileNumbers BY <1>3, <2>1, Zenon DEF ContentsAre
    <2>3. Contents' = [j \in FileNumbers \ {i} |-> Contents[j]]
      BY <1>1, <1>2, <1>3, ContentsOfRemoved
    <2> HIDE DEF i
    <2>4. FS!Remove(i) BY <1>2, <2>3, FileNumbersAre DEF FS!Remove
    <2> QED BY <2>2, <2>4, FileNumbersAre DEF FS!Next
  <1>4. CASE u \notin Files
    <2>1. Contents' = Contents BY <1>1, <1>2, <1>4, FreeInodeIs, ContentsOfOthers
    <2>2. FS!Other BY <1>2, <2>1 DEF FS!Other
    <2> QED BY <2>2 DEF FS!Next
  <1> QED BY <1>3, <1>4


LEMMA ClosesStep ==
    ASSUME NEW f \in Fds, Closes(f)
    PROVE  FS!Next
  <1>1. Contents' = Contents BY ContentsKept DEF Closes
  <1>2. FS!Close(f) BY <1>1 DEF Closes, FS!Close, FreeFd, RDONLY, FS!RDONLY
  <1> QED BY <1>2 DEF FS!Next

\* A descriptor whose number is in the table means that file.
LEMMA OpenIs ==
    ASSUME RamInv, FdFiles, NEW f \in Fds, ramfs_file_descriptors[f].ino # 0,
           InodeOfFd(f) # None
    PROVE  /\ InodeOfFd(f) \in Files /\ FS!IsOpen(f)
           /\ ramfs_inodes[InodeOfFd(f)].ino = ramfs_file_descriptors[f].ino
           /\ Contents[ramfs_file_descriptors[f].ino] = Bytes(InodeOfFd(f))
  <1> DEFINE s == InodeOfFd(f)
             i == ramfs_file_descriptors[f].ino
  <1>1. s \in Slots /\ ramfs_inodes[s].ino = i BY InodeOfFdIs
  <1>2. s \in Files BY <1>1 DEF FdFiles, Files, Used
  <1>3. ContentsAre BY ContentsByTable
  <1>4. i \in FileNumbers /\ Contents[i] = Bytes(s)
    <2> HIDE DEF i, s
    <2> QED BY <1>1, <1>2, <1>3, Zenon DEF ContentsAre
  <1>5. FS!IsOpen(f) BY <1>4, FileNumbersAre DEF FS!IsOpen
  <1> QED BY <1>1, <1>2, <1>4, <1>5

LEMMA SoughtStep ==
    ASSUME RamInv, FdFiles, NEW f \in Fds, NEW pos \in Nat, Moves(f, pos), Sought(f, pos)
    PROVE  FS!Next
  <1>1. Contents' = Contents BY ContentsKept DEF Moves
  <1>2. FS!IsOpen(f) BY OpenIs DEF Moves, Sought
  <1>3. FS!Seek(f, pos) BY <1>1, <1>2 DEF FS!Seek, Moves, Sought
  <1>4. pos \in 0 .. MaxFileSize BY DEF Sought
  <1> QED BY <1>3, <1>4 DEF FS!Next

LEMMA TookStep ==
    ASSUME RamInv, FdFiles, NEW f \in Fds, NEW pos \in Nat, NEW count \in ReadCounts,
           Moves(f, pos), Took(f, count, pos)
    PROVE  FS!Next
  <1> DEFINE s == InodeOfFd(f)
             i == ramfs_file_descriptors[f].ino
             o == ramfs_file_descriptors[f].offset
             n == ReadCount(f, count)
             c == Contents[i]
  <1>1. Contents' = Contents BY ContentsKept DEF Moves
  <1>2. i # 0 /\ s # None BY DEF Moves, Took, Usable
  <1>3. s \in Files /\ FS!IsOpen(f) /\ c = Bytes(s) BY <1>2, OpenIs
  <1>4. s \in Slots /\ count \in Nat /\ o \in Nat
    <2>1. o \in Nat BY DEF RamInv, RamType, FdType
    <2> QED BY <1>3, <2>1, ArgumentsAre DEF Files, Used
  <1>5. n = LET rest == ramfs_inodes[s].size - o
            IN  IF rest <= 0 THEN 0 ELSE IF count < rest THEN count ELSE rest
    BY DEF ReadCount
  <1>6. /\ pos = o + n /\ ret' = n /\ out' = Content(s, o, pos)
        /\ ramfs_file_descriptors[f].acc # WRONLY
        /\ ramfs_file_descriptors' = [ramfs_file_descriptors EXCEPT ![f].offset = pos]
    BY DEF Took, Moves
  <1> HIDE DEF s, o, n
  <1>7. /\ Content(s, o, o + n) =
              SubSeq(Bytes(s), o + 1,
                     IF o + count < Len(Bytes(s)) THEN o + count ELSE Len(Bytes(s)))
        /\ Len(Content(s, o, o + n)) = n
    BY <1>4, <1>5, BytesRead
  <1> HIDE DEF c
  <1>8. /\ out' = SubSeq(c, o + 1, IF o + count < Len(c) THEN o + count ELSE Len(c))
        /\ Len(out') = n
    BY <1>3, <1>6, <1>7
  <1>9. FS!Read(f, count)
    <2>1. ret' = Len(out') BY <1>6, <1>8
    <2>2. ramfs_file_descriptors' = [ramfs_file_descriptors EXCEPT ![f].offset = o + Len(out')]
      BY <1>6, <1>8
    <2>3. ramfs_file_descriptors[f].acc # FS!WRONLY BY <1>6 DEF WRONLY, FS!WRONLY
    <2> QED BY <1>1, <1>3, <1>8, <2>1, <2>2, <2>3, Zenon DEF FS!Read, c, o
  <1> QED BY <1>9 DEF FS!Next

\* Where the store begins to write.
LEMMA PositionIs ==
    ASSUME RamInv, FdFiles, NEW f \in Fds, ramfs_file_descriptors[f].ino # 0,
           InodeOfFd(f) # None
    PROVE  FS!Position(f) = WritePos(f) /\ WritePos(f) \in Nat
  <1>1. /\ InodeOfFd(f) \in Slots
        /\ Contents[ramfs_file_descriptors[f].ino] = Bytes(InodeOfFd(f))
    BY OpenIs DEF Files, Used
  <1>2. /\ Len(Bytes(InodeOfFd(f))) = ramfs_inodes[InodeOfFd(f)].size
        /\ ramfs_inodes[InodeOfFd(f)].size \in Nat
    BY <1>1, BytesIs
  <1>3. ramfs_file_descriptors[f].offset \in Nat BY DEF RamInv, RamType, FdType
  <1> QED BY <1>1, <1>2, <1>3 DEF FS!Position, WritePos

LEMMA StoredNoneStep ==
    ASSUME RamInv, FdFiles, NEW f \in Fds, NEW pos \in Nat, Bufs # {},
           Moves(f, pos), StoredNone(f, pos)
    PROVE  FS!Next
  <1>1. Contents' = Contents BY ContentsKept DEF Moves
  <1>2. ramfs_file_descriptors[f].ino # 0 /\ InodeOfFd(f) # None BY DEF Moves, StoredNone, Usable
  <1>3. FS!IsOpen(f) BY <1>2, OpenIs
  <1>4. FS!Position(f) = pos BY <1>2, PositionIs DEF StoredNone
  <1>5. PICK b : b \in Bufs OBVIOUS
  <1>6. 0 \in 0 .. Len(b) BY <1>5, ArgumentsAre
  <1>7. ret' <= 0 BY DEF StoredNone, ENOSPC
  <1>8. /\ ramfs_file_descriptors[f].acc # FS!RDONLY
        /\ ramfs_file_descriptors' = [ramfs_file_descriptors EXCEPT ![f].offset = pos]
    BY DEF StoredNone, Moves, RDONLY, FS!RDONLY
  <1>9. pos = pos + 0 OBVIOUS
  <1>10. FS!Write(f, b, 0) BY <1>1, <1>3, <1>4, <1>7, <1>8, <1>9, Zenon DEF FS!Write
  <1> QED BY <1>5, <1>6, <1>10 DEF FS!Next


LEMMA WritesStep ==
    ASSUME RamInv, RamInv', FdFiles, NEW f \in Fds, NEW s \in Slots, NEW off \in Nat,
           NEW buf \in Bufs, Writes(f, s, off, buf)
    PROVE  FS!Next
  <1>0. RamType /\ BlocksApart /\ buf \in Seq(Nat) BY ArgumentsAre DEF RamInv
  <1> DEFINE n == Stored(s, off, buf)
             needed == off + Want(off, buf)
             r == Reserve(s, needed)
             x == ramfs_inodes[s]
             z == IF off + n > x.size THEN off + n ELSE x.size
             y == InodeRec(x.ino, x.type, x.name, z, x.parent, r.data, r.capacity)
             i == ramfs_file_descriptors[f].ino
  <1>1. /\ i # 0 /\ ramfs_file_descriptors[f].acc # RDONLY
        /\ s = InodeOfFd(f) /\ off = WritePos(f) /\ x.ino = i /\ x.type = "file"
        /\ ret' = n /\ ramfs_pool' = StoredPool(s, r, off, buf, n)
        /\ ramfs_file_descriptors' = [ramfs_file_descriptors EXCEPT ![f].offset = off + n]
        /\ off < MaxFileSize /\ Len(buf) # 0 /\ n > 0
    BY DEF Writes
  <1>2. /\ s \in Files /\ n \in Nat /\ n <= Len(buf) /\ off + n <= r.capacity /\ Put(s, y)
    BY <1>0, WritesIs
  <1>3. needed \in Nat /\ 0 < needed /\ needed <= MaxFileSize
    BY <1>0, <1>1, <1>2, StoredIs
  <1>4. y.ino = i /\ y.type = "file" /\ y.data = r.data /\ y.size = z BY <1>1, RecFields
  <1>5. /\ r.data \in Int /\ r.capacity \in Nat /\ r.used \in Nat /\ r.used <= PoolSize
        /\ (r.data = Null <=> r.capacity = 0) /\ (r.data # Null => r.data >= 0)
        /\ x.capacity <= r.capacity
        /\ r.capacity > 0 => r.data + r.capacity <= r.used
        /\ \A t \in Slots : t # s /\ ramfs_inodes[t].capacity > 0 /\ r.capacity > 0 =>
                 BlockEnd(t) <= r.data \/ r.data + r.capacity <= ramfs_inodes[t].data
    <2> HIDE DEF needed
    <2> QED BY <1>0, <1>2, <1>3, ReserveIs
  <1>6. x.size \in Nat /\ x.capacity \in Nat /\ x.size <= x.capacity /\ PoolSize \in Nat
    BY <1>0, PoolAssumption DEF RamType, InodeType, BlocksApart
  <1> HIDE DEF needed, n, r, y
  <1>7. /\ r.capacity > 0 /\ r.data \in Nat /\ x.size <= r.capacity
        /\ r.data + r.capacity <= PoolSize
    <2> HIDE DEF x
    <2> QED BY <1>1, <1>2, <1>5, <1>6
  <1>8. Bytes(s)' = FS!Overwrite(Bytes(s), off, SubSeq(buf, 1, n))
    BY <1>0, <1>1, <1>2, <1>4, <1>5, <1>7, OwnBytes
  <1>9. ASSUME NEW t \in Files, t # s PROVE Bytes(t)' = Bytes(t)
    <2>1. t \in Slots BY DEF Files, Used
    <2>2. ramfs_inodes[t].capacity > 0 =>
             BlockEnd(t) <= r.data \/ r.data + r.capacity <= ramfs_inodes[t].data
      BY <1>5, <1>7, <1>9, <2>1
    <2> QED BY <1>1, <1>2, <1>5, <1>7, <1>9, <2>1, <2>2, OtherBytes
  <1>10. Contents' = [Contents EXCEPT ![i] = Bytes(s)']
    BY <1>1, <1>2, <1>4, <1>9, ContentsOfChanged
  <1>11. s # None BY TablesAreNat DEF None
  <1>12. /\ FS!IsOpen(f) /\ Contents[i] = Bytes(s) /\ FS!Position(f) = off
    BY <1>1, <1>11, OpenIs, PositionIs
  <1>13. FS!SetContent(i, FS!Overwrite(Contents[i], off, SubSeq(buf, 1, n)))
    BY <1>8, <1>10, <1>12 DEF FS!SetContent
  <1>14. n \in 0 .. Len(buf) /\ n # 0 BY <1>0, <1>1, <1>2
  <1>15. ramfs_file_descriptors[f].acc # FS!RDONLY BY <1>1 DEF RDONLY, FS!RDONLY
  <1>16. FS!Write(f, buf, n)
    BY <1>1, <1>12, <1>13, <1>14, <1>15, Zenon DEF FS!Write, i
  <1> QED BY <1>14, <1>16 DEF FS!Next

LEMMA EffectStep ==
    ASSUME RamInv, RamInv', FdFiles, RootStays, Effect(ReadCounts, Bufs)
    PROVE  FS!Next
  <1>1. CASE Quiet /\ (ret' > 0 => out' = << >>)
    <2>1. Contents' = Contents BY <1>1, ContentsKept DEF Quiet
    <2>2. FS!Other BY <1>1, <2>1 DEF FS!Other, Quiet
    <2> QED BY <2>2 DEF FS!Next
  <1>2. ASSUME NEW f \in Fds, NEW pos \in Nat, Moves(f, pos),
               \/ Sought(f, pos)
               \/ \E n \in ReadCounts : Took(f, n, pos)
               \/ Bufs # {} /\ StoredNone(f, pos)
        PROVE  FS!Next
    BY <1>2, SoughtStep, TookStep, StoredNoneStep
  <1>3. ASSUME NEW u \in Slots, Opens(u) PROVE FS!Next
    <2>1. ramfs_inodes[u].ino # 0 BY <1>3 DEF Opens, RootStays
    <2> QED BY <1>3, <2>1, OpensStep
  <1> QED BY <1>1, <1>2, <1>3, MakesStep, FreesStep, ClosesStep, WritesStep DEF Effect

LEMMA InitRefines == Init => FS!Init /\ FdFiles
  <1> SUFFICES ASSUME Init PROVE FS!Init /\ FdFiles OBVIOUS
  <1>1. RamInv BY RamInit
  <1>2. \A f \in Fds : ramfs_file_descriptors[f].ino = 0 BY DEF Init, FreeFd
  <1>3. FdFiles BY <1>2 DEF FdFiles
  <1>4. FileNumbers = {}
    <2>1. ramfs_next_inode = 1 BY DEF Init
    <2> QED BY <1>1, <2>1, FileNumbersAre
  <1>5. Contents = [i \in {} |-> << >>]
    <2>1. ContentsAre BY <1>1, ContentsByTable
    <2>2. Contents = [i \in FileNumbers |-> Contents[i]] BY <2>1, Zenon DEF ContentsAre
    <2> HIDE DEF Contents, FileNumbers
    <2> QED BY <1>4, <2>2
  <1>6. ramfs_file_descriptors =
           [f \in Fds |-> [ino |-> 0, offset |-> 0, acc |-> FS!RDONLY, append |-> FALSE]]
    BY DEF Init, FreeFd, RDONLY, FS!RDONLY
  <1>7. ret = 0 /\ out = << >> BY DEF Init
  <1> QED BY <1>3, <1>5, <1>6, <1>7 DEF FS!Init

\* The file system of ramfs.c implements the file store, for tables, descriptors
\* and a pool of any size and any sequence of calls that leaves the root directory
\* in place: through growth in place, moves to the end of the pool, truncation,
\* holes, short writes and the reuse of slots, every read returns what the writes
\* to that file left there.
THEOREM Refinement == Spec /\ []RootStays => ImplementsFileStore
  <1>1. RamInv /\ FdFiles /\ [Next]_vars => FdFiles'
    <2> SUFFICES ASSUME RamInv, FdFiles, [Next]_vars PROVE FdFiles' OBVIOUS
    <2>1. CASE Next BY <2>1, ArgumentsAre, NextEffect, FdFilesStep DEF RamInv
    <2>2. CASE UNCHANGED vars BY <2>2 DEF vars, fsVars, FdFiles
    <2> QED BY <2>1, <2>2
  <1>2. RamInv /\ RamInv' /\ FdFiles /\ RootStays /\ [Next]_vars => [FS!Next]_(FS!vars)
    <2> SUFFICES ASSUME RamInv, RamInv', FdFiles, RootStays, [Next]_vars
                 PROVE  [FS!Next]_(FS!vars)
      OBVIOUS
    <2>1. CASE Next
      <3>1. FS!Next BY <2>1, NextEffect, EffectStep DEF RamInv
      <3> QED BY <3>1
    <2>2. CASE UNCHANGED vars
      <3>1. Contents' = Contents BY <2>2, ContentsKept DEF vars
      <3>2. UNCHANGED FS!vars BY <2>2, <3>1 DEF vars, FS!vars
      <3> QED BY <3>2
    <2> QED BY <2>1, <2>2
  <1> QED BY <1>1, <1>2, InitRefines, Always, PTL DEF Spec, ImplementsFileStore, FS!Spec
=============================================================================
