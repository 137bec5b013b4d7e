------------------------------ MODULE FileStore ------------------------------
(***************************************************************************)
(* What the file calls promise, without names and storage: files are        *)
(* sequences of bytes with numbers that are not used again, descriptors have *)
(* a position.  Any call may fail; a write may store a part of its buffer.    *)
(***************************************************************************)
EXTENDS Integers, Sequences

CONSTANTS Fds, FileBase, Bufs, ReadCounts, MaxFileSize, MaxIno

VARIABLES
    files,   \* function from the numbers of the files to their contents
    fds,     \* function from descriptors to [ino, offset, acc, append], ino 0 when closed
    ret, out

RDONLY == 0
WRONLY == 1
vars == <<files, fds, ret, out>>

Init ==
    /\ files = [i \in {} |-> << >>]
    /\ fds = [f \in Fds |-> [ino |-> 0, offset |-> 0, acc |-> RDONLY, append |-> FALSE]]
    /\ ret = 0 /\ out = << >>

IsOpen(f) == fds[f].ino \in DOMAIN files

\* c with the bytes b from position off on, zeroes in between.
Overwrite(c, off, b) ==
    [k \in 1 .. (IF Len(c) > off + Len(b) THEN Len(c) ELSE off + Len(b)) |->
        IF k \in off + 1 .. off + Len(b) THEN b[k - off]
        ELSE IF k <= Len(c) THEN c[k] ELSE 0]

SetContent(i, c) == files' = [files EXCEPT ![i] = c]

\* A new, empty file, with a number no descriptor has.
MakeFile(i) ==
    /\ i \notin DOMAIN files /\ \A f \in Fds : fds[f].ino # i
    /\ files' = [j \in DOMAIN files \cup {i} |-> IF j = i THEN << >> ELSE files[j]]

\* Descriptor f, FileBase + f for its users, which was closed, is opened at
\* position 0.
Connect(f, i) ==
    /\ fds[f].ino = 0 /\ ret' = FileBase + f
    /\ \E acc \in 0 .. 3, append \in BOOLEAN :
          fds' = [fds EXCEPT ![f] = [ino |-> i, offset |-> 0, acc |-> acc, append |-> append]]

Create(i) ==
    /\ MakeFile(i)
    /\ (\E f \in Fds : Connect(f, i)) \/ (ret' < 0 /\ UNCHANGED fds)

Open(f, i) ==
    /\ Connect(f, i)
    /\ UNCHANGED files \/ SetContent(i, << >>)

Remove(i) ==
    /\ files' = [j \in DOMAIN files \ {i} |-> files[j]]
    /\ ret' = 0 /\ UNCHANGED fds

Close(f) ==
    /\ fds[f].ino # 0
    /\ fds' = [fds EXCEPT ![f] = [ino |-> 0, offset |-> 0, acc |-> RDONLY, append |-> FALSE]]
    /\ ret' = 0 /\ UNCHANGED files

Seek(f, pos) ==
    /\ ret' = pos /\ out' = << >>
    /\ fds' = [fds EXCEPT ![f].offset = pos]
    /\ IsOpen(f) /\ UNCHANGED files

\* What is left of the file after the position, at most n bytes.
Read(f, n) ==
    LET c == files[fds[f].ino]
        o == fds[f].offset
    IN  /\ IsOpen(f) /\ fds[f].acc # WRONLY
        /\ out' = SubSeq(c, o + 1, IF o + n < Len(c) THEN o + n ELSE Len(c))
        /\ ret' = Len(out')
        /\ fds' = [fds EXCEPT ![f].offset = o + Len(out')]
        /\ UNCHANGED files

Position(f) == IF fds[f].append THEN Len(files[fds[f].ino]) ELSE fds[f].offset

\* The first n bytes of b, none when it fails.
Write(f, b, n) ==
    LET o == Position(f)
    IN  /\ IsOpen(f) /\ fds[f].acc # RDONLY
        /\ IF n = 0 THEN ret' <= 0 /\ UNCHANGED files
           ELSE ret' = n /\ SetContent(fds[f].ino, Overwrite(files[fds[f].ino], o, SubSeq(b, 1, n)))
        /\ fds' = [fds EXCEPT ![f].offset = o + n]

\* A call on names or attributes, or one that fails: bytes of files come from
\* Read only.
Other == UNCHANGED fds /\ UNCHANGED files /\ (ret' > 0 => out' = << >>)

Next ==
    \/ Other
    \/ \E f \in Fds :
          \/ Close(f)
          \/ \E pos \in 0 .. MaxFileSize : Seek(f, pos)
          \/ \E n \in ReadCounts : Read(f, n)
          \/ \E b \in Bufs : \E n \in 0 .. Len(b) : Write(f, b, n)
    \/ \E i \in 1 .. MaxIno : Create(i)
    \/ \E i \in DOMAIN files : Remove(i) \/ \E f \in Fds : Open(f, i)

Spec == Init /\ [][Next]_vars
=============================================================================
