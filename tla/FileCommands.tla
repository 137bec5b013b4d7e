---------------------------- MODULE FileCommands ----------------------------
(***************************************************************************)
(* The file commands of userland/shell.c on the file system: each is a        *)
(* sequence of system calls.  Between commands, programs that the shell runs   *)
(* make any calls, and may leave descriptors open.  ls, mkdir, rmdir and rm     *)
(* are single calls of module Ramfs, and in a command with too few words there  *)
(* are none.  Messages are left out.                                        *)
(***************************************************************************)
EXTENDS Newlib

CONSTANTS
    CatSize,   \* CAT_BUF_SIZE
    Blank,     \* the byte ' '
    Texts      \* arguments of the write command, non-empty sequences of words

VARIABLES
    job,       \* the command under way: [stage, fd, pieces]
    shown,     \* what cat has printed
    before     \* history: [fds, path, text, content] at the start of the command

commandVars == <<job, shown, before>>
allVars == <<vars, newlibVars, commandVars>>

\* The words are those of a line of at most 256 characters, the first capacity
\* of a file.
ASSUME TextAssumption ==
    /\ CatSize \in Nat \ {0} /\ Blank \in Nat
    /\ \A t \in Texts : /\ t \in Seq(Seq(Nat)) /\ t # << >>
                        /\ \A k \in DOMAIN t : t[k] # << >> /\ Len(t[k]) <= FirstCap

Idle == [stage |-> "none", fd |-> -1, pieces |-> << >>]
NoHistory == [fds |-> << >>, path |-> << >>, text |-> << >>, content |-> << >>]

InitCommands == Init /\ InitNewlib /\ job = Idle /\ shown = << >> /\ before = NoHistory

-----------------------------------------------------------------------------
\* Mutant: a blank after the last word as well.
MutantPieces(words) ==
    [k \in 1 .. 2 * Len(words) |-> IF k % 2 = 1 THEN words[(k + 1) \div 2] ELSE <<Blank>>]

\* The loop over argv of cmd_write: the words with a blank after all but the
\* last, one call each.
Pieces(words) ==
    [k \in 1 .. 2 * Len(words) - 1 |-> IF k % 2 = 1 THEN words[(k + 1) \div 2] ELSE <<Blank>>]

ContentOf(s) == IF s = None THEN << >> ELSE Content(s, 0, ramfs_inodes[s].size)

\* Reference for the text: a line of words.
Line(words) ==
    LET text[k \in 0 .. Len(words)] ==
            IF k = 0 THEN << >>
            ELSE IF k = 1 THEN words[1] ELSE text[k - 1] \o <<Blank>> \o words[k]
    IN  text[Len(words)]

\* A command opens its file, and ends when that fails.
Begin(path, creat, stage, words) ==
    /\ job = Idle
    /\ OpenOld(path, creat)
    /\ shown' = << >>
    /\ IF ret' < 0 THEN job' = Idle /\ before' = NoHistory
       ELSE /\ job' = [stage |-> stage, fd |-> ret', pieces |-> Pieces(words)]
            /\ before' = [fds |-> ramfs_file_descriptors, path |-> path,
                          text |-> Line(words), content |-> ContentOf(FindInode(path))]

cmd_cat(path) == Begin(path, FALSE, "malloc", << >>)
cmd_touch(path) == Begin(path, TRUE, "close", << >>)
cmd_write(path, words) == Begin(path, TRUE, "write", words)

\* Mutant: the file stays open.
MutantCatNoMemory ==
    /\ job.stage = "malloc"
    /\ job' = Idle /\ shown' = << >> /\ before' = NoHistory
    /\ UNCHANGED vars

\* malloc fails: the file is closed.
CatNoMemory ==
    /\ job.stage = "malloc"
    /\ job' = [job EXCEPT !.stage = "close"]
    /\ UNCHANGED <<vars, shown, before>>

\* Mutant: reads once.
MutantCatRead ==
    /\ job.stage \in {"malloc", "read"}
    /\ sys_read(job.fd, CatSize)
    /\ job' = [job EXCEPT !.stage = "catclose"]
    /\ shown' = shown \o out'
    /\ UNCHANGED before

\* One turn of the loop of cmd_cat.
CatRead ==
    /\ job.stage \in {"malloc", "read"}
    /\ sys_read(job.fd, CatSize)
    /\ job' = [job EXCEPT !.stage = IF ret' > 0 THEN "read" ELSE "catclose"]
    /\ shown' = shown \o out'
    /\ UNCHANGED before

\* One call of write; its answer is not looked at.
WritePiece ==
    /\ job.stage = "write"
    /\ sys_write(job.fd, Head(job.pieces))
    /\ job' = [job EXCEPT !.pieces = Tail(@),
                          !.stage = IF Len(job.pieces) = 1 THEN "close" ELSE "write"]
    /\ UNCHANGED <<shown, before>>

CommandClose ==
    /\ job.stage \in {"close", "catclose"}
    /\ sys_close(job.fd)
    /\ job' = Idle /\ shown' = << >> /\ before' = NoHistory

\* A call of a program, or of a command that is one call.
OtherCall ==
    /\ job = Idle
    /\ \/ NextNewlib
       \/ RawCall /\ \E p \in Paths, creat \in BOOLEAN : OpenOld(p, creat)
    /\ UNCHANGED commandVars

NextCommands ==
    \/ /\ \/ \E p \in Paths :
                \/ cmd_cat(p) \/ cmd_touch(p)
                \/ \E t \in Texts : cmd_write(p, t)
          \/ CatNoMemory \/ CatRead \/ WritePiece \/ CommandClose
       /\ RawCall
    \/ OtherCall

SpecCommands == InitCommands /\ [][NextCommands]_allVars

-----------------------------------------------------------------------------
\* A command leaves the descriptors as it found them, on every way out, also
\* when the table was nearly full of those that programs left open.
CommandClosesFile ==
    [][job # Idle /\ job' = Idle => ramfs_file_descriptors' = before.fds]_allVars

\* cat prints the whole file, whatever its size and that of the buffer.
CatShowsFile == job.stage = "catclose" => shown = before.content

\* write puts its text over the beginning of the file and keeps what is behind
\* it: all of the text, or a prefix of it when the pool or the largest size is
\* reached.  Though the answers of the single writes are not looked at, nothing
\* after a piece that did not fit is stored.
WriteStoresPrefix ==
    job.stage = "close" /\ before.text # << >> =>
       LET now == ContentOf(FindInode(before.path))
           n == ramfs_file_descriptors[job.fd - FileBase].offset
       IN  /\ n <= Len(before.text)
           /\ now = SubSeq(before.text, 1, n) \o SubSeq(before.content, n + 1, Len(before.content))
           /\ n < Len(before.text) =>
                 n = MaxFileSize \/ ~Reserve(FindInode(before.path), n + 1).ok
=============================================================================
