----------------------------- MODULE MCRamfs -----------------------------
(* Instances of Ramfs: one for the tree of names and the descriptors with   *)
(* hardly any contents, one for the contents in a pool of a few bytes.       *)
EXTENDS FileCommands

TreePaths == {<< >>, <<"a">>, <<"b">>, <<"a", "b">>}
TreeFds == {-1, 0, 1, 3, 4, 5}
TreeFlags ==
    {[creat |-> TRUE, excl |-> TRUE, trunc |-> FALSE, append |-> FALSE, acc |-> RDWR],
     [creat |-> TRUE, excl |-> FALSE, trunc |-> TRUE, append |-> FALSE, acc |-> WRONLY]}

TreeBufs == {<<1>>}

DataPaths == {<<"a">>, <<"b">>}
DataFlags ==
    {[creat |-> FALSE, excl |-> FALSE, trunc |-> TRUE, append |-> TRUE, acc |-> WRONLY]}
DataBufs == {<<1, 1>>}
DataTexts == {<< <<1>> >>, << <<1>>, <<1>> >>}

\* What a call depends on.  The answer of the last call is not a part of it.
CallView == <<commandVars, fsVars, ramfs_file_descriptors, ramfs_next_inode>>
=============================================================================
