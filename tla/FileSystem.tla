------------------------------ MODULE FileSystem ------------------------------
(***************************************************************************)
(* What p7's file system promises (p7/README.md, Features): a tree of      *)
(* directories and files in which a name can be created in a directory, a  *)
(* file written at an offset without being truncated, and a file removed.  *)
(***************************************************************************)
EXTENDS Integers, Sequences

CONSTANTS
    Paths,    \* absolute paths: sequences of names, <<>> is the root
    Blocks,   \* what one block of a file may contain
    Offsets,  \* the blocks at which a write may start
    Absent,   \* what is found at a path where nothing is
    Dir,      \* what is found at the path of a directory
    Hole,     \* zeros, in a block below one that was written
    Stale     \* such a block, where an operation that died left something

VARIABLES
    tree,     \* tree[p]: Absent, Dir, or the sequence of blocks of a file
    clean     \* no operation that died left anything on the free disk

IsFile(node) == node \notin {Absent, Dir}

Parent(p) == SubSeq(p, 1, Len(p) - 1)

(* The blocks of a file after block b was written at offset off, with gap  *)
(* between the end of the file and the new block.                          *)
Written(data, off, b, gap) ==
    [k \in 1 .. (IF off >= Len(data) THEN off + 1 ELSE Len(data)) |->
        IF k = off + 1 THEN b ELSE IF k <= Len(data) THEN data[k] ELSE gap[k]]

Init ==
    /\ tree = [p \in Paths |-> IF p = <<>> THEN Dir ELSE Absent]
    /\ clean = TRUE

Create(p, node) ==
    /\ tree[p] = Absent
    /\ tree[Parent(p)] = Dir
    /\ tree' = [tree EXCEPT ![p] = node]

Write(p, off, b) ==
    /\ IsFile(tree[p])
    /\ \E gap \in [1 .. off -> IF clean THEN {Hole} ELSE {Hole, Stale}] :
          tree' = [tree EXCEPT ![p] = Written(@, off, b, gap)]

Remove(p) ==
    /\ IsFile(tree[p])
    /\ tree' = [tree EXCEPT ![p] = Absent]

Operation == \E p \in Paths \ {<<>>} :
    \/ Create(p, Dir) \/ Create(p, <<>>)
    \/ \E off \in Offsets, b \in Blocks : Write(p, off, b)
    \/ Remove(p)

(* Only an operation that dies, and so changes nothing, makes the free     *)
(* disk unclean; it is clean again when the log has grown over it.         *)
Next ==
    \/ Operation /\ (clean => clean')
    \/ UNCHANGED tree

Spec == Init /\ [][Next]_<<tree, clean>>
=============================================================================
