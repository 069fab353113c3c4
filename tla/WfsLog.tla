-------------------------------- MODULE WfsLog --------------------------------
(***************************************************************************)
(* p7/mount.wfs.c: a log-structured file system.  The disk is one log of   *)
(* entries; the latest entry of an inode number that is not marked deleted *)
(* is the inode.  The log is mapped with MAP_SHARED, so what the program   *)
(* wrote before it died is what the next mount finds.                      *)
(*                                                                         *)
(* FUSE runs single-threaded (-s).  The kernel looks a path up (my_getattr) *)
(* before it asks for an operation on it: it creates only where nothing is *)
(* found, in a directory, and writes and removes only what it finds to be  *)
(* a file.                                                                 *)
(***************************************************************************)
EXTENDS Integers, Sequences, FiniteSets, SequencesExt

CONSTANTS
    Names,      \* names of files and directories
    LongNames,  \* those of 32 characters
    MaxDepth,   \* bound: the length of the longest path
    Blocks,     \* what one block of a file may contain
    Offsets,    \* the blocks at which a write may start
    DiskSize,   \* size of the disk: an inode, a dentry and a block take 1 each
    Workload,   \* the operations the users and the machine perform
    Absent, Dir \* what a user finds where nothing is, or a directory

AllOperations == {"mknod", "mkdir", "write", "unlink", "readdir", "crash"}

VARIABLES
    log,        \* the entries below sb->head
    stale,      \* the units past it that an operation wrote and died
    proc,       \* "running", "creating": between the two appends of a
                \* my_mknod, or "dead"
    creating,   \* the inode my_mknod has still to append
    ret,        \* what the last operation returned
    fault       \* what killed the program

vars == <<log, stale, proc, creating, ret, fault>>

Paths == UNION { [1 .. n -> Names] : n \in 0 .. MaxDepth }

(* What a user reads where nothing was written: the disk is zeroed before  *)
(* mkfs (create_disk.sh), and stale units hold whatever they were given.   *)
Hole  == "hole"
Stale == "stale"
Contents == Blocks \cup {Hole, Stale}

ASSUME WfsLogAssumption ==
    /\ LongNames \subseteq Names
    /\ MaxDepth \in Nat
    /\ DiskSize \in Nat \ {0}
    /\ Offsets \subseteq Nat
    /\ Workload \subseteq AllOperations
    /\ Absent # Dir /\ {Absent, Dir} \cap Seq(Contents) = {}

Entries == [ino : Nat, deleted : BOOLEAN, kind : {"dir", "file"},
            dents : Seq([name : Names, ino : Nat]),
            data : Seq(Contents)]

NewInode(ino, kind) ==
    [ino |-> ino, deleted |-> FALSE, kind |-> kind, dents |-> <<>>, data |-> <<>>]

Size(e) == 1 + Len(e.dents) + Len(e.data)

head ==
    LET upTo[k \in 0 .. Len(log)] ==
            IF k = 0 THEN 0 ELSE upTo[k - 1] + Size(log[k])
    IN  upTo[Len(log)]

(* A variant that forgets the inode itself. *)
FitsWithoutInode(e) == head + Len(e.dents) + Len(e.data) <= DiskSize

Fits(e) == head + Size(e) <= DiskSize

-----------------------------------------------------------------------------
(* Finding things in the log.  Entries are named by their index, 0 stands  *)
(* for NULL.                                                               *)

(* get_log_entry: the last entry of an inode number that is not deleted. *)
get_log_entry[ino \in Int] ==
    LET found(k) == log[k].ino = ino /\ ~log[k].deleted
    IN  CHOOSE k \in 0 .. Len(log) :
            (k = 0 \/ found(k)) /\ \A j \in k + 1 .. Len(log) : ~found(j)

(* get_inode_number: the number in the first dentry of that name, or -1. *)
get_inode_number(name, entry) ==
    LET number[k \in 0 .. Len(log)] ==
          LET named == { n \in DOMAIN log[k].dents : log[k].dents[n].name = name }
          IN  IF k = 0 \/ named = {} THEN -1 ELSE log[k].dents[Min(named)].ino
    IN  number[entry]

(* path_to_log_entry: from the root, one name at a time. *)
path_to_log_entry(path) ==
    LET at[n \in 0 .. Len(path)] ==
          IF n = 0 THEN get_log_entry[0]
          ELSE get_log_entry[get_inode_number(path[n], at[n - 1])]
    IN  at[Len(path)]

(* A variant that compares the wrong way round. *)
Max_InodeNumReversed == Min({0} \cup { log[k].ino : k \in { j \in DOMAIN log : ~log[j].deleted } })

(* Max_InodeNum: the largest number of an entry that is not deleted. *)
Max_InodeNum == Max({0} \cup { log[k].ino : k \in { j \in DOMAIN log : ~log[j].deleted } })

Is(kind, k) == k # 0 /\ log[k].kind = kind

-----------------------------------------------------------------------------
(* mkfs.wfs *)
Init ==
    /\ log = <<NewInode(0, "dir")>>
    /\ stale = {}
    /\ proc = "running"
    /\ creating = NewInode(0, "dir")
    /\ ret = "OK"
    /\ fault = "none"

(* An entry is complete: the head moves past it.                           *)
AppendEntry(e) ==
    /\ log' = Append(log, e)
    /\ stale' = stale \ (1 .. head + Size(e))

(* The program dies: what it wrote past the head is still on the disk.     *)
DieHaving(written, reason) ==
    /\ stale' = stale \cup written
    /\ proc' = "dead"
    /\ fault' = reason
    /\ UNCHANGED <<log, creating, ret>>

Die(reason) == DieHaving({}, reason)

(* It dies while it writes an entry: a store past the end of the mapped    *)
(* disk kills it, and a signal may come before the head is moved.  Nothing *)
(* orders the stores.                                                      *)
DieAppending(e) ==
    \E written \in SUBSET (head + 1 .. Min({head + Size(e), DiskSize})) :
        \/ ~Fits(e) /\ DieHaving(written, "space")
        \/ "crash" \in Workload /\ DieHaving(written, "crash")

Return(result) == proc' = "running" /\ ret' = result /\ UNCHANGED fault

-----------------------------------------------------------------------------
(* my_mknod and my_mkdir append a copy of the parent with a new dentry,    *)
(* move the head, then append the new inode, and move the head again.      *)

(* A variant that draws a new number for the dentry. *)
StoredNext(name, ino) == ino + 1

(* The number is stored first and the name copied next: the NUL of one of  *)
(* 32 characters lands on the low byte of the number behind it.            *)
Stored(name, ino) == IF name \in LongNames THEN ino - (ino % 256) ELSE ino

WithDentry(parent, name, ino) ==
    [log[parent] EXCEPT !.dents = Append(@, [name |-> name, ino |-> Stored(name, ino)])]

Create(path, kind) ==
    LET parent == path_to_log_entry(Front(path))
        name   == Last(path)
        number == Max_InodeNum + 1
        newP   == WithDentry(parent, name, number)
    IN  /\ proc = "running"
        /\ Is("dir", parent)
        /\ path_to_log_entry(path) = 0
        /\ \/ /\ get_inode_number(name, parent) # -1
              /\ Return("EEXIST")
              /\ UNCHANGED <<log, stale, creating>>
           \/ /\ get_inode_number(name, parent) = -1
              /\ Fits(newP)
              /\ AppendEntry(newP)
              /\ creating' = NewInode(number, kind)
              /\ proc' = "creating"
              /\ UNCHANGED <<ret, fault>>
           \/ /\ get_inode_number(name, parent) = -1
              /\ DieAppending(newP)

my_mknod(path) == "mknod" \in Workload /\ Create(path, "file")
my_mkdir(path) == "mkdir" \in Workload /\ Create(path, "dir")

AppendInode ==
    /\ proc = "creating"
    /\ \/ /\ Fits(creating)
          /\ AppendEntry(creating)
          /\ Return("OK")
          /\ UNCHANGED creating
       \/ DieAppending(creating)

(* What the k-th block of a file's entry at the head holds before it is    *)
(* written.                                                                *)
Gap(k) == IF head + 1 + k \in stale THEN Stale ELSE Hole

(* A variant that always sets the size to the end of the write. *)
WrittenTruncates(data, off, b) ==
    [k \in 1 .. off + 1 |->
        IF k = off + 1 THEN b ELSE IF k <= Len(data) THEN data[k] ELSE Gap(k)]

(* my_write appends a copy of the file with the new data; between the end  *)
(* of the file and the new data it leaves what is on the disk.             *)
Written(data, off, b) ==
    [k \in 1 .. (IF off >= Len(data) THEN off + 1 ELSE Len(data)) |->
        IF k = off + 1 THEN b ELSE IF k <= Len(data) THEN data[k] ELSE Gap(k)]

my_write(path, off, b) ==
    LET k == path_to_log_entry(path)
        e == [log[k] EXCEPT !.data = Written(@, off, b)]
    IN  /\ "write" \in Workload
        /\ proc = "running"
        /\ Is("file", k)
        /\ \/ Fits(e) /\ AppendEntry(e) /\ Return("OK") /\ UNCHANGED creating
           \/ DieAppending(e)

(* A variant that also empties the entry. *)
wfs_unlinkEmpties(path) ==
    LET k == path_to_log_entry(path)
    IN  /\ "unlink" \in Workload
        /\ proc = "running"
        /\ Is("file", k)
        /\ log' = [log EXCEPT ![k].deleted = TRUE, ![k].data = <<>>]
        /\ Return("OK")
        /\ UNCHANGED <<stale, creating>>

(* A variant that does not refuse a directory. *)
wfs_unlinkAnything(path) ==
    LET k == path_to_log_entry(path)
    IN  /\ "unlink" \in Workload
        /\ proc = "running"
        /\ k # 0
        /\ log' = [log EXCEPT ![k].deleted = TRUE]
        /\ Return("OK")
        /\ UNCHANGED <<stale, creating>>

(* wfs_unlink marks the entry it finds, in place. *)
wfs_unlink(path) ==
    LET k == path_to_log_entry(path)
    IN  /\ "unlink" \in Workload
        /\ proc = "running"
        /\ Is("file", k)
        /\ log' = [log EXCEPT ![k].deleted = TRUE]
        /\ Return("OK")
        /\ UNCHANGED <<stale, creating>>

(* my_readdir follows every dentry to its entry without looking for NULL. *)
Dangling(k) == { n \in DOMAIN log[k].dents : get_log_entry[log[k].dents[n].ino] = 0 }

my_readdir(path) ==
    LET k == path_to_log_entry(path)
    IN  /\ "readdir" \in Workload
        /\ proc = "running"
        /\ Is("dir", k)
        /\ \/ Dangling(k) = {} /\ Return("OK") /\ UNCHANGED <<log, stale, creating>>
           \/ Dangling(k) # {} /\ Die("list")

-----------------------------------------------------------------------------
(* The program is killed between two stores to the disk, and mounted again. *)
Crash == "crash" \in Workload /\ proc # "dead" /\ Die("crash")

Mount ==
    /\ proc = "dead"
    /\ proc' = "running"
    /\ fault' = "none"
    /\ UNCHANGED <<log, stale, creating, ret>>

Next ==
    \/ \E path \in Paths \ {<<>>} :
        \/ my_mknod(path) \/ my_mkdir(path) \/ wfs_unlink(path)
        \/ \E off \in Offsets, b \in Blocks : my_write(path, off, b)
    \/ \E path \in Paths : my_readdir(path)
    \/ AppendInode
    \/ Crash
    \/ Mount

Spec == Init /\ [][Next]_vars

-----------------------------------------------------------------------------
(* Every variable has its type.                                            *)
TypeOK ==
    /\ log \in Seq(Entries)
    /\ head <= DiskSize
    /\ stale \subseteq head + 1 .. DiskSize
    /\ proc \in {"running", "creating", "dead"}
    /\ creating \in Entries
    /\ ret \in {"OK", "EEXIST"}
    /\ fault \in {"none", "space", "list", "crash"}

(* A name of 32 characters spoils its own dentry, and no other.            *)
ShortPaths == { p \in Paths : \A n \in DOMAIN p : p[n] \notin LongNames }

(* What a user finds at each path of short names.                          *)
Tree == [p \in ShortPaths |->
    LET k == path_to_log_entry(p)
    IN  IF k = 0 THEN Absent ELSE IF log[k].kind = "dir" THEN Dir ELSE log[k].data]

Promise == INSTANCE FileSystem WITH tree <- Tree, clean <- stale = {}, Paths <- ShortPaths

(* While nothing is removed and no signal kills the program, the log       *)
(* behaves as the tree it stands for, also where a name of 32 characters   *)
(* leads to a directory it should not: each operation changes one path,    *)
(* both appends of a creation take effect together, and what does not fit  *)
(* on the disk shows at most in the gaps of a later write.                 *)
ImplementsFileSystem == Promise!Spec

(* Distinct paths that exist, of names of fewer than 32 characters, are    *)
(* distinct files: "links: number of hard links to this file (this can     *)
(* always be set to 1)" (wfs.h:35).                                        *)
NoAliases ==
    \A p, q \in ShortPaths :
        p # q /\ path_to_log_entry(p) # 0 => path_to_log_entry(p) # path_to_log_entry(q)

(* While nothing is removed, every dentry of a short name leads to an      *)
(* inode, except that of a creation between its two appends, or that died  *)
(* there: the number it names is the next to be given out.                 *)
DentriesResolve ==
    \A k \in DOMAIN log : \A n \in DOMAIN log[k].dents :
        \/ log[k].dents[n].name \in LongNames
        \/ get_log_entry[log[k].dents[n].ino] # 0
        \/ log[k].dents[n].ino = Max_InodeNum + 1

(* Nothing that was written is lost: an entry below the head stays what it *)
(* is, except that a file's may be marked deleted, once and for all.       *)
HistoryKept ==
    [][\A k \in DOMAIN log :
          /\ k \in DOMAIN log'
          /\ [log'[k] EXCEPT !.deleted = FALSE] = [log[k] EXCEPT !.deleted = FALSE]
          /\ log[k].deleted => log'[k].deleted]_vars

(* A directory, once made, can always be found where it was made, whatever *)
(* is removed, written or created and whenever the program dies.           *)
DirectoriesStay ==
    [][\A p \in Paths : Is("dir", path_to_log_entry(p)) => (Is("dir", path_to_log_entry(p)))']_vars
=============================================================================
