-------------------------------- MODULE XvLog --------------------------------
(***************************************************************************)
(* p5/xv6-public/log.c: the redo log of xv6's file system, with the buffer *)
(* cache it pins blocks in (bio.c) and a disk that writes one block at a   *)
(* time and keeps what it wrote when the machine stops.                    *)
(*                                                                         *)
(* log.lock makes begin_op, log_write and end_op atomic, except for the    *)
(* test of log_write for a full log, which comes before the lock is taken. *)
(* A process modifies a block while it holds the lock of its buffer.       *)
(***************************************************************************)
EXTENDS Integers, Sequences, FiniteSets

CONSTANTS
    Procs,        \* processes
    Blocks,       \* numbers of the blocks of the file system
    Values,       \* contents of a block
    Zero,         \* what mkfs wrote into every block
    MAXOPBLOCKS,  \* what begin_op sets aside for a call
    LOGSIZE,      \* what begin_op believes the log can hold
    nlog,         \* blocks of the log on disk, its header included
    OpBlocks,     \* what the calls really write, in distinct blocks
    NoBlock,      \* no block number
    NotCached     \* no buffer holds the block

ASSUME XvLogAssumption ==
    /\ IsFiniteSet(Procs)
    /\ IsFiniteSet(Blocks)
    /\ Zero \in Values
    /\ NotCached \notin Values
    /\ NoBlock \notin Blocks
    /\ MAXOPBLOCKS \in Nat /\ LOGSIZE \in Nat /\ nlog \in Nat /\ OpBlocks \in Nat
    /\ OpBlocks <= MAXOPBLOCKS
    /\ 0 < MAXOPBLOCKS /\ MAXOPBLOCKS <= LOGSIZE

VARIABLES
    disk,         \* the blocks of the file system, on disk
    logArea,      \* the blocks of the log, on disk
    header,       \* the header of the log, on disk: the blocks it commits
    cache,        \* what the buffer of a block holds
    dirty,        \* blocks whose buffer has B_DIRTY
    lh,           \* log.lh: block numbers, in memory
    outstanding,  \* log.outstanding
    committing,   \* log.committing
    phase,        \* where commit or recover_from_log is
    tail,         \* its loop variable
    pc,           \* where each process is
    blk,          \* the block whose buffer it has locked to modify
    wrote,        \* blocks it wrote since its begin_op
    panic         \* the kernel has stopped

diskVars == <<disk, logArea, header>>
vars == <<disk, logArea, header, cache, dirty, lh, outstanding, committing,
          phase, tail, pc, blk, wrote, panic>>

Logged == { lh[k] : k \in 1 .. Len(lh) }

Open == { p \in Procs : pc[p] \in {"op", "logging"} }

Goto(p, point) == pc' = [pc EXCEPT ![p] = point]

(* What memory holds when the machine starts. *)
Boot ==
    /\ cache' = [b \in Blocks |-> NotCached]
    /\ dirty' = {}
    /\ lh' = <<>>
    /\ outstanding' = 0
    /\ committing' = FALSE
    /\ phase' = "readHead"
    /\ tail' = 0
    /\ pc' = [p \in Procs |-> "idle"]
    /\ blk' = [p \in Procs |-> NoBlock]
    /\ wrote' = [p \in Procs |-> {}]
    /\ panic' = FALSE

Init ==
    /\ disk = [b \in Blocks |-> Zero]
    /\ logArea = [k \in 1 .. LOGSIZE |-> Zero]
    /\ header = <<>>
    /\ cache = [b \in Blocks |-> NotCached]
    /\ dirty = {}
    /\ lh = <<>>
    /\ outstanding = 0
    /\ committing = FALSE
    /\ phase = "readHead"
    /\ tail = 0
    /\ pc = [p \in Procs |-> "idle"]
    /\ blk = [p \in Procs |-> NoBlock]
    /\ wrote = [p \in Procs |-> {}]
    /\ panic = FALSE

-----------------------------------------------------------------------------
(* begin_op: called, or woken up *)

Booted == phase \notin {"readHead", "recover"}

Runs(p) == ~panic /\ Booted

(* A variant that forgets the blocks already in the log. *)
MayBeginForgets == ~committing /\ (outstanding + 1) * MAXOPBLOCKS <= LOGSIZE

MayBegin == ~committing /\ Len(lh) + (outstanding + 1) * MAXOPBLOCKS <= LOGSIZE

BeginOp(p) ==
    /\ Runs(p)
    /\ pc[p] \in {"idle", "begin"}
    /\ MayBegin
    /\ outstanding' = outstanding + 1
    /\ Goto(p, "op")
    /\ UNCHANGED <<diskVars, cache, dirty, lh, committing, phase, tail, blk, wrote, panic>>

BeginSleeps(p) ==
    /\ Runs(p)
    /\ pc[p] \in {"idle", "begin"}
    /\ ~MayBegin
    /\ Goto(p, "asleep")
    /\ UNCHANGED <<diskVars, cache, dirty, lh, outstanding, committing, phase, tail,
                   blk, wrote, panic>>

(* kill makes a sleeping process runnable; begin_op looks again. *)
Kill(p) ==
    /\ Runs(p)
    /\ pc[p] = "asleep"
    /\ Goto(p, "begin")
    /\ UNCHANGED <<diskVars, cache, dirty, lh, outstanding, committing, phase, tail,
                   blk, wrote, panic>>

(* wakeup(&log) *)
Awake(points) == [q \in Procs |-> IF points[q] = "asleep" THEN "begin" ELSE points[q]]

-----------------------------------------------------------------------------
(* bread, a change of b->data, and the first lines of log_write: the test  *)
(* for a full log, without the lock.                                       *)

LogIsFull == Len(lh) >= LOGSIZE \/ Len(lh) >= nlog - 1

Modify(p, b, v) ==
    /\ Runs(p)
    /\ pc[p] = "op"
    /\ \A q \in Procs : blk[q] # b
    /\ b \in wrote[p] \/ Cardinality(wrote[p]) < OpBlocks
    /\ cache' = [cache EXCEPT ![b] = v]
    /\ blk' = [blk EXCEPT ![p] = b]
    /\ Goto(p, "logging")
    /\ panic' = (LogIsFull \/ outstanding < 1)
    /\ UNCHANGED <<diskVars, dirty, lh, outstanding, committing, phase, tail, wrote>>

(* The rest of log_write, under the lock, and brelse. *)
LogWrite(p) ==
    /\ Runs(p)
    /\ pc[p] = "logging"
    /\ lh' = IF blk[p] \in Logged THEN lh ELSE Append(lh, blk[p])
    /\ dirty' = dirty \cup {blk[p]}
    /\ wrote' = [wrote EXCEPT ![p] = @ \cup {blk[p]}]
    /\ blk' = [blk EXCEPT ![p] = NoBlock]
    /\ Goto(p, "op")
    /\ UNCHANGED <<diskVars, cache, outstanding, committing, phase, tail, panic>>

-----------------------------------------------------------------------------
(* end_op, and the commit of the last call in progress *)

EndOp(p) ==
    /\ Runs(p)
    /\ pc[p] = "op"
    /\ outstanding' = outstanding - 1
    /\ wrote' = [wrote EXCEPT ![p] = {}]
    /\ \/ /\ outstanding = 1
          /\ committing' = TRUE
          /\ phase' = IF lh = <<>> THEN "done" ELSE "writeLog"
          /\ Goto(p, "commit")
       \/ /\ outstanding # 1
          /\ pc' = Awake([pc EXCEPT ![p] = "idle"])
          /\ UNCHANGED <<committing, phase>>
    /\ panic' = committing
    /\ UNCHANGED <<diskVars, cache, dirty, lh, tail, blk>>

WriteLog ==
    /\ ~panic
    /\ phase = "writeLog"
    /\ tail < Len(lh)
    /\ logArea' = [logArea EXCEPT ![tail + 1] = cache[lh[tail + 1]]]
    /\ tail' = tail + 1
    /\ UNCHANGED <<disk, header, cache, dirty, lh, outstanding, committing, phase, pc,
                   blk, wrote, panic>>

(* A variant that does not wait for the blocks of the log. *)
WriteHeadEarly ==
    /\ ~panic
    /\ phase = "writeLog"
    /\ header' = lh
    /\ phase' = "install"
    /\ tail' = 0
    /\ UNCHANGED <<disk, logArea, cache, dirty, lh, outstanding, committing, pc, blk,
                   wrote, panic>>

(* "the true point at which the current transaction commits" *)
WriteHead ==
    /\ ~panic
    /\ phase = "writeLog"
    /\ tail = Len(lh)
    /\ header' = lh
    /\ phase' = "install"
    /\ tail' = 0
    /\ UNCHANGED <<disk, logArea, cache, dirty, lh, outstanding, committing, pc, blk,
                   wrote, panic>>

(* One turn of install_trans: bwrite(dbuf) clears B_DIRTY. *)
InstallTrans ==
    /\ ~panic
    /\ phase \in {"install", "recover"}
    /\ tail < Len(lh)
    /\ LET b == lh[tail + 1] IN
        /\ disk' = [disk EXCEPT ![b] = logArea[tail + 1]]
        /\ cache' = [cache EXCEPT ![b] = logArea[tail + 1]]
        /\ dirty' = dirty \ {b}
    /\ tail' = tail + 1
    /\ UNCHANGED <<logArea, header, lh, outstanding, committing, phase, pc, blk, wrote,
                   panic>>

(* A variant without the second write_head. *)
EraseLogInMemory ==
    /\ ~panic
    /\ phase \in {"install", "recover"}
    /\ tail = Len(lh)
    /\ lh' = <<>>
    /\ phase' = IF phase = "install" THEN "done" ELSE "up"
    /\ tail' = 0
    /\ UNCHANGED <<diskVars, cache, dirty, outstanding, committing, pc, blk, wrote, panic>>

(* log.lh.n = 0 and the second write_head *)
EraseLog ==
    /\ ~panic
    /\ phase \in {"install", "recover"}
    /\ tail = Len(lh)
    /\ lh' = <<>>
    /\ header' = <<>>
    /\ phase' = IF phase = "install" THEN "done" ELSE "up"
    /\ tail' = 0
    /\ UNCHANGED <<disk, logArea, cache, dirty, outstanding, committing, pc, blk, wrote,
                   panic>>

(* A variant without the wakeup. *)
CommitDoneSilent(p) ==
    /\ ~panic
    /\ pc[p] = "commit"
    /\ phase = "done"
    /\ phase' = "up"
    /\ committing' = FALSE
    /\ Goto(p, "idle")
    /\ UNCHANGED <<diskVars, cache, dirty, lh, outstanding, tail, blk, wrote, panic>>

CommitDone(p) ==
    /\ ~panic
    /\ pc[p] = "commit"
    /\ phase = "done"
    /\ phase' = "up"
    /\ committing' = FALSE
    /\ pc' = Awake([pc EXCEPT ![p] = "idle"])
    /\ UNCHANGED <<diskVars, cache, dirty, lh, outstanding, tail, blk, wrote, panic>>

-----------------------------------------------------------------------------
(* The buffer cache on behalf of readers, who take no part in the log:     *)
(* bread reads a block that no buffer holds, and bget recycles a buffer    *)
(* that nobody uses and that is not dirty.                                 *)

Bread(b) ==
    /\ ~panic /\ Booted
    /\ cache[b] = NotCached
    /\ cache' = [cache EXCEPT ![b] = disk[b]]
    /\ UNCHANGED <<diskVars, dirty, lh, outstanding, committing, phase, tail, pc, blk,
                   wrote, panic>>

(* A variant that recycles dirty buffers too. *)
RecycleDirty(b) ==
    /\ ~panic /\ Booted
    /\ cache[b] # NotCached
    /\ \A p \in Procs : blk[p] # b
    /\ cache' = [cache EXCEPT ![b] = NotCached]
    /\ UNCHANGED <<diskVars, dirty, lh, outstanding, committing, phase, tail, pc, blk,
                   wrote, panic>>

Recycle(b) ==
    /\ ~panic /\ Booted
    /\ cache[b] # NotCached
    /\ b \notin dirty
    /\ \A p \in Procs : blk[p] # b
    /\ cache' = [cache EXCEPT ![b] = NotCached]
    /\ UNCHANGED <<diskVars, dirty, lh, outstanding, committing, phase, tail, pc, blk,
                   wrote, panic>>

-----------------------------------------------------------------------------
(* The machine stops, and starts again: initlog reads the header.          *)

Crash == Boot /\ UNCHANGED diskVars

ReadHead ==
    /\ phase = "readHead"
    /\ lh' = header
    /\ phase' = "recover"
    /\ tail' = 0
    /\ UNCHANGED <<diskVars, cache, dirty, outstanding, committing, pc, blk, wrote, panic>>

Next ==
    \/ \E p \in Procs :
        \/ BeginOp(p) \/ BeginSleeps(p) \/ Kill(p)
        \/ LogWrite(p) \/ EndOp(p) \/ CommitDone(p)
        \/ \E b \in Blocks, v \in Values : Modify(p, b, v)
    \/ WriteLog \/ WriteHead \/ InstallTrans \/ EraseLog
    \/ \E b \in Blocks : Bread(b) \/ Recycle(b)
    \/ ReadHead
    \/ Crash

Spec == Init /\ [][Next]_vars

-----------------------------------------------------------------------------
(* Properties *)

Points == {"idle", "begin", "asleep", "op", "logging", "commit"}

Phases == {"readHead", "recover", "up", "writeLog", "install", "done"}

(* Every variable has its type; outstanding counts the calls in progress,  *)
(* and the in-memory header has room for every block it lists.             *)
TypeOK ==
    /\ disk \in [Blocks -> Values]
    /\ logArea \in [1 .. LOGSIZE -> Values]
    /\ header \in Seq(Blocks) /\ Len(header) <= LOGSIZE
    /\ cache \in [Blocks -> Values \cup {NotCached}]
    /\ dirty \subseteq Blocks
    /\ lh \in Seq(Blocks) /\ Len(lh) <= LOGSIZE
    /\ outstanding \in Nat /\ outstanding = Cardinality(Open)
    /\ committing \in BOOLEAN
    /\ phase \in Phases
    /\ tail \in 0 .. Len(lh)
    /\ pc \in [Procs -> Points]
    /\ blk \in [Procs -> Blocks \cup {NoBlock}]
    /\ wrote \in [Procs -> SUBSET Blocks]
    /\ panic \in BOOLEAN

(* However calls overlap and share the log, none finds it full: what       *)
(* begin_op sets aside for each call covers what the calls write, although *)
(* log_write tests for a full log before it takes the lock and although    *)
(* the log on disk holds one block less than begin_op believes.            *)
NeverPanics == ~panic

(* A process that sleeps in begin_op will be woken: there is a call in     *)
(* progress whose end_op wakes it, or a commit under way.                  *)
SleeperIsWoken ==
    \A p \in Procs : pc[p] = "asleep" => Open # {} \/ committing

Contents(b) == IF cache[b] = NotCached THEN disk[b] ELSE cache[b]

(* Once no call is in progress and no commit under way, everything that    *)
(* was written is in its place on disk, nothing is pinned in the cache and *)
(* the log is empty, on disk and in memory.                                *)
QuietIsDurable ==
    phase = "up" /\ Open = {} =>
        /\ \A b \in Blocks : Contents(b) = disk[b]
        /\ dirty = {}
        /\ lh = <<>> /\ header = <<>>

(* What recovery would make of the disk. *)
Recovered == [b \in Blocks |->
    IF \E k \in DOMAIN header : header[k] = b
    THEN logArea[CHOOSE k \in DOMAIN header : header[k] = b]
    ELSE disk[b]]

Current == IF Booted THEN [b \in Blocks |-> Contents(b)] ELSE Recovered

Promise == INSTANCE AtomicDisk WITH stable <- Recovered, current <- Current, open <- Open

(* The writes of a system call become durable together, at an instant when *)
(* no call is in progress, and a crash at any point, of a commit or of a   *)
(* recovery, undoes all that was not: "there is never any reasoning        *)
(* required about whether a commit might write an uncommitted system       *)
(* call's updates to disk" (log.c:13-15).                                  *)
ImplementsAtomicDisk == Promise!Spec
=============================================================================
