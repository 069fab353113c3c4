----------------------------- MODULE BufferCache -----------------------------
(***************************************************************************)
(* p5/xv6-public/bio.c with the sleep-locks of its buffers (sleeplock.c)   *)
(* and the disk driver below it (ide.c): processes read blocks through a   *)
(* cache of buffers, which are locked, waited for, and recycled.           *)
(*                                                                         *)
(* A section under bcache.lock, the spinlock of a sleep-lock or idelock is *)
(* one step; sleep gives the lock up and goes to sleep in one, and wakeup  *)
(* makes every sleeper try again.  Left out: the order in which unused     *)
(* buffers are recycled (any may be), a second disk, a disk that fails.  A *)
(* process has one buffer at a time.                                       *)
(***************************************************************************)
EXTENDS Integers, FiniteSets, Sequences

CONSTANTS
    Procs,
    Buffers,     \* bcache.buf
    Blocks,      \* block numbers
    Values,      \* what a block may contain
    MaxPinned,   \* blocks the log may have modified and not yet installed
    NoBlock,     \* a buffer not used yet
    Stale,       \* contents of a buffer that nobody has read into
    NoBuf,       \* no buffer
    NoProc,      \* no process
    NoView       \* a process without a block

ASSUME BufferCacheAssumption ==
    /\ NoBlock \notin Blocks
    /\ NoBuf \notin Buffers
    /\ NoProc \notin Procs
    /\ Stale \notin Values
    /\ NoView \notin [block : Blocks, contents : Values]
    /\ MaxPinned \in Nat
    /\ IsFiniteSet(Procs) /\ IsFiniteSet(Buffers)

VARIABLES
    blockno, refcnt, valid, dirty, data,   \* fields of each struct buf
    holder,     \* who has the buffer's sleep-lock
    idequeue,   \* buffers waiting for the disk, the first being worked on
    disk,       \* the contents of the disk
    pc,         \* where each process is
    want, buf,  \* the block it asked bread for, and b
    chan,       \* what each process sleeps on
    panicked    \* "bget: no buffers"

bufVars == <<blockno, refcnt, valid, dirty, data>>
procVars == <<pc, want, buf, chan>>
vars == <<bufVars, holder, idequeue, disk, procVars, panicked>>

Awake == <<"none", NoBuf>>
OnLock(b) == <<"lock", b>>
OnDisk(b) == <<"disk", b>>
Chans == {Awake} \cup { OnLock(b) : b \in Buffers } \cup { OnDisk(b) : b \in Buffers }

wakeup(c) == [p \in Procs |-> IF chan[p] = c THEN Awake ELSE chan[p]]

Init ==
    /\ blockno = [b \in Buffers |-> NoBlock]
    /\ refcnt = [b \in Buffers |-> 0]
    /\ valid = [b \in Buffers |-> FALSE]
    /\ dirty = [b \in Buffers |-> FALSE]
    /\ disk \in [Blocks -> Values]
    /\ data = [b \in Buffers |-> Stale]
    /\ holder = [b \in Buffers |-> NoProc]
    /\ idequeue = <<>>
    /\ pc = [p \in Procs |-> "idle"]
    /\ want = [p \in Procs |-> NoBlock]
    /\ buf = [p \in Procs |-> NoBuf]
    /\ chan = [p \in Procs |-> Awake]
    /\ panicked = FALSE

Goes(p, point) == pc' = [pc EXCEPT ![p] = point]

-----------------------------------------------------------------------------
(* bget *)

Cached(n) == { b \in Buffers : blockno[b] = n }

(* Variants that recycle what the log has pinned, or what nobody has locked. *)
RecyclableDirty == { b \in Buffers : refcnt[b] = 0 }
RecyclableUnlocked == { b \in Buffers : holder[b] = NoProc /\ ~dirty[b] }

Recyclable == { b \in Buffers : refcnt[b] = 0 /\ ~dirty[b] }

Found(p, n) ==
    /\ \E b \in Cached(n) :
        /\ refcnt' = [refcnt EXCEPT ![b] = @ + 1]
        /\ buf' = [buf EXCEPT ![p] = b]
    /\ Goes(p, "lock")
    /\ UNCHANGED <<blockno, valid, dirty, data, panicked>>

Reuse(p, n) ==
    /\ \E b \in Recyclable :
        /\ blockno' = [blockno EXCEPT ![b] = n]
        /\ valid' = [valid EXCEPT ![b] = FALSE]
        /\ dirty' = [dirty EXCEPT ![b] = FALSE]
        /\ data' = [data EXCEPT ![b] = Stale]
        /\ refcnt' = [refcnt EXCEPT ![b] = 1]
        /\ buf' = [buf EXCEPT ![p] = b]
    /\ Goes(p, "lock")
    /\ UNCHANGED panicked

Recycle(p, n) == Cached(n) = {} /\ Reuse(p, n)

NoBuffers(n) ==
    /\ Cached(n) = {} /\ Recyclable = {}
    /\ panicked' = TRUE
    /\ UNCHANGED <<bufVars, pc, buf>>

bget(p, n) ==
    /\ pc[p] = "idle"
    /\ want' = [want EXCEPT ![p] = n]
    /\ Found(p, n) \/ Recycle(p, n) \/ NoBuffers(n)
    /\ UNCHANGED <<holder, idequeue, disk, chan>>

-----------------------------------------------------------------------------
(* acquiresleep, and bread's test of B_VALID *)

acquiresleep(p) ==
    LET b == buf[p]
    IN  /\ pc[p] = "lock" /\ chan[p] = Awake
        /\ \/ /\ holder[b] # NoProc
              /\ chan' = [chan EXCEPT ![p] = OnLock(b)]
              /\ UNCHANGED <<holder, pc>>
           \/ /\ holder[b] = NoProc
              /\ holder' = [holder EXCEPT ![b] = p]
              /\ Goes(p, IF valid[b] THEN "held" ELSE "iderw")
              /\ UNCHANGED chan
        /\ UNCHANGED <<bufVars, idequeue, disk, want, buf, panicked>>

-----------------------------------------------------------------------------
(* iderw appends the buffer and sleeps until its flags say it is done.     *)

(* A variant that puts the newest request first. *)
iderwFront(p) ==
    /\ pc[p] = "iderw"
    /\ idequeue' = <<buf[p]>> \o idequeue
    /\ chan' = [chan EXCEPT ![p] = OnDisk(buf[p])]
    /\ Goes(p, "wait")
    /\ UNCHANGED <<bufVars, holder, disk, want, buf, panicked>>

iderw(p) ==
    /\ pc[p] = "iderw"
    /\ idequeue' = Append(idequeue, buf[p])
    /\ chan' = [chan EXCEPT ![p] = OnDisk(buf[p])]
    /\ Goes(p, "wait")
    /\ UNCHANGED <<bufVars, holder, disk, want, buf, panicked>>

Woken(p) ==
    LET b == buf[p]
    IN  /\ pc[p] = "wait" /\ chan[p] = Awake
        /\ \/ valid[b] /\ ~dirty[b] /\ Goes(p, "held") /\ UNCHANGED chan
           \/ /\ ~valid[b] \/ dirty[b]
              /\ chan' = [chan EXCEPT ![p] = OnDisk(b)]
              /\ UNCHANGED pc
        /\ UNCHANGED <<bufVars, holder, idequeue, disk, want, buf, panicked>>

(* The disk is done with the first buffer: it was written, or read. *)
DiskDone ==
    /\ idequeue # <<>>
    /\ LET b == Head(idequeue)
       IN  /\ IF dirty[b]
              THEN disk' = [disk EXCEPT ![blockno[b]] = data[b]] /\ UNCHANGED data
              ELSE data' = [data EXCEPT ![b] = disk[blockno[b]]] /\ UNCHANGED disk
           /\ valid' = [valid EXCEPT ![b] = TRUE]
           /\ dirty' = [dirty EXCEPT ![b] = FALSE]
    /\ idequeue' = Tail(idequeue)
    /\ UNCHANGED <<blockno, refcnt, holder, pc, want, buf, panicked>>

ideintr ==
    /\ DiskDone
    /\ chan' = wakeup(OnDisk(Head(idequeue)))

-----------------------------------------------------------------------------
(* What callers do with a locked buffer: change it and have it written, or *)
(* (log_write) only marked, which pins it until somebody has it written.   *)

Pinned == { b \in Buffers :
    dirty[b] /\ \A p \in Procs : buf[p] = b => pc[p] \notin {"iderw", "wait"} }

bwrite(p, v) ==
    /\ pc[p] = "held"
    /\ data' = [data EXCEPT ![buf[p]] = v]
    /\ dirty' = [dirty EXCEPT ![buf[p]] = TRUE]
    /\ Goes(p, "iderw")
    /\ UNCHANGED <<blockno, refcnt, valid, holder, idequeue, disk, want, buf, chan, panicked>>

log_write(p, v) ==
    /\ pc[p] = "held"
    /\ Cardinality({ blockno[b] : b \in Pinned \cup {buf[p]} }) <= MaxPinned
    /\ data' = [data EXCEPT ![buf[p]] = v]
    /\ dirty' = [dirty EXCEPT ![buf[p]] = TRUE]
    /\ UNCHANGED <<blockno, refcnt, valid, holder, idequeue, disk, procVars, panicked>>

-----------------------------------------------------------------------------
(* brelse: the sleep-lock first, the reference count in a second step.     *)

(* A variant that wakes nobody. *)
releasesleepSilent(p) ==
    /\ pc[p] = "held"
    /\ holder' = [holder EXCEPT ![buf[p]] = NoProc]
    /\ Goes(p, "brelse")
    /\ UNCHANGED <<bufVars, idequeue, disk, want, buf, chan, panicked>>

releasesleep(p) ==
    /\ pc[p] = "held"
    /\ holder' = [holder EXCEPT ![buf[p]] = NoProc]
    /\ chan' = wakeup(OnLock(buf[p]))
    /\ Goes(p, "brelse")
    /\ UNCHANGED <<bufVars, idequeue, disk, want, buf, panicked>>

(* A variant that forgets to count down. *)
brelseKeeps(p) ==
    /\ pc[p] = "brelse"
    /\ want' = [want EXCEPT ![p] = NoBlock]
    /\ buf' = [buf EXCEPT ![p] = NoBuf]
    /\ Goes(p, "idle")
    /\ UNCHANGED <<bufVars, holder, idequeue, disk, chan, panicked>>

brelse(p) ==
    /\ pc[p] = "brelse"
    /\ refcnt' = [refcnt EXCEPT ![buf[p]] = @ - 1]
    /\ want' = [want EXCEPT ![p] = NoBlock]
    /\ buf' = [buf EXCEPT ![p] = NoBuf]
    /\ Goes(p, "idle")
    /\ UNCHANGED <<blockno, valid, dirty, data, holder, idequeue, disk, chan, panicked>>

-----------------------------------------------------------------------------
Bread(p) == acquiresleep(p) \/ iderw(p) \/ Woken(p)

Use(p) == \E v \in Values : bwrite(p, v) \/ log_write(p, v)

(* panic stops the other processors, and spins. *)
panic == panicked /\ UNCHANGED vars

Next ==
    \/ /\ ~panicked
       /\ \/ \E p \in Procs :
               \/ \E n \in Blocks : bget(p, n)
               \/ Bread(p) \/ Use(p) \/ releasesleep(p) \/ brelse(p)
          \/ ideintr
    \/ panic

Spec == Init /\ [][Next]_vars

(***************************************************************************)
(* The disk works, processes run, and one that has a buffer releases it    *)
(* after some writes.  A process woken again and again gets to the free    *)
(* lock some time.                                                         *)
(***************************************************************************)
FairSpec ==
    /\ Spec
    /\ WF_vars(~panicked /\ ideintr)
    /\ \A p \in Procs :
        /\ WF_vars(~panicked /\ Bread(p))
        /\ SF_vars(~panicked /\ acquiresleep(p) /\ holder' # holder)
        /\ SF_vars(~panicked /\ releasesleep(p))
        /\ WF_vars(~panicked /\ brelse(p))

-----------------------------------------------------------------------------
(* Every variable has its type; no count goes below zero.                  *)
TypeOK ==
    /\ blockno \in [Buffers -> Blocks \cup {NoBlock}]
    /\ refcnt \in [Buffers -> Nat]
    /\ valid \in [Buffers -> BOOLEAN] /\ dirty \in [Buffers -> BOOLEAN]
    /\ data \in [Buffers -> Values \cup {Stale}]
    /\ holder \in [Buffers -> Procs \cup {NoProc}]
    /\ idequeue \in Seq(Buffers)
    /\ disk \in [Blocks -> Values]
    /\ pc \in [Procs -> {"idle", "lock", "iderw", "wait", "held", "brelse"}]
    /\ want \in [Procs -> Blocks \cup {NoBlock}]
    /\ buf \in [Procs -> Buffers \cup {NoBuf}]
    /\ chan \in [Procs -> Chans]
    /\ panicked \in BOOLEAN

(* A block is in one buffer at most: bget, for two processes at a time,    *)
(* never makes a second copy of a block (bio.c:66-93).                     *)
OneBuffer == \A b, c \in Buffers : blockno[b] = blockno[c] /\ blockno[b] # NoBlock => b = c

(* bread gives a process the block it asked for, and nobody else has that  *)
(* block until brelse: a buffer that somebody has or waits for is not      *)
(* recycled, whoever comes between bget's two locks (bio.c:68-93).         *)
Locks(p) == pc[p] \in {"iderw", "wait", "held"}
HasItsBlock ==
    \A p \in Procs : Locks(p) =>
        /\ blockno[buf[p]] = want[p]
        /\ \A q \in Procs : Locks(q) /\ want[q] = want[p] => q = p

(* Nobody sleeps without somebody to wake it: on a lock that is not taken, *)
(* or for a buffer the disk does not know (the wakeups of releasesleep and *)
(* ideintr, against tests made before the sleep).                          *)
SleeperIsWoken ==
    \A p \in Procs :
        /\ pc[p] = "lock" /\ chan[p] # Awake => holder[buf[p]] # NoProc
        /\ pc[p] = "wait" /\ chan[p] # Awake => \E i \in DOMAIN idequeue : idequeue[i] = buf[p]

(* bget panics no sooner than it must: whatever was read, waited for and   *)
(* written before, each buffer it finds in use is one that some process    *)
(* has, or that the log has pinned; no reference is left behind.           *)
PanicsOnlyWithoutBuffers ==
    panicked => \A b \in Buffers : b \in Pinned \/ \E p \in Procs : buf[p] = b

-----------------------------------------------------------------------------
(* What a block contains for whoever reads it next. *)
Store == [n \in Blocks |->
    IF \E b \in Cached(n) : dirty[b] THEN data[CHOOSE b \in Cached(n) : dirty[b]] ELSE disk[n]]

Sees(p) == Locks(p) /\ valid[buf[p]]

View == [p \in Procs |->
    IF Sees(p) THEN [block |-> want[p], contents |-> data[buf[p]]] ELSE NoView]

Promise == INSTANCE BlockStore WITH store <- Store, view <- View

(* Buffers, recycling, the queue of the disk and sleeping are invisible: a *)
(* block is read as it was last written, also when the write was another   *)
(* process's, or only marked by log_write.                                 *)
ImplementsBlockStore == Promise!Spec
=============================================================================
