# A verification development for the CS537 projects

The repository holds seven course projects on operating systems, p1 to p7. This
directory holds TLA+ models of the parts where several actors, a crash or a long
history of calls decide whether the program is right, TLC configurations that check
them on small instances, and proofs, checked by TLAPS, that hold for every instance.

Contents: [inventory](#1-inventory) · [modules](#2-modules-and-how-they-correspond-to-the-code) ·
[runs](#3-runs-what-they-check-and-what-they-show) · [fairness](#4-fairness) ·
[proofs](#5-what-is-proved) · [disagreements found](#6-where-the-code-does-not-do-what-is-said-of-it) ·
[not modelled](#7-what-is-abstracted-and-what-is-not-modelled) · [plan](#8-plan)

To repeat a check: `tlc -config MCXvLog.cfg MCXvLog.tla`; to repeat the proofs of a module:
`tlapm XvLogProofs.tla`. `PROJECT.json` lists components, runs, theorems, hazards, the
source lines behind each definition, and for each property a mutation of the model, as a
plausible bug would make it, that violates the property.

## 1. Inventory

### p6: a proxy with a priority queue (`src/p6/starter-code`)

| | |
|---|---|
| State | `priority_queue_t`: an array sorted by priority, `size`, `capacity`, one mutex `lock`, one condition variable `cond` (safequeue.h, safequeue.c). Per connection: a client descriptor; per request in service: a descriptor to the file server. |
| Actors | one listener thread per port (`serve_forever`), worker threads (`worker_thread`, which calls `serve_request`), clients, the file server |
| Operations | `add_work`, `get_work`, `move_down`, `display`; accept, answer a GetJob, refuse, queue; forward and relay |
| Interaction | listeners and workers share the queue. `serve_forever` reads `size` without the lock before it decides what to call; `display` reads the array without the lock. |
| Hard | two-step check-then-act on `size`; condition variable with spurious wake-ups and one signal for each request; shifting loops in place; a file server that refuses, hangs up or stays silent, which no timeout ends; who closes which descriptor; running out of descriptors |
| Right if | the array is a sorted queue, with FIFO among equals, nothing lost, nothing owned twice; a queued request gets a worker; each client is answered at most once, and left unanswered only for a reason; nobody uses a descriptor that was closed |

### p7: a log-structured file system (`src/p7`)

| | |
|---|---|
| State | one file mapped with MAP_SHARED: a superblock (`sb->head`) and log entries (an inode, with dentries or data after it) |
| Actors | one single-threaded FUSE process (`-s`), the kernel that calls it, whoever kills it, `mkfs.wfs`, `fsck.wfs` |
| Operations | `my_getattr`, `my_mknod`, `my_mkdir`, `my_read`, `my_write`, `my_readdir`, `wfs_unlink` |
| Interaction | the kernel looks a path up before it asks for an operation on it; the log is what the next mount finds |
| Hard | the current state is a function of the whole history; a creation is two appends; inode numbers are reused; death at any instant, also by a full disk, which is never tested for, and what it leaves behind past the head; names that fill their field |
| Right if | the log stands for a tree of directories and files; each call changes one path; nothing written is lost by a death |

### p3: a shell with job control (`src/p3/wsh.c`)

| | |
|---|---|
| State | `jobs[]`: `in_use`, `pid`, `command`; the foreground group of the terminal; the children as `waitpid` sees them; whether SIGCHLD is pending |
| Actors | the main loop, the handler of SIGCHLD, the children, whoever kills, stops or continues these |
| Operations | `exec_cmd` with `add_job`, `exec_pipe`, `wait_for_job`, `fg`, `bg`, `exit`; `sigchld_handler`, `remove_job` |
| Interaction | the handler comes between any two statements of the main loop and clears places in the table that the main loop is filling; both call `waitpid`, and each child reports once; shell, children and handler all set the terminal's group |
| Hard | nothing is blocked or locked; one signal for many terminations; a report taken by the wrong `waitpid`; a table of fixed size |
| Right if | whoever was started as a job can be reached until it ends; whatever ends is reaped; the prompt and the keyboard come back |

### p5, p4, p2: xv6 (`src/p5/xv6-public`, `src/p4/xv6-public`, `src/p2/xv6-public`)

Four copies of one kernel with changes of the course. `log.c` is the same in all.

| part | state | operations | hard | right if |
|---|---|---|---|---|
| log (`log.c`) | header in memory and on disk, `outstanding`, `committing` | `begin_op`, `log_write`, `end_op`, `commit`, `recover_from_log` | calls share a commit; the machine stops between any two block writes; space reserved and tested by two different rules | groups of calls are durable together or not at all; nobody sleeps for ever; the log never panics |
| p4 scheduler (`proc.c`, `trap.c`, `sysproc.c`) | process table, priorities, `cpu_ticks`, `ticks`, wake-up times | `scheduler`, `update_priority`, `wakeup2`, `fork`, `exit`, `wait`, `kill`, `sys_sleep`, `nice` | the timer between any two kernel steps; zombies handed over to init; one field that wakes sleepers of two kinds | whoever is runnable runs; nobody sleeps without a reason; nobody is an orphan |
| p5 mappings (`proc.c`, `trap.c`, `file.c`) | a table of VMAs per process, page tables, open files with counts, free frames | `mmap`, `munmap`, page fault, `fork`, `exec`, `exit`, `wait`, `open`, `close` | files kept without a reference; files closed with a spinlock held; memory running out half-way; slots never given back | frames are neither lost nor freed twice; counts are right; munmap finds what mmap made |
| buffer cache, disk (`bio.c`, `ide.c`, `sleeplock.c`) | buffers with reference counts, sleeping locks, queue of requests | `bget`, `bread`, `bwrite`, `log_write`'s pin, `brelse`, `iderw`, `ideintr` | interrupts; recycling; two locks taken one after the other; sleeping | one buffer per block; nobody recycles one in use; nobody sleeps for ever |
| processes, pipes (`proc.c`, `pipe.c`, `spinlock.c`) | locks, channels, a ring of bytes | `sleep`, `wakeup`, `piperead`, `pipewrite`, `pipeclose` | lost wake-ups | bytes in order, nobody forgotten |
| inodes (`fs.c`, `sysfile.c`) | inode cache, link counts, directories | `iget`, `ilock`, `iput`, `link`, `unlink`, `create` | reference counts against link counts, lock order | an inode is freed once, when nobody can name it |

### p1, tests

p1 are text utilities without concurrency or state between calls. The test scripts
and the pages that p6 serves are external programs.

The hazards of all of these, each at its line and with the properties that would notice it,
are in `PROJECT.json`, "hazards".

## 2. Modules, and how they correspond to the code

```
p6   PriorityQueue  <--implements--  SafeQueue    <--  SafeQueueProofs, MCSafeQueue
          ^-----------instance-----  ProxyServer  <--  ProxyServerProofs, MCProxyServer
p7   FileSystem     <--implements--  WfsLog       <--  WfsLogProofs, MCWfs
p3                                   Jobs         <--  JobsProofs, MCJobs
xv6  AtomicDisk     <--implements--  XvLog        <--  XvLogProofs, MCXvLog
     BlockStore     <--implements--  BufferCache  <--  BufferCacheProofs, MCBufferCache
                                     Sched        <--  SchedProofs, MCSched
                                     Mmap         <--  MmapProofs, MCMmap
```

Safety properties and refinement mappings stand at the end of the module they are about; an `MC` module
adds the values of constants and the liveness properties that its run checks.

**SafeQueue** models safequeue.c access by access. A thread's `pc` says which statement it is
at, `lock` is the holder of `queue->lock`, `elements` and `size` are the array, `i` each thread's loop
index, `req` the request it has in hand. `AddLock` is the lock with the test for a full queue,
`AddShift` one turn of the loop of `add_work`, `AddPlace` the store, `AddSignal` `size++` and the
signal (any one of the waiting threads, or nobody if there are none), `AddUnlock` the rest;
`GetWait`, `GetTake`, `MoveDown` (one turn), `MoveDownSize`, `GetUnlock` in the same way.
`SpuriousWakeup` is what POSIX allows of pthread_cond_wait. `Display` reads without the lock: when `move_down` has copied
a cell that was never written, or the word after the array, into the queue and has not decreased `size` yet, it
dereferences what is no request and kills the process (`DisplayDies`, `up`).
In the middle of a loop the array holds one element twice, or not yet; the operator `Queue` is the
queue the array stands for at each point of the loops, and the properties are about it.

**PriorityQueue** is the promise: one FIFO lane for each priority, add to the end of a lane if
there is room, take from the highest lane that is not empty. SafeQueue maps to it by positions: since the
array is sorted, the lane of priority `p` is the run of the queue between the requests above `p` (`Above(p)` of
them) and those below it.

**ProxyServer** models the threads of proxyserver.c over *this promise* (`Q == INSTANCE
PriorityQueue`): `add_work` and `get_work` are one step each, which is what the run `queue`
justifies. Reads of `size` outside the lock stay steps of their own (`QueueIsEmpty`,
`QueueIsNotFull`), and the value read is exact because `size` changes at the very step of
SafeQueue (`AddSignal`, `MoveDownSize`) that is mapped to the abstract operation. Connections,
their descriptors and the answers written to them are `conn`, `answer`; `leaked` counts the file
server sockets that the error path of `serve_request` never closes. When descriptors run out,
`Accept` fails (and is tried again), while `OpenSocket` ends the process, as the code's `exit` does
(`up`). `serve_request` is four steps: the socket, `connect`, sending the GET on, and what comes back. The file
server may refuse (`ConnectFails`), the sending may fail (`SendFails`), the answer may come (`Forward`), or the first
`recv` may give nothing, and the client's connection is closed with nothing sent (`HangsUp`). `recv` has no
timeout: nothing makes `Forward` or `HangsUp` happen. A write to a connection that was reset kills the process
(`BrokenPipe`: SIGPIPE is not handled).

**WfsLog** models mount.wfs.c. `log` is the sequence of entries below `sb->head`; `get_log_entry`,
`path_to_log_entry` and `Max_InodeNum` are the program's searches, written as what they find.
`my_mknod` and `my_mkdir` append the parent with its new dentry, and `AppendInode` the new inode,
in a second step; `my_write` appends the whole file; `wfs_unlink` marks one entry. An entry that does not fit
kills the program (it writes beyond the mapping), as does listing a dentry whose inode was
removed; `Crash` kills it anywhere, `Mount` starts it again on the same log. An operation that dies half-way
(`DieAppending`) has written any of the units of its entry; `stale` are those, past the head, which nothing
clears: a later `my_write` that starts past the end of the file leaves them in its gap (`Gap`). A name of 32
characters (`LongNames`), which p7/README.md:254 allows, fills `char name[32]`, and the NUL that `strcpy` adds zeroes the low byte
of the inode number stored just before (mount.wfs.c:180-181, `Stored`): its path leads to the root, or to another inode.
The searches and sums over the log are recursive functions, so that they can be proved about.
**FileSystem** is its promise: a tree of paths, to which the log is mapped by the program's own search for a path (`Tree`), for the paths of
shorter names. Its `clean` says that no operation that died left anything; until one does, the gap of a write is zeros.

**XvLog** models log.c with what it needs of bio.c. `disk`, `logArea`, `header` survive a `Crash`;
`cache`, `dirty`, `lh`, `outstanding`, `committing` do not. `begin_op`, `log_write` and `end_op`
are atomic because they hold `log.lock`, except that `log_write` tests for a full log *before* it
takes the lock: `Modify` (with that test) and `LogWrite` are two steps. `commit` is
block by block (`WriteLog`, `WriteHead`, `InstallTrans`, `EraseLog`, `CommitDone`), and so is recovery (`ReadHead`, `InstallTrans`, `EraseLog`); `phase` and `tail` say
where it is. `Bread` and `Recycle` are the cache: a buffer that is not dirty may go at any time.
`Kill` is `kill` of a process asleep in `begin_op`. The header is written atomically because
it is one block of 512 bytes, which is one sector (fs.h:6, ide.c:16).
**AtomicDisk** is the promise: `current` contents, `stable` contents, the calls in progress; a
`Commit` makes current stable when none is in progress, a `Crash` goes back to stable.

**Sched** models p4's process table on one CPU (p4's Makefile and tests fix one). Code that holds
a spinlock runs with interrupts off, so it is one step there, and the timer comes between steps.
`state`, `parent`, `killed`, `cpu_ticks`, `priority`, nice value are the fields of `struct proc`,
`left` is `wakeuptime - ticks`. `Timer` is the whole of the clock interrupt: `ticks++`, `wakeup2`,
`update_priority` every `Period` ticks, `yield`, and the exit of a killed process.
System calls run with interrupts on, so `fork` is two steps: `allocproc` publishes the child as EMBRYO (`fork`, `np`), and
what follows makes it RUNNABLE or, without memory, gives the slot back (`forkChild`); the timer may come in between.
`kill` compares pids only: 0 is that of a free slot, and one that `fork` gave up keeps its pid, so a free slot can be
marked killed, and the process that is made in it later is born so. (The model marks any free slot, the code the first one of that pid.)
`scheduler(p)` selects the process that the loop in the code selects: the least priority number
below `Limit`, the first in the table among equals.

**Jobs** models wsh.c. `pc` is where the main loop is, `cur` the process it started or waits for,
`id` its place in `jobs`. `add_job` is three steps (`find_next_job_id`, which reserves the place;
`RecordPid`; `allocate_command`), because the handler may run between them. The handler is
`Interrupt`, then one `Reap` or `handle_stopped` for each report that `waitpid` with WNOHANG gives
it, then `Return`; while it runs the main loop does not. If it was first, the main loop's `waitpid`
fails and leaves `status` uninitialized, so that what follows is either branch (`pc' \in {"remove",
"take"}`). `command` says whether the pointer in a place is null, in use or freed: `remove_job` frees
it and does not clear it. The shell is over after `exit`, when `add_job` writes at index -1
(`overflow`), and when memory is freed twice (`abort`). Children make themselves a group and take the
terminal in steps of their own; `tcsetpgrp` of a group that is gone does nothing.

**Mmap** models the mappings of p5: `vmas`, and `pages` and `table` for what the page table maps,
`ofile` and `ref` for the descriptors and the counts in `ftable`, `free` for the frames that `kalloc` has
left. `mmap` chooses the place and the addresses, `MmapPage` maps one page, the last one with the entry in
`vmas`; `MmapFails` is `kalloc` giving none, and what is undone. `munmap` walks the places chained by
`next` for a mapping that has grown. `Exit` and `clean_vma` are the two halves of `exit`, the second
with `ptable.lock` held, so that closing the last reference of a file there panics. `PageFault`
grows a mapping (`update_vma_structure`) or kills the process. The kernel ends (`over`) by a panic, or by a
fault of its own. Two fields are not in the code, and say what the properties are
about: `own` marks a pointer to a file that was copied without `filedup`, `spoiled` the files
whose count this has made wrong.

**BufferCache** models bio.c, sleeplock.c and ide.c. A section under one spinlock is a step.
`bget` finds the buffer (`Found`), takes over an unused one (`Recycle`) or panics (`NoBuffers`), then
`acquiresleep` locks it in another step, with others in between. `iderw` puts the buffer in the
queue of the disk and sleeps; `ideintr` is the disk done with the first of the queue, which it read or
wrote according to `B_DIRTY`; `Woken` tests the flags again. `log_write` marks the buffer without
writing it, as log.c does to pin it. `brelse` is `releasesleep` and, in a second step, the count. Any unused
buffer may be recycled, where the code takes the least recently used.
**BlockStore** is the promise: exclusive access to a block between bread and brelse, and the contents
written to it last.

## 3. Runs: what they check and what they show

Runs marked ✗ are expected to be violated; see section 6.

| run | instance | states | properties |
|---|---|---|---|
| `queue` | 1 listener, 2 workers, 4 requests of 2 priorities, 3 cells | 73,396 | TypeOK, QueueSorted, OneOwner, NoLostWakeup, ImplementsPriorityQueue, QueuedIsTaken |
| `proxy` | 3 clients (one of high priority), 2 listeners, 2 workers, 2 cells, 4 descriptors, all kinds of request | 51,172 | HeldIsOpenAndUnanswered, ClosedForAReason, ForgottenForAReason, HighestIsServed |
| `proxy_getjob` ✗ | 2 clients, 1 listener, 1 worker, 8 descriptors, GET and GetJob | | GetJobIsAnswered |
| `wfs_tree` | 3 names, one of 32 characters, 3 levels, writes at 0, 1 or 2, disk of 12 units; no removal, no signal | 2,677 | ImplementsFileSystem, NoAliases, DentriesResolve |
| `wfs_all` | 2 names, one of 32 characters, 2 levels, writes at 0 or 1, disk of 15 units; everything | 59,840 | TypeOK, HistoryKept, DirectoriesStay |
| `xvlog` | 3 processes, 5 blocks, 2 values, reserved 3 a call, log of 6, calls write 1 | 120,324 (symmetry) | TypeOK, NeverPanics, SleeperIsWoken, QuietIsDurable, ImplementsAtomicDisk |
| `sched` | 3 slots, Period 3, Limit 3, nice 0–2 (largest accepted 1), sleep 0–2, 4 dispatches in a period | 2,572,467 | TypeOK, AlwaysSelectable, SleepHasReason, NoOrphans |
| `sched_six` | init and 6 spinning processes, Period 100, Limit 50000 | 2,798 | RunnableRuns |
| `sched_starves` ✗ | init and 7 spinning processes, the same numbers | | RunnableRuns |
| `jobs` | 3 processes, 2 places (`MAX_JOB_COUNT` 3) | 425,952 | TypeOK, LiveIsListed, KeyboardNotLost, ZombiesAreReaped, ForegroundReturns |
| `mmap` | 2 processes, 2 files, 1 descriptor and 3 VMAs each, an area of 4 pages, 2 frames, mappings of 1 or 2 pages, of memory or growing, at the lowest place or at page 4; each call at most twice, `exec` once | 4,490,415 | TypeOK, FramesConserved, CountsHolders, MappedIsFound |
| `bufcache` | 2 processes, 2 buffers, 3 blocks of 2 values, up to 2 pinned | 70,712 | HasItsBlock, SleeperIsWoken, PanicsOnlyWithoutBuffers, ImplementsBlockStore, BreadReturns |

What they show, and why the bounds are enough:

* **queue.** With three cells both loops shift by more than one; with four requests `add_work`
  meets a full queue; with two requests in each priority the order among equals shows; two
  workers are what a lost wake-up needs. *QueueSorted* holds at every instant, *OneOwner* says that a
  request is in one place, *NoLostWakeup* that while workers wait on the condition variable, there are as many awake
  in `get_work` as there are requests queued. *ImplementsPriorityQueue* is the refinement: the shifting
  loops are invisible. *QueuedIsTaken*: one signal per request is enough, unless `display` kills
  the process, which it does in this run (a queue of three cells fills up). That more than one listener
  changes nothing is proved (section 5).
* **proxy.** Four descriptors with three clients: the file server's sockets compete with
  connections, and the leak of the error path exhausts them. Two listeners and two workers race for
  two cells. *HeldIsOpenAndUnanswered* says that a request some thread still holds has its
  descriptor open, no answer yet, and one holder; *ClosedForAReason* that a connection is
  closed after exactly one answer, of the kind its request can get, or with none, and then only by a worker
  whose file server was sent the GET and gave nothing back. Some open connections are never
  answered; *ForgottenForAReason* says which: `add_work` on a queue that another listener has filled since the
  test (proxyserver.c:396, safequeue.c:44), and the client whose request was given away as a job.
  *HighestIsServed* is as much as a strict priority queue can promise: a queued request of the highest
  priority is answered, given away as a job or sent on to the file server, unless the process ends, or every
  worker comes to wait for ever for a file server that is silent. The file server may do what it likes. Lower
  priorities starve under a steady flow of higher ones.
* **wfs_tree.** A creation takes at least three units. A directory with a file in it leaves some of the twelve for
  a write, for a name of 32 characters that leads back to the root, or for a creation or write that the full disk cuts short, whose
  stale units a later write with a gap of up to two blocks meets. *ImplementsFileSystem*: each call changes
  one path at one instant although creation is two appends, a write keeps what it does
  not cover, and its gap is zeros unless something died; what the long names alias harms no path of short ones.
  *NoAliases*, *DentriesResolve*: one such path for each inode. All three are proved for any
  disk and any paths (section 5). They are about a log in which nothing was removed and which no signal cut short: removals
  and signals break them (section 6).
* **wfs_all.** With removals, listings and deaths: *HistoryKept* (below the head only deletion
  marks change) and *DirectoriesStay* (a directory is found where it was made for ever).
  *NoAliases* is not checked here, and not proved, because it fails: a death between the two appends leaves a
  dentry whose number the next creation takes. Neither of the two properties objects to what a removal brings back.
* **xvlog.** `begin_op` lets two calls at a time into the log of six and a third must sleep; a call writes two
  blocks less than is set aside for it, which is what the theorem of section 5 needs. `log_write` panics at five
  blocks and there are five: calls that follow each other without a commit in between would fill the log, did `begin_op`
  not count what is in it (the mutation of *NeverPanics*).
  *ImplementsAtomicDisk* is crash safety, recovery included; *QuietIsDurable* says that when no call
  is in progress and no commit runs, the disk holds what the cache holds, nothing is pinned and the
  log is empty, in memory and on disk; *SleeperIsWoken* that
  whoever sleeps in `begin_op` has somebody to wake it; *NeverPanics* that the log does not fill up.
  If calls used everything set aside for them the log would panic, see section 5.
* **sched.** Three slots: init, a parent and its child, so that a child is handed over to init
  before or after it became a zombie, and is seen half made by the timer. At most four dispatches in a period are a
  bound of the model, not of the kernel: *AlwaysSelectable* is true because of it (`SlowEnough`, section 5). `Limit` is tight: priority 2 is reached and 3 is not.
  *AlwaysSelectable* says no runnable process has a priority the scheduler ignores;
  *SleepHasReason* that nobody sleeps after its time, or in `wait` with a zombie child or when
  killed; *NoOrphans* that parents are alive, and that a child in the making has
  somebody in `fork` who will start it.
* **sched_six, sched_starves.** The numbers of the real kernel (100 ticks, 50000, halving), and
  processes that never give the CPU up: six share it, of seven the last never runs.
* **jobs.** Three processes for two places: the table overflows, places are used again, two children
  terminate on one SIGCHLD, one is in the foreground while another one ends. *LiveIsListed*: whatever the handler
  interrupts, a job that has not been reaped is listed exactly once (but for the job that `add_job`
  is listing, or finds no place for). *KeyboardNotLost*: at the prompt, with no signal to handle, the
  terminal's group is the shell's or of a process that exists. *ZombiesAreReaped* and *ForegroundReturns*
  are the two things a user waits for.
* **mmap.** A process that maps can fork and both can exit, twice, so that places in `ptable`, files
  and VMAs are used again; two frames for mappings of up to two pages make `mmap` fail in the middle; three VMAs are the
  least with which the search of the page fault handler, which looks two places ahead, can give up.
  *FramesConserved*: each frame is free or mapped once. *CountsHolders*: the count of a file is the number of its
  descriptors and inherited mappings, unless the file is `spoiled`. *MappedIsFound*: without MAP_GROWSUP `munmap` finds each mapped
  page. The other properties one would ask for are false, section 6.
* **bufcache.** The log may pin both buffers, as with the numbers of param.h (NBUF = LOGSIZE = 30), and two processes
  may take them: `bget` does panic in this run, and then nothing moves. *PanicsOnlyWithoutBuffers* is what remains true: it
  panics only when each buffer is pinned or some process's, so none is lost on the way. Since any
  unused buffer may be recycled, three blocks suffice to recycle
  the one somebody else is about to ask for. *HasItsBlock*: between bread and brelse a process has
  the block it asked for, alone. *SleeperIsWoken*: no wake-up is lost. *ImplementsBlockStore*: what is
  read is what was written last, from the disk, a buffer, or one only marked by `log_write`.
  *BreadReturns*: every `bread` ends, or the kernel has panicked.

Runs in which the system may really stop have `CHECK_DEADLOCK FALSE`: a proxy waits in
`accept` when no client comes and is over after `exit`; a shell may exit, or wait for a process that never
ends; the kernel of `mmap` panics, or has made all its calls.

## 4. Fairness

* **SafeQueue `FairSpec`**: weak fairness of each thread's steps (the operating system runs what
  can run), strong fairness of taking the free mutex in `get_work` (other threads take it and give it
  back for ever; a thread that keeps asking gets it in the end), weak fairness of a worker calling
  `get_work` (`worker_thread` is a loop). Nothing makes a listener receive a request.
* **ProxyServer `FairSpec`**: weak fairness of each thread, in what it does by itself. Clients need not come, and there is
  no fairness on what the file server sends: it accepts or refuses, and may stay silent for ever, which is why
  *HighestIsServed* names this case. That `connect` and the sending return, with success or failure, is assumed of TCP.
* **Sched `PromptSpec`**: the timer keeps ticking, and what the kernel does, and the scheduler's
  choice, is done in the end. It also restricts *when* the timer ticks: never while a process is in
  the middle of a kernel loop, never when the scheduler is about to select a process. A tick is 10 ms and these take
  microseconds; without the restriction a timer that always finds the same process in the kernel
  would starve the others for a reason no machine has. The safety runs and the proofs use `Spec`, where the timer ticks at any step.
* **Jobs `FairSpec`**: weak fairness of the handler, and of the main loop's next step while it is executing a command.
  Nobody need type a command, no child need terminate, be continued or get as far as its program.
* **BufferCache `FairSpec`**: the disk answers, a process that can go on in `bread` or `brelse` does (all
  weak). Two strong ones: a process that is woken again and again gets to a lock that is
  free (`acquiresleep` retries, and another one may have taken it every time), and one that has a buffer
  releases it some time, although it may write to it before. All of it until `bget` panics.
* The other modules have no liveness property, and no fairness.

## 5. What is proved

The proofs hold for every number of threads, clients, processes, requests, blocks, buffers and slots.
Each is an inductive invariant (`IInv`, or `RInv` for a refinement) with `Init => IInv` and a lemma for each
action, or group of actions.

**SafeQueueProofs**: `TypeCorrect` (`size` and the loop indices stay inside the array and the one
cell after it), `AlwaysSorted` (*QueueSorted*), `AlwaysOneOwner` (*OneOwner*), `NoWakeupIsLost`
(*NoLostWakeup*), `QueueImplementsPriorityQueue` (*ImplementsPriorityQueue*). That the array is
sorted is not inductive by itself: a thread in the middle of a loop knows more. `IInv` adds
`Locking` (a thread is in the critical section iff it holds the lock, so the loop state of at most one
matters), `Indices` (where its index is, and that there was room when it began), `Hands` (it has
a request) and `Position` (what it has shifted so far has a lower priority than the request it adds, and,
once it has stopped, what is left in front has not). The central lemmas, `AddSignalInserts` and
`MoveDownSizeRemoves`, say that `Queue` is unchanged by every turn of a loop and that the
increment of `size` inserts in one place, its decrement removes the head. `NoWakeupIsLost` counts: each step that
makes `size` one more wakes one thread if there is one (`OneMoreAwake`), and each thread that goes to
sleep has seen `size = 0`. For the refinement, `QueueIsRanked` turns sortedness into positions: for any `p` the first
`Above(p)` requests, and no others, have a priority above `p`. `InsertionCuts` and `RemovalCuts` say how
that bound moves, for a sequence of numbers; applied at `p` and at `p - 1`, the two ends of a lane, they make `AddSignal` an
append to one lane and `MoveDownSize` the `Tail` of one (`AddSignalAppends`, `MoveDownTakes`), with the others where
they were. ProxyServer, which is written over PriorityQueue, rests on this theorem.

**ProxyServerProofs**: `HeldRequestsArePending` (*HeldIsOpenAndUnanswered*), `NobodyClosedWithoutReason`
(*ClosedForAReason*, a property of steps), `NobodyForgottenWithoutReason` (*ForgottenForAReason*, a property of steps).
The invariant says where a request can be: each in one place (`Once`), and wherever it is, its
connection is open, unanswered and of the kind its holder takes it for (`Served`). The lemmas
`EnqueueAdds` and `DequeueTakes` say what the queue's two operations do to the set of queued requests,
from `InLanes` (a lane holds requests of its own priority, each once).

**XvLogProofs**: `TypeCorrect`, `NoSleeperForgotten` (*SleeperIsWoken*) and `NeverFull`
(*NeverPanics*), the last under the assumption `RoomForAll`:

    OpBlocks < MAXOPBLOCKS  and  LOGSIZE + OpBlocks < MAXOPBLOCKS + nlog - 1

where `OpBlocks` bounds the distinct blocks a call writes. With the real numbers
(MAXOPBLOCKS 10, LOGSIZE 30, param.h:10-11; nlog = LOGSIZE blocks on disk, mkfs.c) calls may
write at most 8 blocks. The assumption is needed because `begin_op` counts with `LOGSIZE` while
`log_write` panics as soon as `lh.n >= log.size - 1`, with a `log.size` that includes the header
block, and also for a block that is already in the log. The argument counts `Credits`, the set of pairs (call
in progress, block it has not used yet), and shows `Room`: the log's length and the credits
never exceed `LOGSIZE`. The lemma `MarginHeld` then gives what the test of `log_write` needs, from
the finite-set theorems of the library. `Phased` relates the stages of a commit to the calls in
progress, `Writing` what a call wrote to what is in the log, `Pinned` says that what has
to be written to the log is still in the cache.

The same module proves `LogImplementsAtomicDisk` (*ImplementsAtomicDisk*) and `QuietMeansDurable`
(*QuietIsDurable*), without `RoomForAll`: a log that panics has lost nothing. `RInv` adds to the invariant what a commit and
a recovery have done so far: `Headed` (the header on disk is empty but for the time of
installation), `Dirt` (what is pinned is what is still to be installed), `Clean` (any other buffer equals its
block), `Copied` (how far log, buffers and disk agree). `Recovered`, the disk that a crash now would lead
to, is `stable`. The write of the header is the `Commit`; all the other steps of a commit, the end of the
recovery and a crash in it leave `Recovered` as it was.

**SchedProofs**: `TypeCorrect`, `NoOversleeping` (*SleepHasReason*), `NoOrphan` (*NoOrphans*), and
`NoneOverlooked` (*AlwaysSelectable*) under `SlowEnough`: `(MaxDispatches - 1) \div 2 + MaxNice < Limit`.
With the real numbers: as long as the CPU switches at most 99960 times in 100 ticks (a second), no
runnable process gets a priority of 50000, which `scheduler` would ignore for ever. That it does not switch more often is an
assumption about the machine and its programs: nothing in the code counts. The invariant `Charged`
is the geometric series behind it: what a process is charged for is less than a period's dispatches,
because each halving takes away half of what two periods can add. `InitLives` (init has no
parent, does not exit, is not killed) is what makes handing children over to it sound,
`Embryos` (a child in the making is that of exactly one process, which is in `fork`) what makes `fork` in two steps sound.

**JobsProofs**: `TypeCorrect`, `JobsStayListed` (*LiveIsListed*), `KeyboardComesBack`
(*KeyboardNotLost*). The first part of the invariant is about the table: a pid is in one place, even in
places not in use (`PidsDiffer`), and the pid in a free or reserved place is of no process that is left
(`Left`), so that the handler never clears the place of another job. The second follows the terminal: it can only be
held by a process that made itself a group (`Grouped`), a zombie means that the handler runs or will
(`Signalled`), and when the terminal's process is gone the main loop is about to take it back (`Reclaimed`).

**BufferCacheProofs**: `TypeCorrect`, `OneBufferPerBlock` (*OneBuffer*), `BlocksAreExclusive`
(*HasItsBlock*), `WakeupsAreNotLost` (*SleeperIsWoken*), and `NoEarlyPanic` (*PanicsOnlyWithoutBuffers*): when `bget` panics, each buffer is
pinned by the log or is some process's. That `bget` never panics is not claimed: with NBUF =
LOGSIZE = 30 and NPROC = 64 (param.h) a full log alone may pin every buffer. The heart of the invariant is
`Counts` (a buffer's count is the number of processes that have or want it) with `Asked` (they want
the block that is in it): a buffer with count 0 is nobody's, so recycling it changes no one's block.
`Channels` and `Waiting` say what a sleeper waits for and who will wake it. `CacheImplementsBlockStore`
(*ImplementsBlockStore*) needs `Fresh` besides: a valid buffer that is not marked equals its block on the disk.

**MmapProofs**: `TypeCorrect`, `FramesAreConserved` (*FramesConserved*), `CountsAreRight` (*CountsHolders*),
`MappedPagesAreFound` (*MappedIsFound*), for any processes, files, sizes of the tables, pages, frames, and calls.
What is counted is a set of pairs (a process and its page, descriptor or place), so that a step changes
one row of it and `RowAdded`, `RowRemoved` say by how much. The invariant adds what makes rows right: `Emptied` (what
`exit`, `clean_vma` and `wait` have cleared, so that a process used again starts with nothing), `Places` (a
place that `mmap` may take has never been used) and `Calling` (an `mmap` in progress has mapped exactly what it has
done of its region, so that its failure gives back exactly this).

**WfsLogProofs**: for any names, paths, workload and disk, `TypeCorrect`, `HistoryIsKept` (*HistoryKept*) and
`DirectoriesAlwaysStay` (*DirectoriesStay*). The last needs `Versions`: all entries of an inode are of one kind, and the
dentries of an earlier one are a prefix of those of a later one; so a search that finds the latest entry still finds
what it found before. `NewNumber` says that the number of a creation between its appends is larger than any in use,
`Removable` that only files are marked.

`DentriesAlwaysResolve` (*DentriesResolve*), `PathsAreUnique` (*NoAliases*) and `TheLogIsATree` (*ImplementsFileSystem*)
assume `Calm`: the workload has neither removals nor signals, as in the run `wfs_tree`. A death of the
program's own, on a full disk, is in them, with the units it leaves behind, and so are names of 32 characters; the three speak
of the paths and dentries of shorter names (`ShortPaths`). Each exclusion is necessary: a death between the two appends of a creation leaves a dentry
whose number the next creation takes, and a removed number may be used again, or its entry looked up
in vain (section 6). `TreeInv` has the two facts that make a log a tree: `Resolved` (a dentry leads to
an inode, but for that of a creation that is not over, whose number is the next to be given out) and `OneParent` (a number is in one
position of one directory). `PathsAreUnique` reads the path off the inode, from its end to the root; the
refinement follows a path through an append (`AppendFinds`, `PathsMove`, `PathsArrive`): only paths that end in the
entry's inode lead elsewhere afterwards, and those of a creation lead nowhere until its second append.

Constants are restricted only by the assumptions named in the modules (`...Assumption`), which
TLC evaluates in the runs.

**Induction.** The library's induction theorems take the property as an operator, which the provers cannot
instantiate. Where the model computes over data (paths and the log of p7, lanes of p6) the proofs use a set
instead: the numbers that have the property, or the least one that has not, whose existence follows from `WFMin`
(`Least`, `Induction`, `PathInduction`, `Recursion`).

**Model-checked only.** Liveness (*QueuedIsTaken*, *HighestIsServed*, *RunnableRuns*,
*ZombiesAreReaped*, *ForegroundReturns*, *BreadReturns*), which TLAPS cannot prove under fairness. Every
invariant, action property and refinement that a passing run checks has a theorem.

## 6. Where the code does not do what is said of it

1. **GetJob may never be answered** (`proxy_getjob`). `serve_forever` tests for an empty queue without the
   lock (proxyserver.c:380) and then calls `get_work`, which waits on an empty queue. A worker takes
   the last request in between: the listener waits, and with it all later clients of that port.
   proxyserver.h:30 defines `QUEUE_EMPTY = 598   // priority queue is empty` for this.
2. **A spinning process never runs** (`sched_starves`). Priorities decay back to 0 within six periods, and
   `scheduler` takes the first of equals (proc.c:378), so the seventh is never chosen. p4/P4/p4.py:73
   asks: "Runnable process should be scheduled, even if it does not have highest priority".

Noted on the way, in the models and listed as hazards, without a run of their own:

* p6: a request dropped when two listeners race for the last cell; descriptors leaked by `serve_request` when the file server refuses;
  a client whose connection is closed without a word when the file server gives nothing back (proxyserver.c:279-298), or left
  waiting when it stays silent; `display` dereferencing a cell that holds no request (safequeue.c:21, 33).
* p7: `wfs_unlink` marks only the latest entry of the inode (mount.wfs.c:375) and the search then finds the one
  before it, although p7/README.md:147 asks for "Remove an existing file"; an alias after a death between
  the two appends of a creation. A name of 32 characters, which p7/README.md:254 allows ("Set maximum allowable file
  name length to 32"), leads to the root or to another inode (mount.wfs.c:180-181); what an operation that died wrote shows in the
  gaps of later writes (295-302). A name that can neither be found nor created after
  a removal (mount.wfs.c:167 tests dentries only), and `my_readdir` dereferencing NULL there (346). `my_read` copies what was
  asked for, also past the end of the file (274).
* p4: equal processes are not served in turn within a period; `sys_sleep` adds to an unsigned tick count
  (sysproc.c:71); `wakeup2` writes `p->state` without `ptable.lock`, a race on two CPUs.
* p3: a job whose process ends before `add_job` has recorded its pid stays listed for ever; `remove_job`
  frees a command that is not cleared, so that the handler may free the one of the place's last user
  again; the handler gives the terminal to the shell when *any* job ends or stops, also
  while another one runs in the foreground (`ForegroundHasTerminal` in MCJobs does not hold); the handler may take the
  only report that a foreground job has stopped; the table may overflow.
* p5: `exit` closes the files of mappings with `ptable.lock` held and panics if it was the last
  reference (proc.c:635); `mmap` and the page fault handler keep files without `filedup` (proc.c:257); a mapping that grows takes
  the next place although it is in use (trap.c:198); `munmap` never gives a place back (proc.c:199), nor do exit and
  allocproc; fork copies mappings without their pages, so that a page may have two mappings.

## 7. What is abstracted and what is not modelled

* p6: HTTP parsing, delays and the bytes relayed, so that a file cut short by the file server is a file;
  `handle_getjob_request` is never called. What `display` prints is not a property, and a request it finds is taken
  to be one still in memory. The run `queue` has no file server, the run `proxy` no `display`.
* p7: `my_read` changes nothing; times, modes; an inode, a dentry and a block take one unit of disk
  each, written whole or not at all when the program dies, and a store past the end of the disk is taken to kill it. Names of more than
  32 characters and paths longer than `MAX_PATH_LENGTH`, which overrun the buffers they are copied to, are not modelled; a file's data
  are not searched for dentries (the kernel asks for no path below a file). `fsck.wfs` walks the log in steps of the size of an empty entry, so it needs a model of its own.
* xv6 log: the number of buffers and the disk's request queue, which are BufferCache's.
* buffer cache: the order of recycling, a second disk, a disk that fails. A process has one buffer at a
  time; `write_log` and `install_trans` (log.c:183-184), `bmap` with `balloc` and `itrunc` with `bfree` have two. Nothing
  here says that these never wait for each other, and with them `bget` runs out of buffers sooner.
* p3: splitting a line into words, `cd`, `jobs` (prints), the descriptors of a pipeline, the path search;
  `fg` and `bg` without a number are those of some job; a fork that fails. A pid is not given out again.
* p5: contents of pages, protection, offsets, lengths that are not whole pages, memory below the area, pipes as
  mapped files. `munmap` ignores the length as the code does. What the page fault handler
  would make of a fault in the kernel itself is not followed.
* p4: the wrap-around of `ticks`; sleep on pipes and disk; `getschedstate`, which only reads. Nobody kills init. More
  than `MaxDispatches` dispatches in a period are not modelled.
* Not modelled at all: `fsck.wfs`; pipes; inodes and directories; `kalloc` and page tables of xv6; p1; p2's
  `getlastcat` (one global string); boot code; user programs and their tests, which are the bulk of the
  repository's lines, in four copies.

## 8. Plan

Done, each with proofs, and with a refinement where there is an abstract specification: PriorityQueue, SafeQueue,
ProxyServer; AtomicDisk, XvLog; Sched; Jobs; Mmap; BlockStore, BufferCache; FileSystem, WfsLog. The order was that of
the number of actors and failures a component has to stand. Next:

1. **Pipe** (pipe.c with sleep and wakeup of proc.c): implements a bounded FIFO of bytes; no lost wake-up
   when readers, writers, `kill` and `pipeclose` interleave.
2. **Inodes** (`iget`, `ilock`, `iput`, `link`, `unlink`): reference counts against link counts, over BufferCache's
   promise and inside XvLog's calls; with it processes that hold two buffers.
3. **WfsFsck**: the walk over entries of different sizes, on a disk of units.
4. XvLog over BlockStore: its `Bread` and `Recycle` are what BufferCache promises, with the pin as the
   condition on both sides.
5. Proofs: of p7 with deaths, but without removals, that only paths through an unfinished creation go
   astray; of XvLog and BufferCache together once 4 is done.
