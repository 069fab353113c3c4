--------------------------------- MODULE Sched ---------------------------------
(***************************************************************************)
(* p4/xv6-public: xv6 with a scheduler that runs the process of the lowest *)
(* priority number, halves what processes used every Period ticks, and has *)
(* the timer interrupt wake sleepers.  One CPU, as in p4's Makefile and    *)
(* tests.  Code that holds a spinlock runs with interrupts disabled, so on *)
(* one CPU it is one step, and the timer comes between steps; fork, which  *)
(* holds none while it copies the process, is two.                         *)
(*                                                                         *)
(* ticks is here its remainder by Period, and wakeuptime the ticks still   *)
(* to come until then (ticks >= wakeuptime is left = 0): that a uint wraps *)
(* around after 497 days is left out.                                      *)
(***************************************************************************)
EXTENDS Integers, FiniteSets

CONSTANTS
    NPROC,          \* slots of the process table
    Started,        \* slots of processes that init forked before the first tick
    Calls,          \* Calls[p]: the system calls the processes in a slot make
    Period,         \* ticks between two update_priority: 100
    Limit,          \* no priority below it, no CPU: 50000
    Nices,          \* arguments of nice
    MaxNice,        \* the largest argument nice accepts: 20
    Sleeps,         \* arguments of sleep
    MaxDispatches   \* bound: how often the CPU can switch in one Period

Slots == 1 .. NPROC
initproc == 1
NoProc == 0

AllCalls == {"fork", "exit", "wait", "kill", "sleep", "nice"}

ASSUME SchedAssumption ==
    /\ NPROC \in Nat \ {0}
    /\ Started \subseteq Slots \ {initproc}
    /\ Calls \in [Slots -> SUBSET AllCalls]
    /\ Period \in Nat \ {0}
    /\ Limit \in Nat
    /\ Nices \subseteq Int
    /\ MaxNice \in Nat
    /\ Sleeps \subseteq Nat
    /\ MaxDispatches \in Nat \ {0}

VARIABLES
    state,        \* p->state
    pc,           \* "user", or what the process does in the kernel
    parent,       \* p->parent
    killed,       \* p->killed
    np,           \* the child that a process in fork is making
    nice_value, cpu_ticks, priority,
    left,         \* ticks until p->wakeuptime
    phase,        \* ticks % Period
    dispatches    \* dispatches since the last update_priority

procVars == <<state, pc, parent, killed>>
prioVars == <<nice_value, cpu_ticks, priority>>
clockVars == <<phase, dispatches>>
vars == <<procVars, np, prioVars, left, clockVars>>

States == {"UNUSED", "EMBRYO", "SLEEPING", "RUNNABLE", "RUNNING", "ZOMBIE"}
Points == {"user", "fork", "sleep", "wait", "exit"}

InUse == { p \in Slots : state[p] # "UNUSED" }
Children(p) == { c \in InUse : parent[c] = p }

(* Where Started is not empty, init has already run, and waits. *)
Init ==
    /\ state = [p \in Slots |->
            IF p \in Started THEN "RUNNABLE" ELSE IF p # initproc THEN "UNUSED"
            ELSE IF Started = {} THEN "RUNNABLE" ELSE "SLEEPING"]
    /\ pc = [p \in Slots |-> IF p = initproc /\ Started # {} THEN "wait" ELSE "user"]
    /\ parent = [p \in Slots |-> IF p \in Started THEN initproc ELSE NoProc]
    /\ killed = [p \in Slots |-> FALSE]
    /\ np = [p \in Slots |-> NoProc]
    /\ nice_value = [p \in Slots |-> 0]
    /\ cpu_ticks = [p \in Slots |-> IF p = initproc /\ Started # {} THEN 1 ELSE 0]
    /\ priority = [p \in Slots |-> 0]
    /\ left = [p \in Slots |-> 0]
    /\ phase = 0
    /\ dispatches = IF Started = {} THEN 0 ELSE 1

-----------------------------------------------------------------------------
(* scheduler: the lowest priority number, and the first of these in the    *)
(* table.                                                                  *)

Selected(p) ==
    /\ state[p] = "RUNNABLE"
    /\ priority[p] < Limit
    /\ \A q \in Slots \ {p} : state[q] = "RUNNABLE" =>
          priority[p] < priority[q] \/ (priority[p] = priority[q] /\ p < q)

Idle == \A p \in Slots : state[p] # "RUNNING"

scheduler(p) ==
    /\ Idle
    /\ Selected(p)
    /\ dispatches < MaxDispatches
    /\ state' = [state EXCEPT ![p] = "RUNNING"]
    /\ cpu_ticks' = [cpu_ticks EXCEPT ![p] = @ + 1]
    /\ dispatches' = dispatches + 1
    /\ UNCHANGED <<pc, parent, killed, np, nice_value, priority, left, phase>>

-----------------------------------------------------------------------------
(* The timer interrupt. *)

(* Variants: nothing is forgotten, and too much. *)
decayNot(cpu) == cpu
decayFast(cpu) == cpu \div 4

decay(cpu) == cpu \div 2

update_priority ==
    /\ cpu_ticks' = [p \in Slots |->
            IF p \in InUse THEN decay(cpu_ticks[p]) ELSE cpu_ticks[p]]
    /\ priority' = [p \in Slots |->
            IF p \in InUse THEN decay(cpu_ticks[p]) \div 2 + nice_value[p]
            ELSE priority[p]]
    /\ dispatches' = 0

(* wakeup2 looks at wakeuptime, not at what the process sleeps on. *)
Due(p) == state[p] = "SLEEPING" /\ left'[p] = 0

(* A killed process that the interrupt finds in user mode does not return. *)
Doomed(p) == state[p] = "RUNNING" /\ pc[p] = "user" /\ killed[p]

Timer ==
    /\ phase' = (phase + 1) % Period
    /\ \/ phase' = 0 /\ update_priority
       \/ phase' # 0 /\ UNCHANGED <<cpu_ticks, priority, dispatches>>
    /\ left' = [p \in Slots |-> IF left[p] = 0 THEN 0 ELSE left[p] - 1]
    /\ state' = [p \in Slots |->
            IF Due(p) \/ (state[p] = "RUNNING" /\ ~Doomed(p)) THEN "RUNNABLE"
            ELSE state[p]]
    /\ pc' = [p \in Slots |-> IF Doomed(p) THEN "exit" ELSE pc[p]]
    /\ UNCHANGED <<parent, killed, np, nice_value>>

-----------------------------------------------------------------------------
(* System calls.  A killed process exits instead of entering one, and      *)
(* instead of returning from one.                                          *)

Enters(p, call) ==
    /\ state[p] = "RUNNING"
    /\ pc[p] = "user"
    /\ ~killed[p]
    /\ call \in Calls[p]

Return(p) == pc' = [pc EXCEPT ![p] = IF killed[p] THEN "exit" ELSE "user"]

(* allocproc takes the first free slot and gives up the lock: until fork is *)
(* done the timer may come.  What the slot slept until is not reset, nor   *)
(* killed.  Without a free slot fork fails and changes nothing.            *)
fork(p) ==
    /\ Enters(p, "fork")
    /\ \E c \in Slots \ InUse :
        /\ \A d \in Slots \ InUse : c <= d
        /\ state' = [state EXCEPT ![c] = "EMBRYO"]
        /\ pc' = [pc EXCEPT ![c] = "user", ![p] = "fork"]
        /\ np' = [np EXCEPT ![p] = c]
        /\ nice_value' = [nice_value EXCEPT ![c] = 0]
        /\ cpu_ticks' = [cpu_ticks EXCEPT ![c] = 0]
        /\ priority' = [priority EXCEPT ![c] = 0]
    /\ UNCHANGED <<parent, killed, left, clockVars>>

(* The child is copied, given its parent and started; without memory, the  *)
(* slot is given back.                                                     *)
forkChild(p) ==
    /\ state[p] = "RUNNING"
    /\ pc[p] = "fork"
    /\ \/ /\ parent' = [parent EXCEPT ![np[p]] = p]
          /\ state' = [state EXCEPT ![np[p]] = "RUNNABLE"]
       \/ /\ state' = [state EXCEPT ![np[p]] = "UNUSED"]
          /\ UNCHANGED parent
    /\ np' = [np EXCEPT ![p] = NoProc]
    /\ Return(p)
    /\ UNCHANGED <<killed, prioVars, left, clockVars>>

(* A variant that takes any argument. *)
sys_niceAny(p) ==
    /\ Enters(p, "nice")
    /\ \E n \in Nices : nice_value' = [nice_value EXCEPT ![p] = n]
    /\ UNCHANGED <<procVars, cpu_ticks, priority, left, clockVars, np>>

(* What is out of range is refused. *)
sys_nice(p) ==
    /\ Enters(p, "nice")
    /\ \E n \in Nices \cap (0 .. MaxNice) : nice_value' = [nice_value EXCEPT ![p] = n]
    /\ UNCHANGED <<procVars, cpu_ticks, priority, left, clockVars, np>>

(* Nobody kills init, which would make the kernel panic.  A free slot has  *)
(* the pid 0, or that of a child that fork could not make: kill finds it.  *)
kill(p) ==
    /\ Enters(p, "kill")
    /\ \E q \in Slots \ {initproc} :
        /\ killed' = [killed EXCEPT ![q] = TRUE]
        /\ state' = [state EXCEPT ![q] = IF @ = "SLEEPING" THEN "RUNNABLE" ELSE @]
        /\ pc' = [pc EXCEPT ![p] = IF p = q THEN "exit" ELSE @]
    /\ UNCHANGED <<parent, prioVars, left, clockVars, np>>

(* sleep(0) returns at once. *)
sys_sleep(p) ==
    /\ Enters(p, "sleep")
    /\ \E n \in Sleeps :
        /\ left' = [left EXCEPT ![p] = n]
        /\ \/ n = 0 /\ UNCHANGED <<state, pc>>
           \/ /\ n > 0
              /\ state' = [state EXCEPT ![p] = "SLEEPING"]
              /\ pc' = [pc EXCEPT ![p] = "sleep"]
    /\ UNCHANGED <<parent, killed, prioVars, clockVars, np>>

(* The loop of sys_sleep, once the process runs again. *)
SleepAgain(p) ==
    /\ state[p] = "RUNNING"
    /\ pc[p] = "sleep"
    /\ \/ (left[p] = 0 \/ killed[p]) /\ Return(p) /\ UNCHANGED state
       \/ /\ left[p] > 0 /\ ~killed[p]
          /\ state' = [state EXCEPT ![p] = "SLEEPING"]
          /\ UNCHANGED pc
    /\ UNCHANGED <<parent, killed, prioVars, left, clockVars, np>>

-----------------------------------------------------------------------------
(* exit and wait *)

CallExit(p) ==
    /\ Enters(p, "exit")
    /\ p # initproc
    /\ pc' = [pc EXCEPT ![p] = "exit"]
    /\ UNCHANGED <<state, parent, killed, prioVars, left, clockVars, np>>

ExitKilled(p) ==
    /\ Doomed(p)
    /\ pc' = [pc EXCEPT ![p] = "exit"]
    /\ UNCHANGED <<state, parent, killed, prioVars, left, clockVars, np>>

Woken(p) == IF state[p] = "SLEEPING" /\ pc[p] = "wait" THEN "RUNNABLE" ELSE state[p]

(* Variants: a parent is not woken, and children are not passed on. *)
exitSilent(p) ==
    /\ state[p] = "RUNNING"
    /\ pc[p] = "exit"
    /\ LET orphans == Children(p)
           woken   == IF \E c \in orphans : state[c] = "ZOMBIE" THEN {initproc} ELSE {}
       IN  /\ state' = [q \in Slots |->
                IF q = p THEN "ZOMBIE" ELSE IF q \in woken THEN Woken(q) ELSE state[q]]
           /\ parent' = [q \in Slots |-> IF q \in orphans THEN initproc ELSE parent[q]]
    /\ UNCHANGED <<pc, killed, prioVars, left, clockVars, np>>

exitAlone(p) ==
    /\ state[p] = "RUNNING"
    /\ pc[p] = "exit"
    /\ state' = [q \in Slots |->
            IF q = p THEN "ZOMBIE" ELSE IF q = parent[p] THEN Woken(q) ELSE state[q]]
    /\ UNCHANGED <<pc, parent, killed, prioVars, left, clockVars, np>>

exit(p) ==
    /\ state[p] = "RUNNING"
    /\ pc[p] = "exit"
    /\ LET orphans == Children(p)
           woken   == {parent[p]} \cup
                      (IF \E c \in orphans : state[c] = "ZOMBIE" THEN {initproc} ELSE {})
       IN  /\ state' = [q \in Slots |->
                IF q = p THEN "ZOMBIE" ELSE IF q \in woken THEN Woken(q) ELSE state[q]]
           /\ parent' = [q \in Slots |-> IF q \in orphans THEN initproc ELSE parent[q]]
    /\ UNCHANGED <<pc, killed, prioVars, left, clockVars, np>>

CallWait(p) ==
    /\ Enters(p, "wait")
    /\ pc' = [pc EXCEPT ![p] = "wait"]
    /\ UNCHANGED <<state, parent, killed, prioVars, left, clockVars, np>>

Zombies(p) == { c \in Children(p) : state[c] = "ZOMBIE" }

(* One turn of wait's loop: the first zombie in the table is freed. *)
wait(p) ==
    /\ state[p] = "RUNNING"
    /\ pc[p] = "wait"
    /\ \/ \E c \in Zombies(p) :
            /\ \A d \in Zombies(p) : c <= d
            /\ state' = [state EXCEPT ![c] = "UNUSED"]
            /\ parent' = [parent EXCEPT ![c] = NoProc]
            /\ killed' = [killed EXCEPT ![c] = FALSE]
            /\ Return(p)
       \/ /\ Zombies(p) = {}
          /\ Children(p) = {} \/ killed[p]
          /\ Return(p)
          /\ UNCHANGED <<state, parent, killed>>
       \/ /\ Zombies(p) = {}
          /\ Children(p) # {} /\ ~killed[p]
          /\ state' = [state EXCEPT ![p] = "SLEEPING"]
          /\ UNCHANGED <<pc, parent, killed>>
    /\ UNCHANGED <<prioVars, left, clockVars, np>>

-----------------------------------------------------------------------------
InKernel(p) == forkChild(p) \/ SleepAgain(p) \/ exit(p) \/ wait(p)

InUser(p) ==
    \/ fork(p) \/ sys_nice(p) \/ kill(p) \/ sys_sleep(p) \/ CallExit(p) \/ CallWait(p)
    \/ ExitKilled(p)

Next == Timer \/ \E p \in Slots : scheduler(p) \/ InUser(p) \/ InKernel(p)

Spec == Init /\ [][Next]_vars

(***************************************************************************)
(* A tick is much longer than a turn of the loops of the kernel.  Prompt   *)
(* behaviours are those in which the timer finds no process in one, and    *)
(* none that scheduler was about to select.  The timer keeps ticking, and  *)
(* what is done in the kernel is done.                                     *)
(***************************************************************************)
PromptTimer ==
    /\ \A p \in Slots : state[p] = "RUNNING" => pc[p] = "user"
    /\ \A p \in Slots : Idle => ~Selected(p)
    /\ Timer

PromptNext == PromptTimer \/ \E p \in Slots : scheduler(p) \/ InUser(p) \/ InKernel(p)

PromptSpec ==
    /\ Init /\ [][PromptNext]_vars
    /\ WF_vars(PromptTimer)
    /\ WF_vars(\E p \in Slots : scheduler(p) \/ InKernel(p))

-----------------------------------------------------------------------------
(* Properties *)

(* Every variable has its type, and one process at most runs.              *)
TypeOK ==
    /\ state \in [Slots -> States]
    /\ \A p, q \in Slots : state[p] = "RUNNING" /\ state[q] = "RUNNING" => p = q
    /\ pc \in [Slots -> Points]
    /\ parent \in [Slots -> Slots \cup {NoProc}]
    /\ killed \in [Slots -> BOOLEAN]
    /\ np \in [Slots -> Slots \cup {NoProc}]
    /\ nice_value \in [Slots -> 0 .. MaxNice]
    /\ cpu_ticks \in [Slots -> Nat]
    /\ priority \in [Slots -> Nat]
    /\ left \in [Slots -> Nat]
    /\ phase \in 0 .. Period - 1
    /\ dispatches \in 0 .. MaxDispatches

(* However often processes are dispatched between two update_priority, and *)
(* however nice they are, none gets a priority that scheduler never looks  *)
(* at: it would not run although the CPU is idle.                          *)
AlwaysSelectable == \A p \in Slots : state[p] = "RUNNABLE" => priority[p] < Limit

(* No sleep outlasts its reason: a sleeper in sleep has ticks to wait, one *)
(* in wait has children and none of them has exited, and none was killed.  *)
SleepHasReason ==
    \A p \in Slots : state[p] = "SLEEPING" =>
        /\ ~killed[p]
        /\ pc[p] = "sleep" => left[p] > 0
        /\ pc[p] = "wait" => Children(p) # {} /\ Zombies(p) = {}

(* Every process has a parent that is there to wait for it: its own or, if *)
(* that has exited, init.  One that is still in the making has one process *)
(* in fork that will start it.                                             *)
NoOrphans ==
    \A c \in InUse \ {initproc} :
        IF state[c] = "EMBRYO"
        THEN \E p \in Slots : pc[p] = "fork" /\ np[p] = c /\ state[p] \in {"RUNNING", "RUNNABLE"}
        ELSE parent[c] \in InUse /\ state[parent[c]] \notin {"ZOMBIE", "EMBRYO"}

=============================================================================
