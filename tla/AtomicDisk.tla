------------------------------ MODULE AtomicDisk ------------------------------
(***************************************************************************)
(* What xv6's log promises the file system (p5/xv6-public/log.c:9-21): the *)
(* writes of a system call, made between begin_op and end_op, reach the    *)
(* disk together or not at all, whenever the machine stops.  Calls commit  *)
(* in groups, and never while one of them is still in progress.            *)
(***************************************************************************)
CONSTANTS
    Procs,    \* processes
    Blocks,   \* numbers of the blocks of the file system
    Values,   \* contents of a block
    Zero      \* what mkfs wrote into every block

VARIABLES
    stable,   \* what every block would hold if the machine stopped now
    current,  \* what every block holds
    open      \* processes between begin_op and end_op

vars == <<stable, current, open>>

Init ==
    /\ stable = [b \in Blocks |-> Zero]
    /\ current = stable
    /\ open = {}

Begin(p) ==
    /\ p \notin open
    /\ open' = open \cup {p}
    /\ UNCHANGED <<stable, current>>

Write(p, b, v) ==
    /\ p \in open
    /\ current' = [current EXCEPT ![b] = v]
    /\ UNCHANGED <<stable, open>>

End(p) ==
    /\ p \in open
    /\ open' = open \ {p}
    /\ UNCHANGED <<stable, current>>

Commit ==
    /\ open = {}
    /\ stable' = current
    /\ UNCHANGED <<current, open>>

Crash ==
    /\ current' = stable
    /\ open' = {}
    /\ UNCHANGED stable

Next ==
    \/ \E p \in Procs :
        Begin(p) \/ End(p) \/ \E b \in Blocks, v \in Values : Write(p, b, v)
    \/ Commit
    \/ Crash

Spec == Init /\ [][Next]_vars
=============================================================================
