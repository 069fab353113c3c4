-------------------------------- MODULE MCSched --------------------------------
(***************************************************************************)
(* Model checking p4's scheduler: a small table whose processes make every *)
(* system call, and spinning processes with the numbers of the real kernel.*)
(***************************************************************************)
EXTENDS Sched

(* Processes that make every call; init forks, waits and lives.            *)
EveryCall == [p \in Slots |-> IF p = initproc THEN {"fork", "wait"} ELSE AllCalls]

(* Init waits for its children, and these spin.                            *)
Spinning == [p \in Slots |-> IF p = initproc THEN {"wait"} ELSE {}]

-----------------------------------------------------------------------------
(* "Runnable process should be scheduled, even if it does not have highest *)
(* priority" (P4/p4.py:73): whoever is runnable gets the CPU in the end.   *)
RunnableRuns == \A p \in Slots : state[p] = "RUNNABLE" ~> state[p] = "RUNNING"
=============================================================================
