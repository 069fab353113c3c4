----------------------------- MODULE MCSafeQueue -----------------------------
(***************************************************************************)
(* Model checking p6's queue: a listener and two workers over a queue of   *)
(* three cells, and four requests of two priorities, so that both loops    *)
(* shift by more than one cell and add_work meets a full queue.            *)
(***************************************************************************)
EXTENDS SafeQueue

CONSTANTS a1, g1, g2, rLow1, rLow2, rHigh1, rHigh2

MCPriority == [r \in Requests |-> IF r \in {rHigh1, rHigh2} THEN 2 ELSE 1]

-----------------------------------------------------------------------------
(* Properties *)

(* A thread that waits in get_work while a request is queued gets to run:  *)
(* some caller of get_work takes a request out, unless display has met a   *)
(* cell that holds no request and killed the process.                      *)
QueuedIsTaken == (size > 0) ~> ((\E t \in Getters : pc[t] = "down") \/ ~up)
=============================================================================
