---------------------------- MODULE PriorityQueue ----------------------------
(***************************************************************************)
(* What p6's request queue promises to the threads of the proxy: a bounded *)
(* set of FIFO lanes, one per priority.  A request is appended to the lane *)
(* of its priority while the queue has room, and a request taken out is    *)
(* the oldest one of the highest non-empty lane.                           *)
(*                                                                         *)
(* SafeQueue implements this with one sorted array, a mutex and a          *)
(* condition variable.                                                     *)
(***************************************************************************)
EXTENDS Integers, Sequences, SequencesExt

CONSTANTS
    Requests,   \* the ClientRequest objects
    Priority,   \* Priority[r]: the first component of r's path
    Capacity    \* max_queue_size

VARIABLE lanes  \* lanes[p]: the queued requests of priority p, oldest first

Levels == { Priority[r] : r \in Requests }

Queued == UNION { ToSet(lanes[p]) : p \in Levels }

(* The lanes together never hold more than Capacity requests. *)
Room == Cardinality(Queued) < Capacity

Init == lanes = [p \in Levels |-> <<>>]

(* add_work of a request that finds room. *)
Enqueue(r) ==
    /\ r \notin Queued
    /\ Room
    /\ lanes' = [lanes EXCEPT ![Priority[r]] = Append(@, r)]

(* A variant that serves the lowest lane first. *)
DequeueLowest(p) ==
    /\ lanes[p] # <<>>
    /\ \A lower \in Levels : lower < p => lanes[lower] = <<>>
    /\ lanes' = [lanes EXCEPT ![p] = Tail(@)]

(* get_work: the oldest request of the highest non-empty lane p. *)
Dequeue(p) ==
    /\ lanes[p] # <<>>
    /\ \A higher \in Levels : higher > p => lanes[higher] = <<>>
    /\ lanes' = [lanes EXCEPT ![p] = Tail(@)]

Next == \/ \E r \in Requests : Enqueue(r)
        \/ \E p \in Levels : Dequeue(p)

Spec == Init /\ [][Next]_lanes
=============================================================================
