---------------------------- MODULE MCBufferCache ----------------------------
(***************************************************************************)
(* Model checking the buffer cache: two processes, and a log that, as with *)
(* the numbers of param.h, may pin every buffer there is, so that bget may *)
(* panic.  An unused buffer is recycled even while another one would do,   *)
(* so that three blocks are enough for recycling.                          *)
(***************************************************************************)
EXTENDS BufferCache

(* bread returns, whoever else wants the block: the lock is passed on, the *)
(* disk gets to every request, and nobody is forgotten asleep.             *)
BreadReturns == \A p \in Procs : pc[p] = "lock" ~> pc[p] = "held" \/ panicked
=============================================================================
