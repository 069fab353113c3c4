-------------------------------- MODULE MCXvLog --------------------------------
(***************************************************************************)
(* Model checking xv6's log with processes that compete for its space: two *)
(* calls at a time, and enough blocks to fill the log, were calls let in   *)
(* without regard to what is in it.                                        *)
(***************************************************************************)
EXTENDS XvLog, TLC

CONSTANTS p1, p2, p3, b1, b2, b3, b4, b5

Symmetry == Permutations(Procs) \cup Permutations(Blocks)
=============================================================================
