--------------------------------- MODULE MCWfs ---------------------------------
(***************************************************************************)
(* Model checking p7's file system on disks of a few units, with two names *)
(* and paths of two or three.  Runs differ in the workload.                *)
(***************************************************************************)
EXTENDS WfsLog
=============================================================================
