-------------------------------- MODULE MCMmap --------------------------------
(***************************************************************************)
(* Model checking p5's mappings: two processes, of which one can fork and  *)
(* the other exit twice, a file for each, and two frames for what two      *)
(* processes, with mappings of up to two pages that grow, may ask for.     *)
(***************************************************************************)
EXTENDS Mmap

MCMaxCalls == [c \in Counted |-> IF c = "exec" THEN 1 ELSE 2]

MCKinds == {{"MAP_ANONYMOUS"}, {"MAP_GROWSUP"}}
=============================================================================
