-------------------------------- MODULE MCJobs --------------------------------
(***************************************************************************)
(* Model checking p3's shell with three processes and two places in jobs.  *)
(***************************************************************************)
EXTENDS Jobs

-----------------------------------------------------------------------------
(* The processes that terminate are all reaped, although any number of     *)
(* them may share one SIGCHLD, and whatever the main loop is waiting for.  *)
ZombiesAreReaped == \A c \in Pids : life[c] = "zombie" ~> life[c] = "gone" \/ Over

(* When the job in the foreground has terminated, the shell comes back,    *)
(* even if the handler has reaped it first.                                *)
ForegroundReturns ==
    pc = "wait" /\ life[cur] \in {"zombie", "gone"} ~> pc = "prompt" \/ Over

(* "Set process group and terminal control" (wsh.c:292): the job the shell *)
(* waits for, once it has taken the terminal, keeps it.                    *)
ForegroundHasTerminal ==
    pc = "wait" /\ life[cur] = "live" /\ stage[cur] = "exec" => tty = cur
=============================================================================
