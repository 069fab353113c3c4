--------------------------------- MODULE Jobs ---------------------------------
(***************************************************************************)
(* p3/wsh.c: a shell with job control.  The main loop starts processes,    *)
(* lists them in the table jobs and waits for those in the foreground; the *)
(* handler of SIGCHLD, which may come between any two of its steps and     *)
(* runs to its end first, reaps whatever has terminated, and clears its    *)
(* place in the table.                                                     *)
(*                                                                         *)
(* Left out: what a job's command is, counter_value (fg without a number   *)
(* is fg of some job) and a fork or strdup that fails.  A pid is not given *)
(* out again.                                                              *)
(***************************************************************************)
EXTENDS Integers, FiniteSets

CONSTANTS
    Pids,         \* what fork returns
    MAX_JOB_COUNT,
    Shell,        \* the process group of the shell
    NoPid         \* pid of a place in jobs never used

ASSUME JobsAssumption ==
    /\ MAX_JOB_COUNT \in Nat \ {0, 1}
    /\ Pids \subseteq Nat
    /\ Shell \notin Pids
    /\ NoPid \notin Pids

VARIABLES
    in_use, pid,  \* fields of jobs[i]
    command,      \* the memory jobs[i].command points to
    pc,           \* where the main loop is
    cur,          \* the process it started or waits for
    id,           \* the place in jobs it works on
    fg,           \* the command it executes is in the foreground
    handling,     \* sigchld_handler runs
    pending,      \* SIGCHLD is pending
    life,         \* each process, as waitpid sees it
    reported,     \* stopped processes that waitpid reported as such
    stage,        \* how far it is: its group, the terminal, its program
    tty           \* the foreground process group of the terminal

tableVars == <<in_use, pid, command>>
mainVars == <<pc, cur, id, fg>>
childVars == <<life, reported, stage>>
vars == <<tableVars, mainVars, handling, pending, childVars, tty>>

Slots == 1 .. MAX_JOB_COUNT - 1

Free == { i \in Slots : ~in_use[i] }

(* A group exists as long as its process has not been reaped. *)
HasGroup(c) == stage[c] \in {"grouped", "exec"} /\ life[c] # "gone"

(* tcsetpgrp fails if there is no such group. *)
tcsetpgrp(c) == tty' = IF HasGroup(c) THEN c ELSE tty

Init ==
    /\ in_use = [i \in Slots |-> FALSE]
    /\ pid = [i \in Slots |-> NoPid]
    /\ command = [i \in Slots |-> "null"]
    /\ pc = "prompt" /\ cur = NoPid /\ id = 1 /\ fg = FALSE
    /\ handling = FALSE /\ pending = FALSE
    /\ life = [c \in Pids |-> "none"]
    /\ reported = {}
    /\ stage = [c \in Pids |-> "shell"]
    /\ tty = Shell

(* What the main loop worked on is forgotten when it is done.              *)
Prompt == pc' = "prompt" /\ cur' = NoPid /\ id' = 1 /\ fg' = FALSE

-----------------------------------------------------------------------------
(* Processes.  One in the foreground makes itself a group and takes the    *)
(* terminal before it executes its program; others stay in the shell's     *)
(* group and ignore the keyboard, as the shell does.                       *)

SetProcessGroup(c) ==
    /\ life[c] = "live" /\ stage[c] = "forked"
    /\ stage' = [stage EXCEPT ![c] = "grouped"]
    /\ UNCHANGED <<tableVars, mainVars, handling, pending, life, reported, tty>>

TakeTerminal(c) ==
    /\ life[c] = "live" /\ stage[c] = "grouped"
    /\ stage' = [stage EXCEPT ![c] = "exec"]
    /\ tcsetpgrp(c)
    /\ UNCHANGED <<tableVars, mainVars, handling, pending, life, reported>>

(* Anybody may kill, stop or continue it, whatever it is about to do.      *)
Terminate(c) ==
    /\ life[c] \in {"live", "stopped"}
    /\ life' = [life EXCEPT ![c] = "zombie"]
    /\ reported' = reported \ {c}
    /\ pending' = TRUE
    /\ UNCHANGED <<tableVars, mainVars, handling, stage, tty>>

(* SA_NOCLDSTOP: no signal. *)
Stop(c) ==
    /\ life[c] = "live"
    /\ life' = [life EXCEPT ![c] = "stopped"]
    /\ UNCHANGED <<tableVars, mainVars, handling, pending, reported, stage, tty>>

Child(c) == SetProcessGroup(c) \/ TakeTerminal(c) \/ Terminate(c) \/ Stop(c)

-----------------------------------------------------------------------------
(* sigchld_handler *)

(* remove_job.  Memory that was freed is not freed again without harm.     *)
remove_job(i) ==
    /\ in_use' = [in_use EXCEPT ![i] = FALSE]
    /\ command' = [command EXCEPT ![i] = IF @ = "live" THEN "freed" ELSE @]
    /\ UNCHANGED pid

DoubleFree(i) == in_use[i] /\ command[i] = "freed"

Jobs(c) == { i \in Slots : in_use[i] /\ pid[i] = c }

Interrupt ==
    /\ pending /\ ~handling
    /\ handling' = TRUE
    /\ pending' = FALSE
    /\ UNCHANGED <<tableVars, mainVars, childVars, tty>>

(* A variant that leaves the terminal where it is. *)
handle_exit_or_signalSilent(c) ==
    \/ Jobs(c) = {} /\ UNCHANGED <<tableVars, mainVars, tty>>
    \/ \E i \in Jobs(c) : ~DoubleFree(i) /\ remove_job(i) /\ UNCHANGED <<mainVars, tty>>
    \/ \E i \in Jobs(c) : DoubleFree(i) /\ pc' = "abort" /\ UNCHANGED <<tableVars, cur, id, fg, tty>>

handle_exit_or_signal(c) ==
    \/ Jobs(c) = {} /\ UNCHANGED <<tableVars, mainVars, tty>>
    \/ \E i \in Jobs(c) : ~DoubleFree(i) /\ remove_job(i) /\ tty' = Shell /\ UNCHANGED mainVars
    \/ \E i \in Jobs(c) : DoubleFree(i) /\ pc' = "abort" /\ UNCHANGED <<tableVars, cur, id, fg, tty>>

Reap(c) ==
    /\ handling
    /\ life[c] = "zombie"
    /\ life' = [life EXCEPT ![c] = "gone"]
    /\ handle_exit_or_signal(c)
    /\ UNCHANGED <<handling, pending, reported, stage>>

(* WUNTRACED: the handler takes the report of a stop as well. *)
handle_stopped(c) ==
    /\ handling
    /\ life[c] = "stopped" /\ c \notin reported
    /\ reported' = reported \cup {c}
    /\ tty' = IF Jobs(c) = {} THEN tty ELSE Shell
    /\ UNCHANGED <<tableVars, mainVars, handling, pending, life, stage>>

(* A variant that asks waitpid once for each signal. *)
ReturnOnce ==
    /\ handling
    /\ handling' = FALSE
    /\ UNCHANGED <<tableVars, mainVars, pending, childVars, tty>>

Return ==
    /\ handling
    /\ \A c \in Pids : life[c] # "zombie" /\ (life[c] = "stopped" => c \in reported)
    /\ handling' = FALSE
    /\ UNCHANGED <<tableVars, mainVars, pending, childVars, tty>>

sigchld_handler == Interrupt \/ Return \/ \E c \in Pids : Reap(c) \/ handle_stopped(c)

-----------------------------------------------------------------------------
(* exec_cmd: fork, add_job *)

Unborn == { c \in Pids : life[c] = "none" }

Fork(c, inShell) ==
    /\ c \in Unborn /\ \A d \in Unborn : c <= d
    /\ life' = [life EXCEPT ![c] = "live"]
    /\ stage' = [stage EXCEPT ![c] = IF inShell THEN "shell" ELSE "forked"]
    /\ cur' = c
    /\ UNCHANGED reported

Start(c) ==
    /\ pc = "prompt"
    /\ fg' \in BOOLEAN
    /\ Fork(c, ~fg')
    /\ pc' = "find"
    /\ UNCHANGED <<tableVars, id, handling, pending, tty>>

(* A variant that forgets the first place. *)
find_next_job_idZero ==
    /\ pc = "find"
    /\ id' = 0
    /\ pc' = "pid"
    /\ UNCHANGED <<tableVars, cur, fg, handling, pending, childVars, tty>>

(* When the table is full the index is -1, and what is before the table    *)
(* gets overwritten.                                                       *)
find_next_job_id ==
    /\ pc = "find"
    /\ \/ \E i \in Free :
            /\ \A j \in Free : i <= j
            /\ in_use' = [in_use EXCEPT ![i] = TRUE]
            /\ id' = i
            /\ pc' = "pid"
       \/ Free = {} /\ pc' = "overflow" /\ UNCHANGED <<in_use, id>>
    /\ UNCHANGED <<pid, command, cur, fg, handling, pending, childVars, tty>>

RecordPid ==
    /\ pc = "pid"
    /\ pid' = [pid EXCEPT ![id] = cur]
    /\ pc' = "command"
    /\ UNCHANGED <<in_use, command, cur, id, fg, handling, pending, childVars, tty>>

allocate_command ==
    /\ pc = "command"
    /\ command' = [command EXCEPT ![id] = "live"]
    /\ IF fg THEN pc' = "give" /\ UNCHANGED <<cur, id, fg>> ELSE Prompt
    /\ UNCHANGED <<in_use, pid, handling, pending, childVars, tty>>

GiveTerminal ==
    /\ pc = "give"
    /\ tcsetpgrp(cur)
    /\ pc' = "wait"
    /\ UNCHANGED <<tableVars, cur, id, fg, handling, pending, childVars>>

-----------------------------------------------------------------------------
(* waitpid(cur, &status, WUNTRACED), and what follows it.  If the handler  *)
(* was first, waitpid fails and leaves status as it was: uninitialized.    *)

(* A variant that waits until it is told of the process itself. *)
wait_for_jobInsists ==
    /\ pc = "wait"
    /\ \/ /\ life[cur] = "zombie"
          /\ life' = [life EXCEPT ![cur] = "gone"]
          /\ pc' = "remove"
          /\ UNCHANGED reported
       \/ /\ life[cur] = "stopped" /\ cur \notin reported
          /\ reported' = reported \cup {cur}
          /\ pc' = "take"
          /\ UNCHANGED life
    /\ UNCHANGED <<tableVars, cur, id, fg, handling, pending, stage, tty>>

(* A variant that takes a stopped job for a terminated one. *)
wait_for_jobAnyway ==
    /\ pc = "wait"
    /\ \/ life[cur] = "zombie" /\ life' = [life EXCEPT ![cur] = "gone"]
       \/ life[cur] \in {"stopped", "gone"} /\ UNCHANGED life
    /\ pc' = "remove"
    /\ UNCHANGED <<tableVars, cur, id, fg, handling, pending, reported, stage, tty>>

wait_for_job ==
    /\ pc = "wait"
    /\ \/ /\ life[cur] = "zombie"
          /\ life' = [life EXCEPT ![cur] = "gone"]
          /\ pc' = "remove"
          /\ UNCHANGED reported
       \/ /\ life[cur] = "stopped" /\ cur \notin reported
          /\ reported' = reported \cup {cur}
          /\ pc' = "take"
          /\ UNCHANGED life
       \/ /\ life[cur] = "gone"
          /\ pc' \in {"remove", "take"}
          /\ UNCHANGED <<life, reported>>
    /\ UNCHANGED <<tableVars, cur, id, fg, handling, pending, stage, tty>>

(* A terminated job is removed, unless the handler did; a stopped one      *)
(* stays.  The shell takes the terminal back.                              *)
Waited ==
    /\ \/ pc = "remove" /\ \E i \in Jobs(cur) : remove_job(i)
       \/ pc = "remove" /\ Jobs(cur) = {} /\ UNCHANGED tableVars
       \/ pc = "take" /\ UNCHANGED tableVars
    /\ tty' = Shell
    /\ Prompt
    /\ UNCHANGED <<handling, pending, childVars>>

-----------------------------------------------------------------------------
(* fg and bg of a job in use.  kill does nothing to a process that is gone. *)

Continued(c) ==
    /\ life' = [life EXCEPT ![c] = IF @ = "stopped" THEN "live" ELSE @]
    /\ reported' = reported \ {c}

move_to_foreground(i) ==
    /\ pc = "prompt"
    /\ in_use[i]
    /\ id' = i
    /\ cur' = pid[i]
    /\ tcsetpgrp(pid[i])
    /\ fg' = TRUE
    /\ pc' = "resume"
    /\ UNCHANGED <<tableVars, handling, pending, childVars>>

resume_job ==
    /\ pc = "resume"
    /\ Continued(cur)
    /\ pc' = "wait"
    /\ UNCHANGED <<tableVars, cur, id, fg, handling, pending, stage, tty>>

move_to_background(i) ==
    /\ pc = "prompt"
    /\ in_use[i]
    /\ Continued(pid[i])
    /\ UNCHANGED <<tableVars, mainVars, handling, pending, stage, tty>>

-----------------------------------------------------------------------------
(* exec_pipe starts each command of a pipeline when the one before it has  *)
(* terminated; none of them is listed.                                     *)
exec_pipe(c) ==
    /\ pc \in {"prompt", "pipe"}
    /\ Fork(c, TRUE)
    /\ pc' = IF pc = "prompt" THEN "firstWait" ELSE "pipeWait"
    /\ UNCHANGED <<tableVars, id, fg, handling, pending, tty>>

PipeWaited ==
    /\ pc \in {"firstWait", "pipeWait"}
    /\ life[cur] \in {"zombie", "gone"}
    /\ life' = [life EXCEPT ![cur] = "gone"]
    /\ \/ pc' = "pipe" /\ UNCHANGED <<cur, id, fg>>
       \/ pc = "pipeWait" /\ Prompt
    /\ UNCHANGED <<tableVars, handling, pending, reported, stage, tty>>

(* exit, or the end of the input. *)
handle_exit ==
    /\ pc = "prompt"
    /\ pc' = "done"
    /\ UNCHANGED <<tableVars, cur, id, fg, handling, pending, childVars, tty>>

-----------------------------------------------------------------------------
Over == pc \in {"done", "overflow", "abort"}

Command ==
    \/ \E c \in Pids : Start(c) \/ exec_pipe(c)
    \/ \E i \in Slots : move_to_foreground(i) \/ move_to_background(i)
    \/ handle_exit

Proceed ==
    \/ find_next_job_id \/ RecordPid \/ allocate_command \/ GiveTerminal
    \/ wait_for_job \/ Waited \/ resume_job \/ PipeWaited

Next ==
    /\ ~Over
    /\ \/ \E c \in Pids : Child(c)
       \/ sigchld_handler
       \/ ~handling /\ (Command \/ Proceed)

Spec == Init /\ [][Next]_vars

(***************************************************************************)
(* The shell runs whenever it can.  Nobody need type a command, and no     *)
(* process need terminate.                                                 *)
(***************************************************************************)
FairSpec ==
    /\ Spec
    /\ WF_vars(~Over /\ sigchld_handler)
    /\ WF_vars(~Over /\ ~handling /\ Proceed)

-----------------------------------------------------------------------------
(* Every variable has its type, and a place that is taken holds a process  *)
(* unless add_job is at it.                                                *)
TypeOK ==
    /\ in_use \in [Slots -> BOOLEAN]
    /\ pid \in [Slots -> Pids \cup {NoPid}]
    /\ command \in [Slots -> {"null", "live", "freed"}]
    /\ pc \in {"prompt", "find", "pid", "command", "give", "wait", "remove", "take", "resume",
               "firstWait", "pipeWait", "pipe", "done", "overflow", "abort"}
    /\ cur \in Pids \cup {NoPid}
    /\ id \in Slots
    /\ fg \in BOOLEAN /\ handling \in BOOLEAN /\ pending \in BOOLEAN
    /\ life \in [Pids -> {"none", "live", "stopped", "zombie", "gone"}]
    /\ reported \subseteq Pids
    /\ stage \in [Pids -> {"shell", "forked", "grouped", "exec"}]
    /\ tty \in Pids \cup {Shell}
    /\ \A i \in Slots : in_use[i] /\ pid[i] = NoPid => pc = "pid" /\ id = i

(* Whatever the handler does between two steps of add_job, remove_job, fg  *)
(* or bg, a process that was started as a job and has not been reaped is   *)
(* listed once, so that fg, bg and jobs can reach it.                      *)
LiveIsListed ==
    \A c \in Pids : life[c] \in {"live", "stopped", "zombie"} =>
        \/ Cardinality(Jobs(c)) = 1
        \/ Jobs(c) = {} /\ cur = c /\ pc \in {"find", "pid", "overflow", "firstWait", "pipeWait"}

(* When the shell is back at its prompt and SIGCHLD is dealt with, the     *)
(* keyboard belongs to the shell or to a process that is there: even one   *)
(* that took the terminal while in the background gives it back when it    *)
(* terminates.                                                             *)
KeyboardNotLost ==
    pc = "prompt" /\ ~handling /\ ~pending =>
        tty = Shell \/ life[tty] \in {"live", "stopped"}
=============================================================================
