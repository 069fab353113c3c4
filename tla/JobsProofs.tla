------------------------------ MODULE JobsProofs ------------------------------
(***************************************************************************)
(* What holds of p3's job table and terminal for any number of processes   *)
(* and places, wherever the handler of SIGCHLD interrupts the main loop.   *)
(***************************************************************************)
EXTENDS Jobs, FiniteSetTheorems, TLAPS

Adding == {"find", "pid", "overflow", "firstWait", "pipeWait"}

(* The process the main loop is about. *)
Current ==
    /\ pc \notin {"prompt", "done", "abort"} => cur \in Pids
    /\ cur \in Pids => life[cur] # "none"
    /\ pc \in {"remove", "pipe"} => life[cur] = "gone"
    /\ pc \in Adding => \A i \in Slots : pid[i] # cur

(* A pid is in one place, also in places not in use any more. *)
PidsDiffer == \A i, j \in Slots : pid[i] = pid[j] /\ pid[i] # NoPid => i = j

Born ==
    \A c \in Pids : life[c] = "none" =>
        stage[c] = "shell" /\ \A i \in Slots : pid[i] # c

(* A pid that is not, or no longer, a job's is that of no process. *)
Left ==
    \A i \in Slots : ~in_use[i] \/ (pc = "pid" /\ i = id) =>
        pid[i] = NoPid \/ life[pid[i]] = "gone"

Reserved == pc = "pid" => in_use[id]

(* add_job still has to allocate the command of the place it has taken.    *)
Freed ==
    \A i \in Slots : DoubleFree(i) => i = id /\ pc \in {"pid", "command", "abort"}

Listed ==
    \A c \in Pids : life[c] \in {"live", "stopped", "zombie"} =>
        Jobs(c) # {} \/ (cur = c /\ pc \in Adding)

TableInv == TypeOK /\ Current /\ PidsDiffer /\ Born /\ Left /\ Reserved /\ Freed /\ Listed

(* Only what runs in the foreground has a group that the terminal can have. *)
Grouped ==
    /\ tty \in Pids => stage[tty] \in {"grouped", "exec"}
    /\ pc \in {"firstWait", "pipeWait"} \/ (pc \in {"find", "pid", "command"} /\ ~fg) =>
         stage[cur] = "shell"

Signalled == \A c \in Pids : life[c] = "zombie" => pending \/ handling

(* If the terminal is left with a process that is gone, the main loop is   *)
(* on its way to take it back.                                             *)
Reclaimed ==
    tty \in Pids /\ life[tty] = "gone" =>
        Over \/ (cur = tty /\ pc \in {"find", "pid", "command", "give", "wait", "remove", "take", "resume"})

IInv == TableInv /\ Grouped /\ Signalled /\ Reclaimed

-----------------------------------------------------------------------------
(* remove_job and add_job leave the table's fields as they should be. *)
LEMMA TableTypes ==
    ASSUME in_use \in [Slots -> BOOLEAN], command \in [Slots -> {"null", "live", "freed"}],
           NEW i \in Slots, NEW b \in BOOLEAN
    PROVE  /\ [in_use EXCEPT ![i] = b] \in [Slots -> BOOLEAN]
           /\ [command EXCEPT ![i] = IF @ = "live" THEN "freed" ELSE @] \in [Slots -> {"null", "live", "freed"}]
OBVIOUS

LEMMA InitInv == Init => IInv
<1> SUFFICES ASSUME Init PROVE IInv
  OBVIOUS
<1> USE JobsAssumption DEF Init, Slots
<1>1. TypeOK
  <2>1. 1 \in Slots
    OBVIOUS
  <2> QED BY <2>1 DEF TypeOK
<1>2. Current /\ PidsDiffer /\ Born /\ Left /\ Reserved
  BY DEF Current, PidsDiffer, Born, Left, Reserved, Adding
<1>3. Freed /\ Listed
  BY DEF Freed, DoubleFree, Listed
<1>4. Grouped /\ Signalled /\ Reclaimed
  BY DEF Grouped, Signalled, Reclaimed
<1> QED BY <1>1, <1>2, <1>3, <1>4 DEF IInv, TableInv

-----------------------------------------------------------------------------
(* Each action keeps the invariant.  The lemmas of this section rest on    *)
(* all parts of it, and on what an action changes.                         *)
USE JobsAssumption DEF IInv, TableInv, TypeOK, Current, PidsDiffer, Born, Left, Reserved, Freed, DoubleFree,
    Listed, Jobs, Adding, Slots, Over, tableVars, mainVars, childVars

LEMMA SetProcessGroupInv ==
    ASSUME IInv, ~Over, NEW c \in Pids, SetProcessGroup(c)
    PROVE  IInv'
<1> USE DEF SetProcessGroup
<1>1. TableInv'
  OBVIOUS
<1>2. (Grouped /\ Signalled /\ Reclaimed)'
  BY DEF Grouped, Signalled, Reclaimed
<1> QED BY <1>1, <1>2

LEMMA TakeTerminalInv ==
    ASSUME IInv, ~Over, NEW c \in Pids, TakeTerminal(c)
    PROVE  IInv'
<1> USE DEF TakeTerminal, tcsetpgrp, HasGroup
<1>1. TableInv'
  OBVIOUS
<1>2. (Grouped /\ Signalled /\ Reclaimed)'
  BY DEF Grouped, Signalled, Reclaimed
<1> QED BY <1>1, <1>2

LEMMA TerminateInv ==
    ASSUME IInv, ~Over, NEW c \in Pids, Terminate(c)
    PROVE  IInv'
<1> USE DEF Terminate
<1>1. TableInv'
  OBVIOUS
<1>2. (Grouped /\ Signalled /\ Reclaimed)'
  BY DEF Grouped, Signalled, Reclaimed
<1> QED BY <1>1, <1>2

LEMMA StopInv ==
    ASSUME IInv, ~Over, NEW c \in Pids, Stop(c)
    PROVE  IInv'
<1> USE DEF Stop
<1>1. TableInv'
  OBVIOUS
<1>2. (Grouped /\ Signalled /\ Reclaimed)'
  BY DEF Grouped, Signalled, Reclaimed
<1> QED BY <1>1, <1>2

LEMMA InterruptInv ==
    ASSUME IInv, ~Over, Interrupt
    PROVE  IInv'
<1> USE DEF Interrupt
<1>1. TypeOK'
  OBVIOUS
<1>2. (Current /\ PidsDiffer /\ Born)'
  OBVIOUS
<1>3. (Left /\ Reserved /\ Freed /\ Listed)'
  OBVIOUS
<1>4. (Grouped /\ Signalled /\ Reclaimed)'
  BY DEF Grouped, Reclaimed, Signalled
<1> QED BY <1>1, <1>2, <1>3, <1>4

LEMMA ReturnInv ==
    ASSUME IInv, ~Over, Return
    PROVE  IInv'
<1> USE DEF Return
<1>1. TypeOK'
  OBVIOUS
<1>2. (Current /\ PidsDiffer /\ Born)'
  OBVIOUS
<1>3. (Left /\ Reserved /\ Freed /\ Listed)'
  OBVIOUS
<1>4. (Grouped /\ Signalled /\ Reclaimed)'
  BY DEF Grouped, Reclaimed, Signalled
<1> QED BY <1>1, <1>2, <1>3, <1>4

LEMMA ReapInv ==
    ASSUME IInv, ~Over, NEW c \in Pids, Reap(c)
    PROVE  IInv'
<1> USE DEF Reap, handle_exit_or_signal, remove_job
<1>1. TypeOK'
  <2>1. in_use' \in [Slots -> BOOLEAN] /\ command' \in [Slots -> {"null", "live", "freed"}]
    <3>1. \/ in_use' = in_use /\ command' = command
          \/ \E i \in Jobs(c) : remove_job(i)
      OBVIOUS
    <3>2. CASE in_use' = in_use /\ command' = command
      BY <3>2
    <3>3. ASSUME NEW i \in Slots, remove_job(i)
          PROVE  in_use' \in [Slots -> BOOLEAN] /\ command' \in [Slots -> {"null", "live", "freed"}]
      BY ONLY TypeOK, <3>3, TableTypes DEF TypeOK, remove_job
    <3> QED BY <3>1, <3>2, <3>3
  <2>2. life' \in [Pids -> {"none", "live", "stopped", "zombie", "gone"}]
    OBVIOUS
  <2>3. \A i \in Slots : in_use'[i] => in_use[i]
    OBVIOUS
  <2>4. \A i \in Slots : in_use[i] /\ pid[i] = NoPid => pc' = "pid"
    OBVIOUS
  <2> QED BY <2>1, <2>2, <2>3, <2>4
<1>2. (Current /\ PidsDiffer /\ Born /\ Left /\ Reserved /\ Freed)'
  OBVIOUS
<1>3. Listed'
  <2> SUFFICES ASSUME NEW d \in Pids, life'[d] \in {"live", "stopped", "zombie"}
               PROVE  Jobs(d)' # {} \/ (cur' = d /\ pc' \in Adding)
    OBVIOUS
  <2>1. d # c /\ life[d] = life'[d] /\ cur' = cur
    OBVIOUS
  <2>2. ASSUME NEW i \in Slots, in_use[i], pid[i] = d PROVE in_use'[i] /\ pid'[i] = d
    BY <2>1, <2>2
  <2>3. pc' # pc => pc \notin Adding
    OBVIOUS
  <2> QED BY <2>1, <2>2, <2>3
<1>4. (Grouped /\ Signalled /\ Reclaimed)'
  BY DEF Grouped, Reclaimed, Signalled
<1> QED BY <1>1, <1>2, <1>3, <1>4

LEMMA HandleStoppedInv ==
    ASSUME IInv, ~Over, NEW c \in Pids, handle_stopped(c)
    PROVE  IInv'
<1> USE DEF handle_stopped
<1>1. TableInv'
  OBVIOUS
<1>2. (Grouped /\ Signalled /\ Reclaimed)'
  BY DEF Grouped, Signalled, Reclaimed
<1> QED BY <1>1, <1>2

LEMMA StartInv ==
    ASSUME IInv, ~Over, NEW c \in Pids, Start(c)
    PROVE  IInv'
<1> USE DEF Start, Fork, Unborn
<1>1. TableInv'
  OBVIOUS
<1>2. (Grouped /\ Signalled /\ Reclaimed)'
  BY DEF Grouped, Signalled, Reclaimed
<1> QED BY <1>1, <1>2

LEMMA FindNextJobIdInv ==
    ASSUME IInv, ~Over, find_next_job_id
    PROVE  IInv'
<1> USE DEF find_next_job_id, Free
<1>1. TypeOK'
  <2>1. /\ in_use' = in_use \/ \E i \in Slots : in_use' = [in_use EXCEPT ![i] = TRUE]
        /\ id' \in Slots
    OBVIOUS
  <2>2. in_use' \in [Slots -> BOOLEAN]
    <3>1. ASSUME NEW i \in Slots, in_use' = [in_use EXCEPT ![i] = TRUE] PROVE in_use' \in [Slots -> BOOLEAN]
      BY ONLY TypeOK, <3>1, TableTypes DEF TypeOK
    <3> QED BY <2>1, <3>1
  <2>3. \A i \in Slots : in_use'[i] /\ pid'[i] = NoPid => pc' = "pid" /\ id' = i
    OBVIOUS
  <2> QED BY <2>1, <2>2, <2>3
<1>2. (Current /\ PidsDiffer /\ Born)'
  OBVIOUS
<1>3. (Left /\ Reserved)'
  OBVIOUS
<1>4. Freed'
  OBVIOUS
<1>5. Listed'
  OBVIOUS
<1>6. (Grouped /\ Signalled /\ Reclaimed)'
  BY DEF Grouped, Reclaimed, Signalled
<1> QED BY <1>1, <1>2, <1>3, <1>4, <1>5, <1>6

LEMMA RecordPidInv ==
    ASSUME IInv, ~Over, RecordPid
    PROVE  IInv'
<1> USE DEF RecordPid
<1>1. TypeOK'
  OBVIOUS
<1>2. Current'
  OBVIOUS
<1>3. PidsDiffer'
  OBVIOUS
<1>4. Born'
  OBVIOUS
<1>5. Left'
  OBVIOUS
<1>6. Reserved'
  OBVIOUS
<1>7. Freed'
  OBVIOUS
<1>8. Listed'
  OBVIOUS
<1>9. (Grouped /\ Signalled /\ Reclaimed)'
  BY DEF Grouped, Reclaimed, Signalled
<1> QED BY <1>1, <1>2, <1>3, <1>4, <1>5, <1>6, <1>7, <1>8, <1>9

LEMMA AllocateCommandInv ==
    ASSUME IInv, ~Over, allocate_command
    PROVE  IInv'
<1> USE DEF allocate_command, Prompt
<1>1. TypeOK'
  <2>1. 1 \in Slots
    OBVIOUS
  <2>2. command' \in [Slots -> {"null", "live", "freed"}]
    OBVIOUS
  <2>3. pc' \in {"give", "prompt"} /\ cur' \in Pids \cup {NoPid} /\ id' \in Slots /\ fg' \in BOOLEAN
    BY ONLY <2>1, TypeOK, allocate_command DEF TypeOK, allocate_command, Prompt
  <2> QED BY <2>2, <2>3
<1>2. (Current /\ PidsDiffer /\ Born)'
  OBVIOUS
<1>3. (Left /\ Reserved)'
  OBVIOUS
<1>4. Freed'
  OBVIOUS
<1>5. Listed'
  OBVIOUS
<1>6. (Grouped /\ Signalled)'
  BY DEF Grouped, Signalled
<1>7. Reclaimed'
  <2>1. CASE fg
    BY <2>1 DEF Reclaimed
  <2>2. CASE ~fg
    BY <2>2 DEF Reclaimed, Grouped
  <2> QED BY <2>1, <2>2
<1> QED BY <1>1, <1>2, <1>3, <1>4, <1>5, <1>6, <1>7

LEMMA GiveTerminalInv ==
    ASSUME IInv, ~Over, GiveTerminal
    PROVE  IInv'
<1> USE DEF GiveTerminal, tcsetpgrp, HasGroup
<1>1. TableInv'
  OBVIOUS
<1>2. (Grouped /\ Signalled /\ Reclaimed)'
  BY DEF Grouped, Signalled, Reclaimed
<1> QED BY <1>1, <1>2

LEMMA WaitForJobInv ==
    ASSUME IInv, ~Over, wait_for_job
    PROVE  IInv'
<1> USE DEF wait_for_job
<1>1. TypeOK'
  <2>1. life' = life \/ life' = [life EXCEPT ![cur] = "gone"]
    OBVIOUS
  <2>2. life' \in [Pids -> {"none", "live", "stopped", "zombie", "gone"}]
    BY ONLY TypeOK, <2>1 DEF TypeOK
  <2>3. reported' \subseteq Pids /\ pc' \in {"remove", "take"}
    OBVIOUS
  <2>4. \A i \in Slots : ~(in_use[i] /\ pid[i] = NoPid)
    OBVIOUS
  <2> QED BY <2>2, <2>3, <2>4
<1>2. Current'
  OBVIOUS
<1>3. PidsDiffer'
  OBVIOUS
<1>4. Born'
  OBVIOUS
<1>5. Left'
  <2>1. life'[cur] = life[cur] \/ life'[cur] = "gone"
    OBVIOUS
  <2>2. \A c \in Pids \ {cur} : life'[c] = life[c]
    OBVIOUS
  <2>3. pc' # "pid" /\ in_use' = in_use /\ pid' = pid
    OBVIOUS
  <2> SUFFICES ASSUME NEW i \in Slots, ~in_use[i], pid[i] # NoPid PROVE life'[pid[i]] = "gone"
    BY <2>3
  <2>4. pid[i] \in Pids /\ life[pid[i]] = "gone"
    OBVIOUS
  <2> QED BY <2>1, <2>2, <2>4
<1>6. Reserved'
  OBVIOUS
<1>7. Freed'
  OBVIOUS
<1>8. Listed'
  OBVIOUS
<1>9. (Grouped /\ Signalled /\ Reclaimed)'
  BY DEF Grouped, Reclaimed, Signalled
<1> QED BY <1>1, <1>2, <1>3, <1>4, <1>5, <1>6, <1>7, <1>8, <1>9

LEMMA WaitedInv ==
    ASSUME IInv, ~Over, Waited
    PROVE  IInv'
<1> USE DEF Waited, remove_job, Prompt
<1>1. TypeOK'
  <2>1. 1 \in Slots
    OBVIOUS
  <2>2. in_use' \in [Slots -> BOOLEAN] /\ command' \in [Slots -> {"null", "live", "freed"}]
    <3>1. (in_use' = in_use /\ command' = command) \/ \E i \in Slots : remove_job(i)
      OBVIOUS
    <3>2. CASE in_use' = in_use /\ command' = command
      BY <3>2
    <3>3. ASSUME NEW i \in Slots, remove_job(i)
          PROVE  in_use' \in [Slots -> BOOLEAN] /\ command' \in [Slots -> {"null", "live", "freed"}]
      BY ONLY TypeOK, <3>3, TableTypes DEF TypeOK, remove_job
    <3> QED BY <3>1, <3>2, <3>3
  <2>3. pid' = pid /\ \A i \in Slots : in_use'[i] => in_use[i]
    OBVIOUS
  <2> QED BY <2>1, <2>2, <2>3
<1>2. Current'
  OBVIOUS
<1>3. PidsDiffer'
  OBVIOUS
<1>4. Born'
  OBVIOUS
<1>5. Left'
  OBVIOUS
<1>6. Reserved'
  OBVIOUS
<1>7. Freed'
  OBVIOUS
<1>8. Listed'
  <2> SUFFICES ASSUME NEW d \in Pids, life[d] \in {"live", "stopped", "zombie"}, d # cur
               PROVE  Jobs(d)' # {}
    OBVIOUS
  <2>1. PICK i \in Slots : in_use[i] /\ pid[i] = d
    OBVIOUS
  <2>2. pid'[i] = d /\ in_use'[i]
    BY <2>1
  <2> QED BY <2>2
<1>9. (Grouped /\ Signalled /\ Reclaimed)'
  BY DEF Grouped, Reclaimed, Signalled
<1> QED BY <1>1, <1>2, <1>3, <1>4, <1>5, <1>6, <1>7, <1>8, <1>9

LEMMA MoveToForegroundInv ==
    ASSUME IInv, ~Over, NEW i \in Slots, move_to_foreground(i)
    PROVE  IInv'
<1> USE DEF move_to_foreground, tcsetpgrp, HasGroup
<1>1. TableInv'
  OBVIOUS
<1>2. (Grouped /\ Signalled /\ Reclaimed)'
  BY DEF Grouped, Signalled, Reclaimed
<1> QED BY <1>1, <1>2

LEMMA ResumeJobInv ==
    ASSUME IInv, ~Over, resume_job
    PROVE  IInv'
<1> USE DEF resume_job, Continued
<1>1. TableInv'
  OBVIOUS
<1>2. (Grouped /\ Signalled /\ Reclaimed)'
  BY DEF Grouped, Signalled, Reclaimed
<1> QED BY <1>1, <1>2

LEMMA MoveToBackgroundInv ==
    ASSUME IInv, ~Over, NEW i \in Slots, move_to_background(i)
    PROVE  IInv'
<1> USE DEF move_to_background, Continued
<1>1. TypeOK'
  OBVIOUS
<1>2. Current'
  OBVIOUS
<1>3. PidsDiffer'
  OBVIOUS
<1>4. Born'
  OBVIOUS
<1>5. Left'
  OBVIOUS
<1>6. Reserved'
  OBVIOUS
<1>7. Freed'
  OBVIOUS
<1>8. Listed'
  OBVIOUS
<1>9. (Grouped /\ Signalled /\ Reclaimed)'
  BY DEF Grouped, Reclaimed, Signalled
<1> QED BY <1>1, <1>2, <1>3, <1>4, <1>5, <1>6, <1>7, <1>8, <1>9

LEMMA ExecPipeInv ==
    ASSUME IInv, ~Over, NEW c \in Pids, exec_pipe(c)
    PROVE  IInv'
<1> USE DEF exec_pipe, Fork, Unborn
<1>1. TableInv'
  OBVIOUS
<1>2. (Grouped /\ Signalled /\ Reclaimed)'
  BY DEF Grouped, Signalled, Reclaimed
<1> QED BY <1>1, <1>2

LEMMA PipeWaitedInv ==
    ASSUME IInv, ~Over, PipeWaited
    PROVE  IInv'
<1> USE DEF PipeWaited, Prompt
<1>1. TypeOK'
  <2>1. 1 \in Slots
    OBVIOUS
  <2>2. life' \in [Pids -> {"none", "live", "stopped", "zombie", "gone"}]
    OBVIOUS
  <2>3. pc' \in {"pipe", "prompt"} /\ cur' \in Pids \cup {NoPid} /\ id' \in Slots /\ fg' \in BOOLEAN
    BY ONLY <2>1, TypeOK, PipeWaited DEF TypeOK, PipeWaited, Prompt
  <2>4. \A i \in Slots : ~(in_use[i] /\ pid[i] = NoPid)
    OBVIOUS
  <2> QED BY <2>2, <2>3, <2>4
<1>2. (Current /\ PidsDiffer /\ Born /\ Left /\ Reserved /\ Freed /\ Listed)'
  OBVIOUS
<1>3. (Grouped /\ Signalled /\ Reclaimed)'
  BY DEF Grouped, Reclaimed, Signalled
<1> QED BY <1>1, <1>2, <1>3

LEMMA HandleExitInv ==
    ASSUME IInv, ~Over, handle_exit
    PROVE  IInv'
<1> USE DEF handle_exit
<1>1. TableInv'
  OBVIOUS
<1>2. (Grouped /\ Signalled /\ Reclaimed)'
  BY DEF Grouped, Signalled, Reclaimed
<1> QED BY <1>1, <1>2

HIDE JobsAssumption DEF IInv, TableInv, TypeOK, Current, PidsDiffer, Born, Left, Reserved, Freed, DoubleFree,
    Listed, Jobs, Adding, Slots, Over, tableVars, mainVars, childVars

-----------------------------------------------------------------------------
LEMMA StepInv == IInv /\ [Next]_vars => IInv'
<1> SUFFICES ASSUME IInv, [Next]_vars PROVE IInv'
  OBVIOUS
<1>1. CASE UNCHANGED vars
  BY <1>1 DEF vars, tableVars, mainVars, childVars, IInv, TableInv, TypeOK, Current, PidsDiffer, Born, Left,
     Reserved, Freed, DoubleFree, Listed, Jobs, Grouped, Signalled, Reclaimed, Over
<1>2. ASSUME NEW c \in Pids, Child(c), ~Over PROVE IInv'
  BY <1>2, SetProcessGroupInv, TakeTerminalInv, TerminateInv, StopInv DEF Child
<1>3. ASSUME sigchld_handler, ~Over PROVE IInv'
  BY <1>3, InterruptInv, ReturnInv, ReapInv, HandleStoppedInv DEF sigchld_handler
<1>4. ASSUME Command, ~Over PROVE IInv'
  BY <1>4, StartInv, ExecPipeInv, MoveToForegroundInv, MoveToBackgroundInv, HandleExitInv DEF Command
<1>5. ASSUME Proceed, ~Over PROVE IInv'
  BY <1>5, FindNextJobIdInv, RecordPidInv, AllocateCommandInv, GiveTerminalInv, WaitForJobInv, WaitedInv,
     ResumeJobInv, PipeWaitedInv DEF Proceed
<1> QED BY <1>1, <1>2, <1>3, <1>4, <1>5 DEF Next

LEMMA Inductive == Spec => []IInv
BY InitInv, StepInv, PTL DEF Spec

-----------------------------------------------------------------------------
(* Every variable keeps its type: find_next_job_id, add_job and fg only    *)
(* ever use an index inside jobs, unless the table is full.                *)
THEOREM TypeCorrect == Spec => []TypeOK
<1>1. IInv => TypeOK
  BY DEF IInv, TableInv
<1> QED BY <1>1, Inductive, PTL

(* However many jobs are started, stopped, continued and terminated, and   *)
(* wherever the handler of SIGCHLD interrupts add_job and remove_job, a    *)
(* process started as a job is listed exactly once until it is reaped.     *)
THEOREM JobsStayListed == Spec => []LiveIsListed
<1>1. IInv => LiveIsListed
  <2> SUFFICES ASSUME IInv, NEW c \in Pids, life[c] \in {"live", "stopped", "zombie"}
               PROVE  \/ Cardinality(Jobs(c)) = 1
                      \/ /\ Jobs(c) = {} /\ cur = c
                         /\ pc \in {"find", "pid", "overflow", "firstWait", "pipeWait"}
    BY DEF LiveIsListed
  <2>1. CASE Jobs(c) = {}
    BY <2>1 DEF IInv, TableInv, Listed, Adding
  <2>2. ASSUME NEW i \in Jobs(c) PROVE Jobs(c) = {i}
    BY <2>2, JobsAssumption DEF IInv, TableInv, PidsDiffer, Jobs
  <2>3. ASSUME NEW i \in Jobs(c) PROVE Cardinality(Jobs(c)) = 1
    BY <2>2, FS_Singleton
  <2> QED BY <2>1, <2>3
<1> QED BY <1>1, Inductive, PTL

(* When the shell is at its prompt and no SIGCHLD is to be handled, the    *)
(* keyboard does not belong to a process that is gone, whichever of child, *)
(* shell and handler set the terminal's group last.                        *)
THEOREM KeyboardComesBack == Spec => []KeyboardNotLost
<1>1. IInv => KeyboardNotLost
  BY DEF IInv, TableInv, TypeOK, Current, Born, Grouped, Signalled, Reclaimed, Over, KeyboardNotLost
<1> QED BY <1>1, Inductive, PTL
=============================================================================
