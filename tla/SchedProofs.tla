------------------------------ MODULE SchedProofs ------------------------------
(***************************************************************************)
(* Proofs about p4's scheduler for a process table of any size: it is      *)
(* type-correct, no runnable process gets a priority that scheduler never  *)
(* looks at, no sleep outlasts its reason, and every process has a parent  *)
(* that can wait for it.                                                   *)
(***************************************************************************)
EXTENDS Sched, TLAPS

(* What a process that always runs ends up with, if it is as nice as can be. *)
MaxPriority == (MaxDispatches - 1) \div 2 + MaxNice

(* With the real numbers, at most 99960 dispatches in 100 ticks.           *)
SlowEnough == MaxPriority < Limit

(* What a process is charged for: the dispatches since the last            *)
(* update_priority and, from before, less than there can be in one Period. *)
Charged == \A p \in InUse :
    /\ cpu_ticks[p] < MaxDispatches + dispatches
    /\ priority[p] <= MaxPriority

(* Init has no parent, does not exit, and nobody is its own parent.        *)
InitLives ==
    /\ state[initproc] \notin {"UNUSED", "EMBRYO", "ZOMBIE"}
    /\ pc[initproc] # "exit"
    /\ ~killed[initproc]
    /\ parent[initproc] = NoProc
    /\ \A p \in InUse : parent[p] # p

(* A process in fork has a slot of its own in the making, which has no     *)
(* parent yet.                                                             *)
Embryos ==
    /\ \A p \in Slots : pc[p] = "fork" =>
          /\ state[p] \in {"RUNNING", "RUNNABLE"}
          /\ np[p] \in Slots /\ state[np[p]] = "EMBRYO"
    /\ \A p, q \in Slots : pc[p] = "fork" /\ pc[q] = "fork" /\ np[p] = np[q] => p = q
    /\ \A c \in Slots : state[c] \in {"UNUSED", "EMBRYO"} => parent[c] = NoProc

IInv ==
    /\ TypeOK
    /\ Charged
    /\ InitLives
    /\ Embryos
    /\ NoOrphans
    /\ SleepHasReason

(* What the proofs need to know of the constants.                          *)
LEMMA Constants ==
  /\ initproc \in Slots /\ NoProc \notin Slots
  /\ Started \subseteq Slots \ {initproc}
  /\ Period \in Nat \ {0} /\ Limit \in Nat /\ MaxNice \in Nat
  /\ MaxDispatches \in Nat \ {0}
  /\ Sleeps \subseteq Nat
  /\ MaxPriority \in Nat
  BY SchedAssumption DEF Slots, initproc, NoProc, MaxPriority

USE Constants DEF States, Points, procVars, prioVars, clockVars

-----------------------------------------------------------------------------
(* Arithmetic of the decay                                                 *)

(* Halving keeps what was less than twice the bound below the bound.       *)
LEMMA Halving ==
  ASSUME NEW n \in Nat, NEW d \in Nat \ {0}, n < 2 * d
  PROVE  n \div 2 \in Nat /\ n \div 2 <= d - 1
  OBVIOUS

(* The priority of what is at most the bound is at most that of the bound. *)
LEMMA HalvingGrows ==
  ASSUME NEW m \in Nat, NEW n \in Nat, m <= n
  PROVE  m \div 2 \in Nat /\ m \div 2 <= n \div 2
  OBVIOUS

-----------------------------------------------------------------------------
(* Each action keeps the invariant                                         *)

(* Nobody becomes an orphan where parents stay, and forks go on.           *)
LEMMA StillParented ==
  ASSUME NoOrphans,
         \A c \in InUse' :
            /\ c \in InUse /\ parent'[c] = parent[c]
            /\ state'[c] = "EMBRYO" <=> state[c] = "EMBRYO",
         \A c \in InUse' \ {initproc} : state[c] # "EMBRYO" =>
            parent[c] \in InUse' /\ (state'[parent[c]] = "ZOMBIE" => state[parent[c]] = "ZOMBIE"),
         \A p \in Slots : pc[p] = "fork" /\ state[p] \in {"RUNNING", "RUNNABLE"} =>
            pc'[p] = "fork" /\ np'[p] = np[p] /\ state'[p] \in {"RUNNING", "RUNNABLE"}
  PROVE  NoOrphans'
  <1>1. ASSUME NEW c \in InUse' \ {initproc}, state'[c] = "EMBRYO"
        PROVE  \E p \in Slots : pc'[p] = "fork" /\ np'[p] = c /\ state'[p] \in {"RUNNING", "RUNNABLE"}
    <2>1. PICK p \in Slots : pc[p] = "fork" /\ np[p] = c /\ state[p] \in {"RUNNING", "RUNNABLE"}
      BY <1>1 DEF NoOrphans
    <2> QED BY <2>1
  <1>2. ASSUME NEW c \in InUse' \ {initproc}, state'[c] # "EMBRYO"
        PROVE  parent'[c] \in InUse' /\ state'[parent'[c]] \notin {"ZOMBIE", "EMBRYO"}
    <2>1. parent'[c] = parent[c] /\ state[parent[c]] \notin {"ZOMBIE", "EMBRYO"}
      BY <1>2 DEF NoOrphans
    <2>2. parent[c] \in InUse'
      BY <1>2
    <2> QED BY <1>2, <2>1, <2>2
  <1> QED
    BY <1>1, <1>2 DEF NoOrphans

LEMMA InitIInv == Init => IInv
  <1> SUFFICES ASSUME Init PROVE IInv
    OBVIOUS
  <1>2. TypeOK
    BY DEF Init, TypeOK
  <1>4. Charged
    BY DEF Init, Charged, InUse
  <1>5. InitLives
    BY DEF Init, InitLives, InUse
  <1>8. Embryos
    BY DEF Init, Embryos
  <1>6. NoOrphans
    BY DEF Init, NoOrphans, InUse
  <1>7. SleepHasReason
    BY DEF Init, SleepHasReason, Children, Zombies, InUse
  <1> QED
    BY <1>2, <1>4, <1>5, <1>6, <1>7, <1>8 DEF IInv

LEMMA SchedulerIInv ==
  ASSUME IInv, NEW p \in Slots, scheduler(p)
  PROVE  IInv'
  <1>1. TypeOK'
    BY DEF IInv, scheduler, Selected, Idle, TypeOK
  <1>2. Charged'
    BY DEF IInv, scheduler, Selected, TypeOK, Charged, InUse
  <1>3. InitLives'
    BY DEF IInv, scheduler, Selected, TypeOK, InitLives, InUse
  <1>4. NoOrphans'
    BY DEF IInv, scheduler, Selected, TypeOK, NoOrphans, InUse
  <1>5. SleepHasReason'
    BY DEF IInv, scheduler, Selected, TypeOK, SleepHasReason, Children, Zombies, InUse
  <1>6. Embryos'
    BY DEF IInv, scheduler, Selected, TypeOK, Embryos
  <1> QED
    BY <1>1, <1>2, <1>3, <1>4, <1>5, <1>6 DEF IInv

(* update_priority, whenever it comes, leaves everyone below the bounds.   *)
LEMMA UpdateBounds ==
  ASSUME IInv, update_priority
  PROVE  /\ cpu_ticks' \in [Slots -> Nat] /\ priority' \in [Slots -> Nat]
         /\ \A p \in InUse : /\ cpu_ticks'[p] < MaxDispatches
                             /\ priority'[p] <= MaxPriority
  <1>1. ASSUME NEW p \in InUse
        PROVE  /\ decay(cpu_ticks[p]) \in Nat /\ decay(cpu_ticks[p]) <= MaxDispatches - 1
               /\ decay(cpu_ticks[p]) \div 2 + nice_value[p] \in Nat
               /\ decay(cpu_ticks[p]) \div 2 + nice_value[p]
                    <= MaxPriority
    <2>1. cpu_ticks[p] \in Nat /\ cpu_ticks[p] < 2 * MaxDispatches
      BY DEF IInv, TypeOK, Charged, InUse
    <2>2. decay(cpu_ticks[p]) \in Nat /\ decay(cpu_ticks[p]) <= MaxDispatches - 1
      BY <2>1, Halving DEF decay
    <2>3. /\ decay(cpu_ticks[p]) \div 2 \in Nat
          /\ decay(cpu_ticks[p]) \div 2 <= (MaxDispatches - 1) \div 2
      BY <2>2, HalvingGrows
    <2>4. nice_value[p] \in 0 .. MaxNice
      BY DEF IInv, TypeOK, InUse
    <2> QED
      BY <2>2, <2>3, <2>4 DEF MaxPriority
  <1>2. cpu_ticks \in [Slots -> Nat] /\ priority \in [Slots -> Nat] /\ InUse \subseteq Slots
    BY DEF IInv, TypeOK, InUse
  <1> QED
    BY <1>1, <1>2 DEF update_priority

LEMMA TimerIInv ==
  ASSUME IInv, Timer
  PROVE  IInv'
  <1>1. /\ cpu_ticks' \in [Slots -> Nat] /\ priority' \in [Slots -> Nat]
        /\ dispatches' \in 0 .. MaxDispatches
        /\ \A p \in InUse : /\ cpu_ticks'[p] < MaxDispatches + dispatches'
                            /\ priority'[p] <= MaxPriority
    <2>1. CASE update_priority
      BY <2>1, UpdateBounds DEF update_priority
    <2>2. CASE UNCHANGED <<cpu_ticks, priority, dispatches>>
      BY <2>2 DEF IInv, TypeOK, Charged
    <2> QED
      BY <2>1, <2>2 DEF Timer
  <1>2. left' \in [Slots -> Nat] /\ phase' \in 0 .. Period - 1
    BY DEF IInv, TypeOK, Timer
  <1>3. \A p \in Slots :
          /\ state'[p] \in States
          /\ state'[p] = state[p] \/ (state'[p] = "RUNNABLE" /\ state[p] \in {"SLEEPING", "RUNNING"})
          /\ state'[p] = "SLEEPING" => left'[p] # 0
          /\ pc'[p] \in Points
          /\ pc'[p] # pc[p] => state[p] = "RUNNING" /\ killed[p] /\ pc'[p] = "exit"
    BY DEF IInv, TypeOK, Timer, Due, Doomed
  <1>4. TypeOK'
    <2>1. state' \in [Slots -> States] /\ pc' \in [Slots -> Points]
      BY <1>3 DEF Timer
    <2>2. \A p, q \in Slots : state'[p] = "RUNNING" /\ state'[q] = "RUNNING" => p = q
      BY <1>3 DEF IInv, TypeOK
    <2> QED
      BY <1>1, <1>2, <2>1, <2>2 DEF IInv, TypeOK, Timer
  <1>5. InUse' = InUse
    BY <1>3 DEF InUse
  <1>6. Charged'
    BY <1>1, <1>5 DEF Charged
  <1>7. InitLives'
    BY <1>3, <1>5 DEF IInv, InitLives, Timer
  <1>8. NoOrphans'
    <2>1. \A c \in InUse : state'[c] = "EMBRYO" <=> state[c] = "EMBRYO"
      BY <1>3 DEF InUse
    <2>2. \A c \in InUse \ {initproc} : state[c] # "EMBRYO" =>
            parent[c] \in InUse /\ (state'[parent[c]] = "ZOMBIE" => state[parent[c]] = "ZOMBIE")
      BY <1>3 DEF IInv, NoOrphans, InUse
    <2>3. \A p \in Slots : pc[p] = "fork" /\ state[p] \in {"RUNNING", "RUNNABLE"} =>
            pc'[p] = "fork" /\ state'[p] \in {"RUNNING", "RUNNABLE"}
      BY DEF IInv, TypeOK, Timer, Due, Doomed
    <2>4. UNCHANGED <<parent, np>>
      BY DEF Timer
    <2> QED BY <1>5, <2>1, <2>2, <2>3, <2>4, StillParented DEF IInv
  <1>9. SleepHasReason'
    <2>1. \A p \in Slots : Children(p)' = Children(p) /\ Zombies(p)' = Zombies(p)
      BY <1>3, <1>5 DEF Children, Zombies, InUse, Timer
    <2>2. ASSUME NEW p \in Slots, state'[p] = "SLEEPING"
          PROVE  state[p] = "SLEEPING" /\ pc'[p] = pc[p] /\ left'[p] > 0
      <3>1. state[p] = "SLEEPING" /\ left'[p] # 0
        BY <1>3, <2>2
      <3>2. left'[p] \in Nat
        BY <1>2
      <3> QED
        BY <1>3, <3>1, <3>2
    <2>3. killed' = killed
      BY DEF Timer
    <2> QED
      BY <2>1, <2>2, <2>3 DEF IInv, SleepHasReason
  <1>10. Embryos'
    BY <1>3 DEF IInv, TypeOK, Timer, Embryos
  <1> QED
    BY <1>4, <1>6, <1>7, <1>8, <1>9, <1>10 DEF IInv

-----------------------------------------------------------------------------
LEMMA ForkIInv ==
  ASSUME IInv, NEW p \in Slots, fork(p)
  PROVE  IInv'
  <1>1. PICK c \in Slots \ InUse :
          /\ state' = [state EXCEPT ![c] = "EMBRYO"]
          /\ pc' = [pc EXCEPT ![c] = "user", ![p] = "fork"]
          /\ np' = [np EXCEPT ![p] = c]
          /\ nice_value' = [nice_value EXCEPT ![c] = 0]
          /\ cpu_ticks' = [cpu_ticks EXCEPT ![c] = 0]
          /\ priority' = [priority EXCEPT ![c] = 0]
    BY DEF fork
  <1>2. /\ state[p] = "RUNNING" /\ pc[p] = "user" /\ state[c] = "UNUSED" /\ c # p /\ c # initproc
        /\ parent[c] = NoProc /\ UNCHANGED <<parent, killed, left, clockVars>>
    BY <1>1 DEF fork, Enters, InUse, IInv, InitLives, Embryos
  <1>3. TypeOK'
    BY <1>1, <1>2 DEF IInv, TypeOK
  <1>4. InUse' = InUse \cup {c} /\ p \in InUse
    BY <1>1, <1>2 DEF IInv, TypeOK, InUse
  <1>5. Charged'
    BY <1>1, <1>2, <1>4 DEF IInv, TypeOK, Charged, InUse
  <1>6. InitLives'
    BY <1>1, <1>2, <1>4 DEF IInv, TypeOK, InitLives, InUse
  <1>7. NoOrphans'
    <2>1. ASSUME NEW d \in InUse' \ {initproc}, state'[d] = "EMBRYO"
          PROVE  \E q \in Slots : pc'[q] = "fork" /\ np'[q] = d /\ state'[q] \in {"RUNNING", "RUNNABLE"}
      <3>1. CASE d = c
        BY <1>1, <1>2, <3>1 DEF IInv, TypeOK
      <3>2. CASE d # c
        <4>1. d \in InUse \ {initproc} /\ state[d] = "EMBRYO"
          BY <1>1, <1>4, <2>1, <3>2 DEF IInv, TypeOK, InUse
        <4>2. PICK q \in Slots : pc[q] = "fork" /\ np[q] = d /\ state[q] \in {"RUNNING", "RUNNABLE"}
          BY <4>1 DEF IInv, NoOrphans
        <4> QED BY <1>1, <1>2, <4>2 DEF IInv, TypeOK
      <3> QED BY <3>1, <3>2
    <2>2. ASSUME NEW d \in InUse' \ {initproc}, state'[d] # "EMBRYO"
          PROVE  parent'[d] \in InUse' /\ state'[parent'[d]] \notin {"ZOMBIE", "EMBRYO"}
      <3>1. d \in InUse \ {initproc} /\ state[d] # "EMBRYO"
        BY <1>1, <1>4, <2>2 DEF IInv, TypeOK, InUse
      <3>2. parent[d] \in InUse /\ state[parent[d]] \notin {"ZOMBIE", "EMBRYO"}
        BY <3>1 DEF IInv, NoOrphans
      <3> QED BY <1>1, <1>2, <1>4, <3>2 DEF IInv, TypeOK, InUse
    <2> QED BY <2>1, <2>2 DEF NoOrphans
  <1>8. SleepHasReason'
    BY <1>1, <1>2, <1>4 DEF IInv, TypeOK, SleepHasReason, Children, Zombies, InUse
  <1>9. Embryos'
    BY <1>1, <1>2 DEF IInv, TypeOK, Embryos
  <1> QED
    BY <1>3, <1>5, <1>6, <1>7, <1>8, <1>9 DEF IInv

LEMMA ForkChildIInv ==
  ASSUME IInv, NEW p \in Slots, forkChild(p)
  PROVE  IInv'
  <1>1. PICK c \in Slots : c = np[p] /\ state[c] = "EMBRYO"
    BY DEF forkChild, IInv, Embryos
  <1>2. /\ state[p] = "RUNNING" /\ pc[p] = "fork" /\ c # p /\ c # initproc
        /\ parent[c] = NoProc /\ UNCHANGED <<killed, prioVars, left, clockVars>>
        /\ np' = [np EXCEPT ![p] = NoProc]
    BY <1>1 DEF forkChild, IInv, InitLives, Embryos
  <1>3. /\ pc' \in [Slots -> Points] /\ pc'[p] \in {"exit", "user"}
        /\ pc'[p] = "exit" => killed[p]
        /\ \A q \in Slots \ {p} : pc'[q] = pc[q]
    BY DEF forkChild, Return, IInv, TypeOK
  <1>4. \A q \in Slots : pc[q] = "fork" /\ np[q] = c => q = p
    BY <1>1, <1>2 DEF IInv, Embryos
  <1>5. CASE /\ parent' = [parent EXCEPT ![c] = p]
             /\ state' = [state EXCEPT ![c] = "RUNNABLE"]
    <2>1. TypeOK'
      BY <1>1, <1>2, <1>3, <1>5 DEF IInv, TypeOK
    <2>2. InUse' = InUse /\ p \in InUse /\ c \in InUse
      BY <1>1, <1>2, <1>5 DEF IInv, TypeOK, InUse
    <2>3. Charged'
      BY <1>2, <2>2 DEF IInv, Charged
    <2>4. InitLives'
      BY <1>1, <1>2, <1>3, <1>5, <2>2 DEF IInv, TypeOK, InitLives, InUse
    <2>5. NoOrphans'
      <3>1. ASSUME NEW d \in InUse \ {initproc}, state'[d] = "EMBRYO"
            PROVE  \E q \in Slots : pc'[q] = "fork" /\ np'[q] = d /\ state'[q] \in {"RUNNING", "RUNNABLE"}
        <4>1. d # c /\ state[d] = "EMBRYO"
          BY <1>1, <1>5, <3>1 DEF IInv, TypeOK, InUse
        <4>2. PICK q \in Slots : pc[q] = "fork" /\ np[q] = d /\ state[q] \in {"RUNNING", "RUNNABLE"}
          BY <3>1, <4>1 DEF IInv, NoOrphans
        <4>3. q # p /\ q # c
          BY <1>1, <4>1, <4>2
        <4> QED BY <1>2, <1>3, <1>5, <4>2, <4>3 DEF IInv, TypeOK
      <3>2. ASSUME NEW d \in InUse \ {initproc}, state'[d] # "EMBRYO"
            PROVE  parent'[d] \in InUse /\ state'[parent'[d]] \notin {"ZOMBIE", "EMBRYO"}
        <4>1. CASE d = c
          BY <1>2, <1>5, <2>2, <4>1 DEF IInv, TypeOK, InUse
        <4>2. CASE d # c
          <5>1. parent[d] \in InUse /\ state[parent[d]] \notin {"ZOMBIE", "EMBRYO"}
            BY <1>5, <3>2, <4>2 DEF IInv, TypeOK, NoOrphans, InUse
          <5> QED BY <1>5, <4>2, <5>1 DEF IInv, TypeOK, InUse
        <4> QED BY <4>1, <4>2
      <3> QED BY <2>2, <3>1, <3>2 DEF NoOrphans
    <2>6. SleepHasReason'
      BY <1>1, <1>2, <1>3, <1>5, <2>2 DEF IInv, TypeOK, SleepHasReason, Children, Zombies, InUse
    <2>7. Embryos'
      BY <1>1, <1>2, <1>3, <1>4, <1>5 DEF IInv, TypeOK, Embryos
    <2> QED
      BY <2>1, <2>3, <2>4, <2>5, <2>6, <2>7 DEF IInv
  <1>6. CASE /\ state' = [state EXCEPT ![c] = "UNUSED"]
             /\ UNCHANGED parent
    <2>1. TypeOK'
      BY <1>1, <1>2, <1>3, <1>6 DEF IInv, TypeOK
    <2>2. InUse' = InUse \ {c}
      BY <1>1, <1>2, <1>6 DEF IInv, TypeOK, InUse
    <2>3. Charged'
      BY <1>2, <2>2 DEF IInv, Charged
    <2>4. InitLives'
      BY <1>1, <1>2, <1>3, <1>6, <2>2 DEF IInv, TypeOK, InitLives, InUse
    <2>5. NoOrphans'
      <3>1. ASSUME NEW d \in InUse' \ {initproc}, state'[d] = "EMBRYO"
            PROVE  \E q \in Slots : pc'[q] = "fork" /\ np'[q] = d /\ state'[q] \in {"RUNNING", "RUNNABLE"}
        <4>1. d # c /\ state[d] = "EMBRYO" /\ d \in InUse \ {initproc}
          BY <1>1, <1>6, <2>2, <3>1 DEF IInv, TypeOK, InUse
        <4>2. PICK q \in Slots : pc[q] = "fork" /\ np[q] = d /\ state[q] \in {"RUNNING", "RUNNABLE"}
          BY <4>1 DEF IInv, NoOrphans
        <4>3. q # p /\ q # c
          BY <1>1, <4>1, <4>2
        <4> QED BY <1>2, <1>3, <1>6, <4>2, <4>3 DEF IInv, TypeOK
      <3>2. ASSUME NEW d \in InUse' \ {initproc}, state'[d] # "EMBRYO"
            PROVE  parent'[d] \in InUse' /\ state'[parent'[d]] \notin {"ZOMBIE", "EMBRYO"}
        <4>1. d # c /\ d \in InUse \ {initproc} /\ state[d] # "EMBRYO"
          BY <1>6, <2>2, <3>2 DEF IInv, TypeOK, InUse
        <4>2. parent[d] \in InUse /\ state[parent[d]] \notin {"ZOMBIE", "EMBRYO"}
          BY <4>1 DEF IInv, NoOrphans
        <4> QED BY <1>1, <1>6, <2>2, <4>2 DEF IInv, TypeOK, InUse
      <3> QED BY <3>1, <3>2 DEF NoOrphans
    <2>6. SleepHasReason'
      <3>1. \A q \in Slots : c \notin Children(q)
        BY <1>2 DEF Children
      <3>2. \A q \in Slots : Children(q)' = Children(q) /\ Zombies(q)' = Zombies(q)
        BY <1>1, <1>6, <2>2, <3>1 DEF IInv, TypeOK, Children, Zombies, InUse
      <3>3. \A q \in Slots : state'[q] = "SLEEPING" => state[q] = "SLEEPING" /\ q # p
        BY <1>1, <1>2, <1>6 DEF IInv, TypeOK
      <3> QED BY <1>2, <1>3, <3>2, <3>3 DEF IInv, SleepHasReason
    <2>7. Embryos'
      BY <1>1, <1>2, <1>3, <1>4, <1>6 DEF IInv, TypeOK, Embryos
    <2> QED
      BY <2>1, <2>3, <2>4, <2>5, <2>6, <2>7 DEF IInv
  <1> QED
    BY <1>1, <1>5, <1>6 DEF forkChild

LEMMA NiceIInv ==
  ASSUME IInv, NEW p \in Slots, sys_nice(p)
  PROVE  IInv'
  <1>1. TypeOK'
    BY DEF IInv, TypeOK, sys_nice
  <1> QED
    BY <1>1 DEF IInv, sys_nice, Charged, InitLives, Embryos, NoOrphans, SleepHasReason,
       Children, Zombies, InUse

LEMMA KillIInv ==
  ASSUME IInv, NEW p \in Slots, kill(p)
  PROVE  IInv'
  <1>1. PICK q \in Slots \ {initproc} :
          /\ killed' = [killed EXCEPT ![q] = TRUE]
          /\ state' = [state EXCEPT ![q] = IF @ = "SLEEPING" THEN "RUNNABLE" ELSE @]
          /\ pc' = [pc EXCEPT ![p] = IF p = q THEN "exit" ELSE @]
    BY DEF kill
  <1>2. q \in Slots /\ q # initproc /\ UNCHANGED <<parent, prioVars, left, clockVars, np>>
    BY <1>1 DEF kill
  <1>3. TypeOK'
    BY <1>1, <1>2 DEF IInv, TypeOK
  <1>4. InUse' = InUse
    BY <1>1, <1>2 DEF IInv, TypeOK, InUse
  <1>5. Charged'
    BY <1>2, <1>4 DEF IInv, Charged
  <1>6. InitLives'
    BY <1>1, <1>2, <1>4 DEF IInv, TypeOK, InitLives
  <1>7. NoOrphans'
    <2>1. \A c \in Slots :
            state'[c] = state[c] \/ (state[c] = "SLEEPING" /\ state'[c] = "RUNNABLE")
      BY <1>1, <1>2 DEF IInv, TypeOK
    <2>2. \A c \in InUse : state'[c] = "EMBRYO" <=> state[c] = "EMBRYO"
      BY <2>1 DEF InUse
    <2>3. \A c \in InUse \ {initproc} : state[c] # "EMBRYO" =>
            parent[c] \in InUse /\ (state'[parent[c]] = "ZOMBIE" => state[parent[c]] = "ZOMBIE")
      BY <2>1 DEF IInv, NoOrphans, InUse
    <2>4. \A r \in Slots : pc[r] = "fork" /\ state[r] \in {"RUNNING", "RUNNABLE"} =>
            pc'[r] = "fork" /\ state'[r] \in {"RUNNING", "RUNNABLE"}
      BY <1>1, <2>1 DEF kill, Enters, IInv, TypeOK
    <2> QED BY <1>2, <1>4, <2>2, <2>3, <2>4, StillParented DEF IInv
  <1>8. SleepHasReason'
    <2>1. state[p] = "RUNNING"
      BY DEF kill, Enters
    <2> QED
      BY <1>1, <1>2, <1>4, <2>1 DEF IInv, TypeOK, SleepHasReason, Children, Zombies, InUse
  <1>9. Embryos'
    BY <1>1, <1>2 DEF kill, Enters, IInv, TypeOK, Embryos
  <1> QED
    BY <1>3, <1>5, <1>6, <1>7, <1>8, <1>9 DEF IInv

LEMMA SleepIInv ==
  ASSUME IInv, NEW p \in Slots, sys_sleep(p) \/ SleepAgain(p)
  PROVE  IInv'
  <1>1. /\ state[p] = "RUNNING"
        /\ state' \in [Slots -> States] /\ pc' \in [Slots -> Points] /\ left' \in [Slots -> Nat]
        /\ \A q \in Slots \ {p} : state'[q] = state[q] /\ pc'[q] = pc[q] /\ left'[q] = left[q]
        /\ \/ state'[p] = "RUNNING"
           \/ state'[p] = "SLEEPING" /\ pc'[p] = "sleep" /\ left'[p] > 0 /\ ~killed[p]
        /\ pc'[p] = "exit" => killed[p] \/ pc[p] = "exit"
        /\ pc[p] # "fork" /\ pc'[p] # "fork"
        /\ UNCHANGED <<parent, killed, prioVars, clockVars, np>>
    <2>1. CASE sys_sleep(p)
      BY <2>1 DEF IInv, TypeOK, sys_sleep, Enters
    <2>2. CASE SleepAgain(p)
      BY <2>2 DEF IInv, TypeOK, SleepAgain, Return
    <2> QED
      BY <2>1, <2>2
  <1>2. TypeOK'
    BY <1>1 DEF IInv, TypeOK
  <1>3. InUse' = InUse
    BY <1>1 DEF InUse
  <1>4. Charged' /\ NoOrphans'
    BY <1>1, <1>3 DEF IInv, Charged, NoOrphans, InUse
  <1>5. InitLives'
    BY <1>1, <1>3 DEF IInv, InitLives
  <1>6. SleepHasReason'
    BY <1>1, <1>3 DEF IInv, SleepHasReason, Children, Zombies, InUse
  <1>7. Embryos'
    BY <1>1 DEF IInv, TypeOK, Embryos
  <1> QED
    BY <1>2, <1>4, <1>5, <1>6, <1>7 DEF IInv

(* Going from user mode into exit or wait changes nothing else.            *)
LEMMA CallIInv ==
  ASSUME IInv, NEW p \in Slots, CallExit(p) \/ ExitKilled(p) \/ CallWait(p)
  PROVE  IInv'
  <1>1. /\ state[p] = "RUNNING" /\ pc[p] = "user"
        /\ \E point \in {"exit", "wait"} : pc' = [pc EXCEPT ![p] = point]
        /\ p = initproc => pc'[p] # "exit"
        /\ UNCHANGED <<state, parent, killed, prioVars, left, clockVars, np>>
    BY DEF IInv, TypeOK, InitLives, CallExit, ExitKilled, CallWait, Enters, Doomed
  <1>2. TypeOK'
    BY <1>1 DEF IInv, TypeOK
  <1>3. Charged' /\ InitLives'
    BY <1>1 DEF IInv, TypeOK, Charged, InitLives, InUse
  <1>5. NoOrphans'
    BY <1>1 DEF IInv, TypeOK, NoOrphans, InUse
  <1>6. Embryos'
    BY <1>1 DEF IInv, TypeOK, Embryos
  <1>4. SleepHasReason'
    BY <1>1 DEF IInv, TypeOK, SleepHasReason, Children, Zombies, InUse
  <1> QED
    BY <1>2, <1>3, <1>4, <1>5, <1>6 DEF IInv

LEMMA ExitIInv ==
  ASSUME IInv, NEW p \in Slots, exit(p)
  PROVE  IInv'
  <1>1. /\ state[p] = "RUNNING" /\ pc[p] = "exit" /\ p # initproc
        /\ UNCHANGED <<pc, killed, prioVars, left, clockVars, np>>
    BY DEF exit, IInv, InitLives
  <1>2. /\ state' \in [Slots -> States]
        /\ state'[p] = "ZOMBIE"
        /\ \A q \in Slots \ {p} :
              \/ state'[q] = state[q]
              \/ state[q] = "SLEEPING" /\ pc[q] = "wait" /\ state'[q] = "RUNNABLE"
        /\ \A q \in Slots \ {p} : q = parent[p] /\ pc[q] = "wait" => state'[q] # "SLEEPING"
        /\ (\E c \in Children(p) : state[c] = "ZOMBIE") /\ pc[initproc] = "wait" =>
              state'[initproc] # "SLEEPING"
    BY <1>1 DEF exit, Woken, IInv, TypeOK
  <1>3. /\ parent' \in [Slots -> Slots \cup {NoProc}]
        /\ \A q \in Slots : parent'[q] = IF q \in Children(p) THEN initproc ELSE parent[q]
    BY DEF exit, IInv, TypeOK
  <1>4. TypeOK'
    BY <1>1, <1>2, <1>3 DEF IInv, TypeOK
  <1>5. InUse' = InUse
    BY <1>1, <1>2 DEF InUse
  <1>6. Charged'
    BY <1>1, <1>5 DEF IInv, Charged
  <1>7. InitLives'
    BY <1>1, <1>2, <1>3, <1>5 DEF IInv, InitLives, Children, InUse
  <1>8. NoOrphans'
    BY <1>1, <1>2, <1>3, <1>5, <1>7 DEF IInv, InitLives, NoOrphans, Children, InUse
  <1>9. SleepHasReason'
    <2> SUFFICES ASSUME NEW q \in Slots, state'[q] = "SLEEPING"
                 PROVE  /\ ~killed'[q]
                        /\ pc'[q] = "sleep" => left'[q] > 0
                        /\ pc'[q] = "wait" => Children(q)' # {} /\ Zombies(q)' = {}
      BY DEF SleepHasReason
    <2>1. q # p /\ state[q] = "SLEEPING"
      BY <1>2
    <2>2. ASSUME pc[q] = "wait"
          PROVE  Children(q)' # {} /\ Zombies(q)' = {}
      <3>1. q # parent[p] /\ (q = initproc => \A c \in Children(p) : state[c] # "ZOMBIE")
        BY <1>2, <2>1, <2>2
      <3>2. /\ \E c \in InUse : parent[c] = q
            /\ \A c \in InUse : parent[c] = q => state[c] # "ZOMBIE"
        BY <2>1, <2>2 DEF IInv, SleepHasReason, Children, Zombies
      <3>3. \A c \in InUse : parent[c] = q => parent'[c] = q
        BY <1>3, <2>1 DEF Children, InUse
      <3>4. \A c \in InUse : parent'[c] = q =>
              parent[c] = q \/ (q = initproc /\ c \in Children(p))
        BY <1>3 DEF Children, InUse
      <3>5. p \in InUse /\ parent[p] # p /\ parent[p] # q
        BY <1>1, <3>1 DEF IInv, InitLives, InUse
      <3>6. p \notin Children(p)
        BY <3>5 DEF Children
      <3>7. \A c \in InUse : parent'[c] = q => c # p /\ state[c] # "ZOMBIE"
        BY <3>1, <3>2, <3>4, <3>5, <3>6
      <3>8. \A c \in InUse : parent'[c] = q => state'[c] # "ZOMBIE"
        BY <1>2, <3>7 DEF InUse
      <3> QED
        BY <1>5, <3>2, <3>3, <3>8 DEF Children, Zombies
    <2> QED
      BY <1>1, <2>1, <2>2 DEF IInv, SleepHasReason
  <1>10. Embryos'
    BY <1>1, <1>2, <1>3 DEF IInv, TypeOK, Embryos, Children, InUse
  <1> QED
    BY <1>4, <1>6, <1>7, <1>8, <1>9, <1>10 DEF IInv

LEMMA WaitIInv ==
  ASSUME IInv, NEW p \in Slots, wait(p)
  PROVE  IInv'
  <1>1. /\ state[p] = "RUNNING" /\ pc[p] = "wait"
        /\ UNCHANGED <<prioVars, left, clockVars, np>>
    BY DEF wait
  <1>2. CASE \E c \in Zombies(p) :
               /\ state' = [state EXCEPT ![c] = "UNUSED"]
               /\ parent' = [parent EXCEPT ![c] = NoProc]
               /\ killed' = [killed EXCEPT ![c] = FALSE]
               /\ Return(p)
    <2>1. PICK c \in Zombies(p) :
               /\ state' = [state EXCEPT ![c] = "UNUSED"]
               /\ parent' = [parent EXCEPT ![c] = NoProc]
               /\ killed' = [killed EXCEPT ![c] = FALSE]
               /\ Return(p)
      BY <1>2
    <2>2. c \in Slots /\ state[c] = "ZOMBIE" /\ parent[c] = p /\ c # p /\ c # initproc
      BY <1>1, <2>1 DEF Zombies, Children, InUse, IInv, InitLives
    <2>3. TypeOK'
      BY <1>1, <2>1, <2>2 DEF IInv, TypeOK, Return
    <2>4. InUse' = InUse \ {c}
      BY <2>1, <2>2 DEF InUse, IInv, TypeOK
    <2>5. Charged'
      BY <1>1, <2>4 DEF IInv, Charged
    <2>6. InitLives'
      BY <1>1, <2>1, <2>2, <2>4 DEF IInv, TypeOK, InitLives, Return, InUse
    <2>7. NoOrphans'
      <3>1. \A d \in InUse' : d \in InUse /\ parent'[d] = parent[d] /\ state'[d] = state[d]
        BY <2>1, <2>2, <2>4 DEF IInv, TypeOK, InUse
      <3>2. \A d \in InUse' \ {initproc} : state[d] # "EMBRYO" =>
              parent[d] \in InUse' /\ (state'[parent[d]] = "ZOMBIE" => state[parent[d]] = "ZOMBIE")
        BY <2>1, <2>2, <2>4 DEF IInv, TypeOK, NoOrphans, InUse
      <3>3. \A q \in Slots : pc[q] = "fork" /\ state[q] \in {"RUNNING", "RUNNABLE"} =>
              pc'[q] = "fork" /\ np'[q] = np[q] /\ state'[q] \in {"RUNNING", "RUNNABLE"}
        BY <1>1, <2>1, <2>2 DEF IInv, TypeOK, Return
      <3> QED BY <3>1, <3>2, <3>3, StillParented DEF IInv
    <2>8. SleepHasReason'
      BY <1>1, <2>1, <2>2, <2>4 DEF IInv, TypeOK, SleepHasReason, Children, Zombies, InUse, Return
    <2>9. Embryos'
      BY <1>1, <2>1, <2>2 DEF IInv, TypeOK, Embryos, Return
    <2> QED
      BY <2>3, <2>5, <2>6, <2>7, <2>8, <2>9 DEF IInv
  <1>3. CASE /\ Return(p)
             /\ UNCHANGED <<state, parent, killed>>
    <2>1. TypeOK'
      BY <1>1, <1>3 DEF IInv, TypeOK, Return
    <2>2. Charged' /\ InitLives' /\ NoOrphans'
      BY <1>1, <1>3 DEF IInv, TypeOK, Charged, InitLives, NoOrphans, InUse, Return
    <2>3. SleepHasReason'
      BY <1>1, <1>3 DEF IInv, TypeOK, SleepHasReason, Children, Zombies, InUse, Return
    <2>4. Embryos'
      BY <1>1, <1>3 DEF IInv, TypeOK, Embryos, Return
    <2> QED
      BY <2>1, <2>2, <2>3, <2>4 DEF IInv
  <1>4. CASE /\ Zombies(p) = {}
             /\ Children(p) # {} /\ ~killed[p]
             /\ state' = [state EXCEPT ![p] = "SLEEPING"]
             /\ UNCHANGED <<pc, parent, killed>>
    <2>1. TypeOK'
      BY <1>1, <1>4 DEF IInv, TypeOK
    <2>2. InUse' = InUse
      BY <1>1, <1>4 DEF InUse, IInv, TypeOK
    <2>3. Charged' /\ InitLives' /\ NoOrphans'
      BY <1>1, <1>4, <2>2 DEF IInv, TypeOK, Charged, InitLives, NoOrphans, InUse
    <2>4. SleepHasReason'
      BY <1>1, <1>4, <2>2 DEF IInv, TypeOK, SleepHasReason, Children, Zombies, InUse
    <2>5. Embryos'
      BY <1>1, <1>4 DEF IInv, TypeOK, Embryos
    <2> QED
      BY <2>1, <2>3, <2>4, <2>5 DEF IInv
  <1> QED
    BY <1>2, <1>3, <1>4 DEF wait

LEMMA StepIInv == IInv /\ [Next]_vars => IInv'
  <1> SUFFICES ASSUME IInv, [Next]_vars PROVE IInv'
    OBVIOUS
  <1>1. CASE UNCHANGED vars
    BY <1>1 DEF vars, IInv, TypeOK, Charged, InitLives, Embryos, NoOrphans, SleepHasReason,
       Children, Zombies, InUse
  <1>2. ASSUME NEW p \in Slots, scheduler(p) \/ InUser(p) \/ InKernel(p)
        PROVE  IInv'
    BY <1>2, SchedulerIInv, ForkIInv, ForkChildIInv, NiceIInv, KillIInv, SleepIInv, CallIInv, ExitIInv, WaitIInv
    DEF InUser, InKernel
  <1> QED
    BY <1>1, <1>2, TimerIInv DEF Next

(* The invariant is one: it holds of every behaviour of the scheduler.     *)
LEMMA Invariance == Spec => []IInv
  BY InitIInv, StepIInv, PTL DEF Spec

-----------------------------------------------------------------------------
(* Every variable has its type, and one process at most is running, for    *)
(* a process table of any size.                                            *)
THEOREM TypeCorrect == Spec => []TypeOK
  <1>1. IInv => TypeOK
    BY DEF IInv
  <1> QED
    BY Invariance, <1>1, PTL

(* If the CPU switches less often than twice what Limit leaves above the   *)
(* largest nice value, scheduler overlooks no runnable process.            *)
THEOREM NoneOverlooked ==
  ASSUME SlowEnough
  PROVE  Spec => []AlwaysSelectable
  <1>1. IInv => AlwaysSelectable
    BY SlowEnough DEF IInv, TypeOK, Charged, AlwaysSelectable, SlowEnough, InUse
  <1> QED
    BY Invariance, <1>1, PTL

(* A process that sleeps has something to sleep for, whoever is killed,    *)
(* exits or is handed over to init in the meantime.                        *)
THEOREM NoOversleeping == Spec => []SleepHasReason
  <1>1. IInv => SleepHasReason
    BY DEF IInv
  <1> QED
    BY Invariance, <1>1, PTL

(* Every process has a parent that can wait for it.                        *)
THEOREM NoOrphan == Spec => []NoOrphans
  <1>1. IInv => NoOrphans
    BY DEF IInv
  <1> QED
    BY Invariance, <1>1, PTL
=============================================================================
