----------------------------- MODULE XvLogProofs -----------------------------
(***************************************************************************)
(* Proofs about xv6's log for any number of processes and blocks: it is    *)
(* type-correct, it never overflows, no process sleeps for ever in         *)
(* begin_op for want of a wakeup, and it keeps AtomicDisk's promise.       *)
(***************************************************************************)
EXTENDS XvLog, FiniteSetTheorems, TLAPS

(* What the calls really write leaves a margin in what begin_op sets aside *)
(* for them: enough for a log on disk that is shorter than begin_op        *)
(* believes and for a test that also fails when nothing has to be added.   *)
RoomForAll ==
    /\ OpBlocks < MAXOPBLOCKS
    /\ LOGSIZE + OpBlocks < MAXOPBLOCKS + nlog - 1

(* Calls are in progress only between commits; a commit has emptied the    *)
(* log when it is done, and after it the log is empty until a call begins. *)
Phased ==
    /\ Open # {} => phase = "up"
    /\ committing <=> phase \in {"writeLog", "install", "done"}
    /\ phase = "done" => lh = <<>>
    /\ phase = "up" /\ Open = {} => lh = <<>>

(* The blocks that each call in progress may still add to the log.         *)
Credits == { c \in Open \X (1 .. MAXOPBLOCKS) : Cardinality(wrote[c[1]]) < c[2] }

(* The log has room for all of them.                                       *)
Room == Len(lh) + Cardinality(Credits) <= LOGSIZE

(* What a call in progress wrote is in the log, and is not more than calls *)
(* write; what it is writing is in a buffer.                               *)
Writing == \A p \in Procs :
    /\ wrote[p] \subseteq IF p \in Open THEN Logged ELSE {}
    /\ Cardinality(wrote[p]) <= OpBlocks
    /\ pc[p] = "logging" =>
          /\ blk[p] \in Blocks
          /\ cache[blk[p]] # NotCached
          /\ blk[p] \in wrote[p] \/ Cardinality(wrote[p]) < OpBlocks

(* What the log has still to write to disk is pinned in the cache.         *)
Pinned ==
    /\ \A b \in dirty : cache[b] # NotCached
    /\ phase \in {"up", "writeLog"} => Logged \subseteq dirty

IInv ==
    /\ TypeOK
    /\ Phased
    /\ Room
    /\ Writing
    /\ Pinned
    /\ SleeperIsWoken

USE XvLogAssumption DEF Points, Phases, diskVars

-----------------------------------------------------------------------------
(* Counting calls and what is set aside for them                           *)

(* A set of processes and what is set aside for them can be counted.       *)
LEMMA Counting ==
  ASSUME NEW P \in SUBSET Procs, NEW C \in SUBSET (P \X (1 .. MAXOPBLOCKS))
  PROVE  /\ IsFiniteSet(P) /\ Cardinality(P) \in Nat
         /\ IsFiniteSet(C) /\ Cardinality(C) \in Nat
         /\ Cardinality(C) <= Cardinality(P) * MAXOPBLOCKS
  <1>1. IsFiniteSet(P) /\ Cardinality(P) \in Nat
    BY FS_Subset, FS_CardinalityType
  <1>2. IsFiniteSet(1 .. MAXOPBLOCKS) /\ Cardinality(1 .. MAXOPBLOCKS) = MAXOPBLOCKS
    BY FS_Interval
  <1>3. /\ IsFiniteSet(P \X (1 .. MAXOPBLOCKS))
        /\ Cardinality(P \X (1 .. MAXOPBLOCKS)) = Cardinality(P) * MAXOPBLOCKS
    BY <1>1, <1>2, FS_Product
  <1>4. IsFiniteSet(C) /\ Cardinality(C) <= Cardinality(P \X (1 .. MAXOPBLOCKS))
    BY <1>3, FS_Subset
  <1>5. Cardinality(C) \in Nat
    BY <1>4, FS_CardinalityType
  <1> QED
    BY <1>1, <1>3, <1>4, <1>5

(* So can the calls in progress and their credits.                         *)
LEMMA Finite ==
  /\ IsFiniteSet(Open) /\ Cardinality(Open) \in Nat
  /\ IsFiniteSet(Credits) /\ Cardinality(Credits) \in Nat
  <1>1. Open \in SUBSET Procs /\ Credits \in SUBSET (Open \X (1 .. MAXOPBLOCKS))
    BY DEF Open, Credits
  <1> QED
    BY <1>1, Counting

(* What a process wrote can be counted.                                    *)
LEMMA WroteFinite ==
  ASSUME TypeOK, NEW p \in Procs
  PROVE  IsFiniteSet(wrote[p]) /\ Cardinality(wrote[p]) \in Nat
  <1>1. wrote[p] \in SUBSET Blocks
    BY DEF TypeOK
  <1> QED
    BY <1>1, FS_Subset, FS_CardinalityType

(* A call in progress still holds what it was given and did not use.       *)
LEMMA MarginHeld ==
  ASSUME IInv, NEW p \in Open
  PROVE  Len(lh) + MAXOPBLOCKS - OpBlocks <= LOGSIZE
  <1> DEFINE mine == {p} \X (OpBlocks + 1 .. MAXOPBLOCKS)
  <1>1. IsFiniteSet({p}) /\ Cardinality({p}) = 1
    BY FS_Singleton, Zenon
  <1>2. /\ IsFiniteSet(OpBlocks + 1 .. MAXOPBLOCKS)
        /\ Cardinality(OpBlocks + 1 .. MAXOPBLOCKS) = MAXOPBLOCKS - OpBlocks
    BY FS_Interval
  <1>3. IsFiniteSet(mine) /\ Cardinality(mine) = MAXOPBLOCKS - OpBlocks
    <2>1. /\ IsFiniteSet(mine)
          /\ Cardinality(mine) = Cardinality({p}) * Cardinality(OpBlocks + 1 .. MAXOPBLOCKS)
      BY <1>1, <1>2, FS_Product, Zenon
    <2> QED
      BY <1>1, <1>2, <2>1
  <1>4. p \in Procs /\ Cardinality(wrote[p]) <= OpBlocks /\ Cardinality(wrote[p]) \in Nat
    BY WroteFinite DEF IInv, Writing, Open
  <1>5. mine \in SUBSET Credits
    BY <1>4 DEF Credits
  <1>6. Cardinality(mine) <= Cardinality(Credits)
    BY <1>5, Finite, FS_Subset
  <1> QED
    BY <1>3, <1>6, Finite DEF IInv, Room, TypeOK

-----------------------------------------------------------------------------
(* The machine starts with everything empty.                               *)
LEMMA InitIInv == Init => IInv
  <1> SUFFICES ASSUME Init
               PROVE  IInv
    OBVIOUS
  <1>1. Open = {} /\ Credits = {}
    BY DEF Init, Open, Credits
  <1>2. Cardinality({}) = 0
    BY FS_EmptySet
  <1>4. outstanding = Cardinality(Open)
    BY <1>1, <1>2 DEF Init
  <1>5. TypeOK
    <2>1. /\ disk \in [Blocks -> Values] /\ logArea \in [1 .. LOGSIZE -> Values]
          /\ header \in Seq(Blocks) /\ Len(header) <= LOGSIZE
          /\ lh \in Seq(Blocks) /\ Len(lh) <= LOGSIZE /\ tail \in 0 .. Len(lh)
      BY DEF Init
    <2>2. /\ cache \in [Blocks -> Values \cup {NotCached}] /\ dirty \subseteq Blocks
          /\ outstanding \in Nat /\ committing \in BOOLEAN /\ phase \in Phases
          /\ pc \in [Procs -> Points] /\ blk \in [Procs -> Blocks \cup {NoBlock}]
          /\ wrote \in [Procs -> SUBSET Blocks] /\ panic \in BOOLEAN
      BY DEF Init
    <2> QED
      BY <1>4, <2>1, <2>2 DEF TypeOK
  <1>6. Phased /\ Room /\ Writing /\ Pinned /\ SleeperIsWoken
    BY <1>1, <1>2 DEF Init, Phased, Room, Writing, Pinned, SleeperIsWoken, Logged
  <1> QED
    BY <1>5, <1>6 DEF IInv

(* The machine may stop in any state.                                      *)
LEMMA CrashIInv ==
  ASSUME IInv, Crash
  PROVE  IInv'
  <1>1. Open' = {} /\ Credits' = {}
    BY DEF Crash, Boot, Open, Credits
  <1>2. Cardinality({}) = 0
    BY FS_EmptySet
  <1>4. outstanding' = Cardinality(Open)'
    BY <1>1, <1>2 DEF Crash, Boot
  <1>5. TypeOK'
    <2>1. /\ disk' \in [Blocks -> Values] /\ logArea' \in [1 .. LOGSIZE -> Values]
          /\ header' \in Seq(Blocks) /\ Len(header') <= LOGSIZE
          /\ lh' \in Seq(Blocks) /\ Len(lh') <= LOGSIZE /\ tail' \in 0 .. Len(lh')
      BY DEF Crash, Boot, IInv, TypeOK
    <2>2. /\ cache' \in [Blocks -> Values \cup {NotCached}] /\ dirty' \subseteq Blocks
          /\ outstanding' \in Nat /\ committing' \in BOOLEAN /\ phase' \in Phases
          /\ pc' \in [Procs -> Points] /\ blk' \in [Procs -> Blocks \cup {NoBlock}]
          /\ wrote' \in [Procs -> SUBSET Blocks] /\ panic' \in BOOLEAN
      BY DEF Crash, Boot, IInv, TypeOK
    <2> QED
      BY <1>4, <2>1, <2>2 DEF TypeOK
  <1>6. Phased' /\ Room' /\ Writing' /\ Pinned' /\ SleeperIsWoken'
    BY <1>1, <1>2 DEF Crash, Boot, Phased, Room, Writing, Pinned, SleeperIsWoken, Logged
  <1> QED
    BY <1>5, <1>6 DEF IInv

-----------------------------------------------------------------------------
(* Steps of begin_op                                                       *)

LEMMA BeginOpIInv ==
  ASSUME IInv, NEW p \in Procs, BeginOp(p)
  PROVE  IInv'
  <1>1. p \notin Open /\ Open' = Open \cup {p}
    BY DEF IInv, TypeOK, BeginOp, Goto, Open
  <1>2. Cardinality(Open') = Cardinality(Open) + 1
    BY <1>1, Finite, FS_AddElement
  <1>3. phase = "up" /\ ~committing
    BY DEF IInv, TypeOK, Phased, BeginOp, MayBegin, Runs, Booted
  <1>4. TypeOK'
    BY <1>2, Finite DEF IInv, TypeOK, BeginOp, Goto
  <1>5. Room'
    <2>1. Open' \in SUBSET Procs /\ Credits' \in SUBSET (Open' \X (1 .. MAXOPBLOCKS))
      BY DEF Open, Credits
    <2>2. Cardinality(Credits)' \in Nat
          /\ Cardinality(Credits)' <= Cardinality(Open)' * MAXOPBLOCKS
      BY <2>1, Counting
    <2>3. Len(lh) + Cardinality(Open') * MAXOPBLOCKS <= LOGSIZE /\ Len(lh) \in Nat
      BY <1>2 DEF IInv, TypeOK, BeginOp, MayBegin
    <2>4. Cardinality(Open') * MAXOPBLOCKS \in Nat
      BY <1>2, Finite
    <2> QED
      BY <2>2, <2>3, <2>4 DEF BeginOp, Room
  <1>6. Phased' /\ Pinned' /\ SleeperIsWoken'
    BY <1>1, <1>3 DEF IInv, TypeOK, Phased, Pinned, SleeperIsWoken, BeginOp, Goto, Logged
  <1>7. Writing'
    BY <1>1 DEF IInv, TypeOK, Writing, BeginOp, Goto, Logged
  <1> QED
    BY <1>4, <1>5, <1>6, <1>7 DEF IInv

(* Steps that leave the calls in progress and what they wrote alone leave  *)
(* their credits alone.                                                    *)
LEMMA SameCredits ==
  ASSUME Open' = Open, wrote' = wrote
  PROVE  Credits' = Credits
  BY DEF Credits

(* Without a call in progress nothing is set aside.                        *)
LEMMA NoCredits ==
  ASSUME Open = {}
  PROVE  Cardinality(Open) = 0 /\ Credits = {} /\ Cardinality(Credits) = 0
  BY FS_EmptySet DEF Credits

LEMMA BeginSleepsIInv ==
  ASSUME IInv, NEW p \in Procs, BeginSleeps(p)
  PROVE  IInv'
  <1>1. Open' = Open
    BY DEF IInv, TypeOK, BeginSleeps, Goto, Open
  <1>2. Credits' = Credits
    BY <1>1, SameCredits DEF BeginSleeps
  <1>3. Open # {} \/ committing
    <2> SUFFICES ASSUME Open = {}, ~committing
                 PROVE  FALSE
      OBVIOUS
    <2>1. lh = <<>> /\ outstanding = 0
      BY NoCredits DEF IInv, TypeOK, Phased, BeginSleeps, Runs, Booted
    <2> QED
      BY <2>1 DEF BeginSleeps, MayBegin
  <1>4. TypeOK'
    BY <1>1 DEF IInv, TypeOK, BeginSleeps, Goto
  <1>5. Phased' /\ Room' /\ Pinned' /\ SleeperIsWoken'
    BY <1>1, <1>2, <1>3 DEF IInv, Phased, Room, Pinned, SleeperIsWoken, BeginSleeps, Logged
  <1>6. Writing'
    BY <1>1 DEF IInv, TypeOK, Writing, BeginSleeps, Goto, Logged
  <1> QED
    BY <1>4, <1>5, <1>6 DEF IInv

LEMMA KillIInv ==
  ASSUME IInv, NEW p \in Procs, Kill(p)
  PROVE  IInv'
  <1>1. Open' = Open
    BY DEF IInv, TypeOK, Kill, Goto, Open
  <1>2. Credits' = Credits
    BY <1>1, SameCredits DEF Kill
  <1>3. TypeOK'
    BY <1>1 DEF IInv, TypeOK, Kill, Goto
  <1>4. Phased' /\ Room' /\ Pinned'
    BY <1>1, <1>2 DEF IInv, Phased, Room, Pinned, Kill, Logged
  <1>5. Writing' /\ SleeperIsWoken'
    BY <1>1 DEF IInv, TypeOK, Writing, SleeperIsWoken, Kill, Goto, Logged
  <1> QED
    BY <1>3, <1>4, <1>5 DEF IInv

-----------------------------------------------------------------------------
(* Steps of log_write                                                      *)

LEMMA ModifyIInv ==
  ASSUME IInv, NEW p \in Procs, NEW b \in Blocks, NEW v \in Values, Modify(p, b, v)
  PROVE  IInv'
  <1>1. Open' = Open
    BY DEF IInv, TypeOK, Modify, Goto, Open
  <1>2. Credits' = Credits
    BY <1>1, SameCredits DEF Modify
  <1>3. TypeOK'
    BY <1>1 DEF IInv, TypeOK, Modify, Goto
  <1>4. Phased' /\ Room'
    BY <1>1, <1>2 DEF IInv, Phased, Room, Modify
  <1>5. Pinned'
    BY DEF IInv, TypeOK, Pinned, Modify, Logged
  <1>6. SleeperIsWoken'
    BY <1>1 DEF IInv, TypeOK, SleeperIsWoken, Modify, Goto
  <1>7. Writing'
    BY <1>1 DEF IInv, TypeOK, Writing, Modify, Goto, Logged
  <1> QED
    BY <1>3, <1>4, <1>5, <1>6, <1>7 DEF IInv

LEMMA LogWriteIInv ==
  ASSUME IInv, NEW p \in Procs, LogWrite(p)
  PROVE  IInv'
  <1> DEFINE b == blk[p]
             n == Cardinality(wrote[p])
  <1>1. p \in Open /\ Open' = Open /\ b \in Blocks /\ phase = "up"
    BY DEF IInv, TypeOK, Phased, Writing, LogWrite, Goto, Open
  <1>2. /\ n \in Nat
        /\ Cardinality(wrote'[p]) = IF b \in wrote[p] THEN n ELSE n + 1
        /\ Cardinality(wrote'[p]) <= OpBlocks
    <2>1. wrote'[p] = wrote[p] \cup {b}
      BY DEF IInv, TypeOK, LogWrite
    <2>2. n \in Nat /\ Cardinality(wrote'[p]) = IF b \in wrote[p] THEN n ELSE n + 1
      BY <2>1, WroteFinite, FS_AddElement DEF IInv
    <2> QED
      BY <2>2 DEF IInv, Writing, LogWrite
  <1>3. \A q \in Procs \ {p} : wrote'[q] = wrote[q]
    BY DEF IInv, TypeOK, LogWrite
  <1>4. /\ lh' \in Seq(Blocks) /\ Logged' = Logged \cup {b}
        /\ Len(lh) \in Nat /\ Len(lh') = IF b \in Logged THEN Len(lh) ELSE Len(lh) + 1
    BY <1>1 DEF IInv, TypeOK, LogWrite, Logged
  <1>5. /\ Cardinality(Credits') \in Nat
        /\ Len(lh') + Cardinality(Credits') <= Len(lh) + Cardinality(Credits)
    <2>1. CASE b \in Logged
      <3>1. Credits' \in SUBSET Credits
        BY <1>1, <1>2, <1>3 DEF Credits, Open
      <3>2. Cardinality(Credits') <= Cardinality(Credits) /\ Cardinality(Credits') \in Nat
        BY <3>1, Finite, FS_Subset, FS_CardinalityType
      <3> QED
        BY <1>4, <2>1, <3>2, Finite
    <2>2. CASE b \notin Logged
      <3>1. b \notin wrote[p]
        BY <1>1, <2>2 DEF IInv, Writing
      <3>2. <<p, n + 1>> \in Credits
        BY <1>1, <1>2, <3>1 DEF Credits
      <3>3. Credits' \in SUBSET (Credits \ {<<p, n + 1>>})
        BY <1>1, <1>2, <1>3, <3>1 DEF Credits, Open
      <3>4. /\ IsFiniteSet(Credits \ {<<p, n + 1>>})
            /\ Cardinality(Credits \ {<<p, n + 1>>}) = Cardinality(Credits) - 1
        BY <3>2, Finite, FS_RemoveElement
      <3>5. Cardinality(Credits') <= Cardinality(Credits) - 1 /\ Cardinality(Credits') \in Nat
        BY <3>3, <3>4, FS_Subset, FS_CardinalityType
      <3> QED
        BY <1>4, <2>2, <3>5, Finite
    <2> QED
      BY <2>1, <2>2
  <1>6. Room'
    BY <1>4, <1>5, Finite DEF IInv, Room
  <1>7. TypeOK'
    <2>1. Len(lh') <= LOGSIZE /\ tail \in 0 .. Len(lh')
      BY <1>4, <1>5, <1>6 DEF IInv, TypeOK, Room
    <2> QED
      BY <1>1, <1>4, <2>1 DEF IInv, TypeOK, LogWrite, Goto
  <1>8. Phased' /\ SleeperIsWoken'
    BY <1>1 DEF IInv, TypeOK, Phased, SleeperIsWoken, LogWrite, Goto
  <1>9. Pinned'
    BY <1>1, <1>4 DEF IInv, TypeOK, Pinned, Writing, LogWrite, Open
  <1>10. Writing'
    <2>1. \A q \in Procs : Cardinality(wrote'[q]) <= OpBlocks
      BY <1>2, <1>3 DEF IInv, Writing
    <2>2. \A q \in Procs : wrote'[q] \subseteq IF q \in Open' THEN Logged' ELSE {}
      BY <1>1, <1>4 DEF IInv, TypeOK, Writing, LogWrite
    <2> QED
      BY <1>3, <2>1, <2>2 DEF IInv, TypeOK, Writing, LogWrite, Goto
  <1> QED
    BY <1>6, <1>7, <1>8, <1>9, <1>10 DEF IInv

-----------------------------------------------------------------------------
(* Steps of end_op and commit                                              *)

LEMMA EndOpIInv ==
  ASSUME IInv, NEW p \in Procs, EndOp(p)
  PROVE  IInv'
  <1>1. p \in Open /\ phase = "up" /\ ~committing
    BY DEF IInv, Phased, EndOp, Open
  <1>2. Open' = Open \ {p}
    BY DEF IInv, TypeOK, EndOp, Goto, Awake, Open
  <1>3. /\ Cardinality(Open') = outstanding - 1 /\ Cardinality(Open') \in Nat
        /\ outstanding = 1 => Open' = {}
    <2>1. IsFiniteSet(Open') /\ Cardinality(Open') = Cardinality(Open) - 1
      BY <1>1, <1>2, Finite, FS_RemoveElement
    <2>2. Cardinality(Open') = 0 => Open' = {}
      BY <2>1, FS_EmptySet
    <2> QED
      BY <2>1, <2>2, FS_CardinalityType DEF IInv, TypeOK
  <1>4. Cardinality(Credits') <= Cardinality(Credits) /\ Cardinality(Credits') \in Nat
    <2>1. \A q \in Procs \ {p} : wrote'[q] = wrote[q]
      BY DEF IInv, TypeOK, EndOp
    <2>2. Credits' \in SUBSET Credits
      BY <1>2, <2>1 DEF Credits, Open
    <2> QED
      BY <2>2, Finite, FS_Subset, FS_CardinalityType
  <1>5. TypeOK'
    BY <1>3 DEF IInv, TypeOK, EndOp, Goto, Awake
  <1>6. Room'
    BY <1>4, Finite DEF IInv, TypeOK, Room, EndOp
  <1>7. Phased'
    <2>1. CASE outstanding = 1
      BY <1>1, <1>3, <2>1 DEF IInv, Phased, EndOp
    <2>2. CASE outstanding # 1
      <3>1. Open' # {}
        <4>1. Open' = {} => Cardinality(Open') = 0
          BY FS_EmptySet, Zenon
        <4> QED
          BY <1>3, <2>2, <4>1 DEF IInv, TypeOK
      <3> QED
        BY <1>1, <2>2, <3>1 DEF IInv, Phased, EndOp
    <2> QED
      BY <2>1, <2>2
  <1>8. Pinned'
    BY <1>1 DEF IInv, Pinned, EndOp, Logged
  <1>9. SleeperIsWoken'
    BY DEF IInv, TypeOK, SleeperIsWoken, EndOp, Goto, Awake
  <1>10. Writing'
    <2>1. Cardinality({}) = 0 /\ wrote'[p] = {} /\ pc'[p] # "logging"
      BY FS_EmptySet DEF IInv, TypeOK, EndOp, Goto, Awake
    <2>2. \A q \in Procs \ {p} : wrote'[q] = wrote[q] /\ (pc'[q] = "logging" => pc[q] = "logging")
      BY DEF IInv, TypeOK, EndOp, Goto, Awake
    <2> QED
      BY <1>2, <2>1, <2>2 DEF IInv, Writing, EndOp, Logged
  <1> QED
    BY <1>5, <1>6, <1>7, <1>8, <1>9, <1>10 DEF IInv

(* While the log is being committed or recovered no call is in progress.   *)
LEMMA DiskStepIInv ==
  ASSUME IInv, WriteLog \/ WriteHead \/ InstallTrans \/ EraseLog \/ ReadHead
  PROVE  IInv'
  <1>1. Open = {} /\ Open' = {} /\ \A p \in Procs : pc[p] # "logging" /\ wrote[p] = {}
    BY DEF IInv, TypeOK, Phased, Writing, Open, WriteLog, WriteHead, InstallTrans,
           EraseLog, ReadHead
  <1>2. Credits' = Credits /\ Cardinality(Credits) = 0
    BY <1>1, SameCredits, NoCredits DEF WriteLog, WriteHead, InstallTrans, EraseLog, ReadHead
  <1>3. outstanding' = Cardinality(Open)' /\ UNCHANGED <<pc, wrote, blk, committing, panic, outstanding>>
    BY <1>1 DEF IInv, TypeOK, WriteLog, WriteHead, InstallTrans, EraseLog, ReadHead
  <1>4. TypeOK'
    <2>1. CASE WriteLog
      <3>1. tail + 1 \in 1 .. LOGSIZE /\ cache[lh[tail + 1]] \in Values
        BY <2>1 DEF IInv, TypeOK, Pinned, WriteLog, Logged
      <3> QED
        BY <1>3, <2>1, <3>1 DEF IInv, TypeOK, WriteLog
    <2>2. CASE WriteHead
      BY <1>3, <2>2 DEF IInv, TypeOK, WriteHead
    <2>3. CASE InstallTrans
      <3>1. tail + 1 \in 1 .. LOGSIZE /\ lh[tail + 1] \in Blocks
        BY <2>3 DEF IInv, TypeOK, InstallTrans
      <3> QED
        BY <1>3, <2>3, <3>1 DEF IInv, TypeOK, InstallTrans
    <2>4. CASE EraseLog
      <3>1. <<>> \in Seq(Blocks) /\ Len(<<>>) = 0
        OBVIOUS
      <3> QED
        BY <1>3, <2>4, <3>1 DEF IInv, TypeOK, EraseLog
    <2>5. CASE ReadHead
      BY <1>3, <2>5 DEF IInv, TypeOK, ReadHead
    <2> QED
      BY <2>1, <2>2, <2>3, <2>4, <2>5
  <1>5. Room'
    BY <1>2, <1>4 DEF Room, TypeOK
  <1>6. Phased'
    BY <1>1, <1>3 DEF IInv, TypeOK, Phased, WriteLog, WriteHead, InstallTrans, EraseLog, ReadHead
  <1>7. Pinned'
    BY DEF IInv, TypeOK, Phased, Pinned, WriteLog, WriteHead, InstallTrans, EraseLog,
           ReadHead, Logged
  <1>8. Writing' /\ SleeperIsWoken'
    BY <1>1, <1>3 DEF IInv, Writing, SleeperIsWoken
  <1> QED
    BY <1>4, <1>5, <1>6, <1>7, <1>8 DEF IInv

LEMMA CommitDoneIInv ==
  ASSUME IInv, NEW p \in Procs, CommitDone(p)
  PROVE  IInv'
  <1>1. Open' = Open /\ Open = {} /\ lh = <<>>
    BY DEF IInv, TypeOK, Phased, CommitDone, Awake, Open
  <1>2. Credits' = Credits
    BY <1>1, SameCredits DEF CommitDone
  <1>3. TypeOK'
    BY <1>1 DEF IInv, TypeOK, CommitDone, Awake
  <1>4. Phased' /\ Room' /\ Pinned'
    BY <1>1, <1>2 DEF IInv, Phased, Room, Pinned, CommitDone, Logged
  <1>5. Writing' /\ SleeperIsWoken'
    BY <1>1 DEF IInv, TypeOK, Writing, SleeperIsWoken, CommitDone, Awake, Logged
  <1> QED
    BY <1>3, <1>4, <1>5 DEF IInv

-----------------------------------------------------------------------------
(* Readers of the buffer cache                                             *)

LEMMA CacheIInv ==
  ASSUME IInv, NEW b \in Blocks, Bread(b) \/ Recycle(b)
  PROVE  IInv'
  <1>1. Open' = Open
    BY DEF Open, Bread, Recycle
  <1>2. Credits' = Credits
    BY <1>1, SameCredits DEF Bread, Recycle
  <1>3. TypeOK' /\ Phased' /\ Room' /\ SleeperIsWoken'
    BY <1>1, <1>2 DEF IInv, TypeOK, Phased, Room, SleeperIsWoken, Bread, Recycle
  <1>4. Pinned' /\ Writing'
    BY <1>1 DEF IInv, TypeOK, Pinned, Writing, Bread, Recycle, Logged
  <1> QED
    BY <1>3, <1>4 DEF IInv

-----------------------------------------------------------------------------
(* No step of any process or of the disk breaks the invariant.             *)
LEMMA StepIInv == IInv /\ [Next]_vars => IInv'
  <1> SUFFICES ASSUME IInv, [Next]_vars
               PROVE  IInv'
    OBVIOUS
  <1>1. CASE UNCHANGED vars
    <2>1. Open' = Open
      BY <1>1 DEF vars, Open
    <2>2. Credits' = Credits
      BY <1>1, <2>1, SameCredits DEF vars
    <2> QED
      BY <1>1, <2>1, <2>2 DEF vars, IInv, TypeOK, Phased, Room, Writing, Pinned,
         SleeperIsWoken, Logged
  <1>2. ASSUME NEW p \in Procs,
               \/ BeginOp(p) \/ BeginSleeps(p) \/ Kill(p)
               \/ LogWrite(p) \/ EndOp(p) \/ CommitDone(p)
               \/ \E b \in Blocks, v \in Values : Modify(p, b, v)
        PROVE  IInv'
    BY <1>2, BeginOpIInv, BeginSleepsIInv, KillIInv, LogWriteIInv, EndOpIInv, CommitDoneIInv, ModifyIInv
  <1>3. ASSUME WriteLog \/ WriteHead \/ InstallTrans \/ EraseLog \/ ReadHead
        PROVE  IInv'
    BY <1>3, DiskStepIInv
  <1>4. ASSUME NEW b \in Blocks, Bread(b) \/ Recycle(b)
        PROVE  IInv'
    BY <1>4, CacheIInv
  <1> QED
    BY <1>1, <1>2, <1>3, <1>4, CrashIInv DEF Next

(* The invariant is one: it holds of every behaviour of the log.           *)
LEMMA Invariance == Spec => []IInv
  BY InitIInv, StepIInv, PTL DEF Spec

(* The loops of commit and recovery stay within the log, the blocks they   *)
(* write are cached, and log.outstanding counts the calls in progress.     *)
THEOREM TypeCorrect == Spec => []TypeOK
  <1>1. IInv => TypeOK
    BY DEF IInv
  <1> QED
    BY Invariance, <1>1, PTL

(* A process that sleeps in begin_op has somebody to wake it.              *)
THEOREM NoSleeperForgotten == Spec => []SleeperIsWoken
  <1>1. IInv => SleeperIsWoken
    BY DEF IInv
  <1> QED
    BY Invariance, <1>1, PTL

(* If calls keep the margin, log_write never finds the log full, and the   *)
(* other assertions of log.c hold as well: the kernel does not panic.      *)
THEOREM NeverFull ==
  ASSUME RoomForAll
  PROVE  Spec => []NeverPanics
  <1>1. Init => NeverPanics
    BY DEF Init, NeverPanics
  <1>2. IInv /\ NeverPanics /\ [Next]_vars => NeverPanics'
    <2> SUFFICES ASSUME IInv, NeverPanics, [Next]_vars
                 PROVE  NeverPanics'
      OBVIOUS
    <2>1. ASSUME NEW p \in Procs, NEW b \in Blocks, NEW v \in Values, Modify(p, b, v)
          PROVE  NeverPanics'
      <3>1. p \in Open
        BY <2>1 DEF Modify, Open
      <3>2. outstanding >= 1
        BY <3>1, Finite, FS_EmptySet DEF IInv, TypeOK
      <3>3. Len(lh) + MAXOPBLOCKS - OpBlocks <= LOGSIZE /\ Len(lh) \in Nat
        BY <3>1, MarginHeld DEF IInv, TypeOK
      <3>4. ~LogIsFull
        BY <3>3, RoomForAll DEF LogIsFull, RoomForAll
      <3> QED
        BY <2>1, <3>2, <3>4 DEF IInv, TypeOK, Modify, NeverPanics
    <2>2. ASSUME NEW p \in Procs, EndOp(p)
          PROVE  NeverPanics'
      <3>1. ~committing
        BY <2>2 DEF IInv, Phased, EndOp, Open
      <3> QED
        BY <2>2, <3>1 DEF EndOp, NeverPanics
    <2> QED
      BY <2>1, <2>2 DEF Next, vars, NeverPanics, BeginOp, BeginSleeps, Kill, LogWrite, CommitDone,
         WriteLog, WriteHead, InstallTrans, EraseLog, Bread, Recycle, ReadHead, Crash, Boot
  <1> QED
    BY Invariance, <1>1, <1>2, PTL DEF Spec

-----------------------------------------------------------------------------
(* The log keeps AtomicDisk's promise, wherever the machine stops, again   *)
(* and again, in a commit or in the recovery from the crash before.        *)

Distinct(s) == \A j, k \in 1 .. Len(s) : s[j] = s[k] => j = k

(* The header on disk lists blocks only while they are installed.          *)
Headed ==
    /\ Distinct(lh) /\ Distinct(header)
    /\ phase \in {"up", "writeLog", "done"} => header = <<>>
    /\ phase \in {"install", "recover"} => header = lh
    /\ phase \in {"up", "done", "readHead"} => tail = 0

(* The blocks the log has still to install.                                *)
ToInstall == { lh[k] : k \in tail + 1 .. Len(lh) }

Dirt ==
    /\ phase \in {"up", "writeLog"} => dirty = Logged
    /\ phase = "install" => dirty = ToInstall
    /\ phase \in {"readHead", "recover", "done"} => dirty = {}

(* A buffer differs from its block only while it is modified or dirty.     *)
Clean ==
    /\ \A p \in Procs : blk[p] \in Blocks => pc[p] = "logging"
    /\ \A b \in Blocks :
         \/ cache[b] \in {NotCached, disk[b]}
         \/ b \in dirty
         \/ \E p \in Procs : blk[p] = b

(* How far the log on disk, the buffers and the disk agree.                *)
Copied ==
    /\ phase = "writeLog" => \A k \in 1 .. tail : logArea[k] = cache[lh[k]]
    /\ phase = "install" => \A k \in tail + 1 .. Len(lh) : logArea[k] = cache[lh[k]]
    /\ phase \in {"install", "recover"} => \A k \in 1 .. tail : disk[lh[k]] = logArea[k]

RInv == IInv /\ Headed /\ Dirt /\ Clean /\ Copied

-----------------------------------------------------------------------------
LEMMA EmptyIsDistinct == Distinct(<<>>)
BY DEF Distinct

LEMMA InitRInv == Init => RInv
<1> SUFFICES ASSUME Init PROVE RInv
  OBVIOUS
<1>1. Headed
  BY EmptyIsDistinct DEF Init, Headed
<1>2. Dirt /\ Clean /\ Copied
  BY XvLogAssumption DEF Init, Dirt, Clean, Copied
<1> QED BY <1>1, <1>2, InitIInv DEF RInv

(* A call in progress keeps every commit away. *)
LEMMA InCall ==
    ASSUME IInv, NEW p \in Procs, pc[p] \in {"op", "logging"}
    PROVE  phase = "up" /\ p \in Open
BY DEF IInv, Phased, Open

LEMMA BeginRInv ==
    ASSUME RInv, NEW p \in Procs, BeginOp(p) \/ BeginSleeps(p) \/ Kill(p) \/ CommitDone(p)
    PROVE  (Headed /\ Dirt /\ Clean /\ Copied)'
<1> USE DEF RInv, IInv, TypeOK, BeginOp, BeginSleeps, Kill, CommitDone, Goto, Awake, diskVars
<1>1. Headed'
  BY DEF Headed, Phased
<1>2. Dirt'
  <2>1. CASE BeginOp(p) \/ BeginSleeps(p) \/ Kill(p)
    <3>1. UNCHANGED <<dirty, lh, phase, tail>>
      BY <2>1
    <3>2. Logged' = Logged /\ ToInstall' = ToInstall
      BY ONLY <3>1 DEF Logged, ToInstall
    <3> QED BY ONLY RInv, <3>1, <3>2 DEF RInv, Dirt
  <2>2. CASE CommitDone(p)
    BY <2>2, SMTT(30) DEF Dirt, Headed, Logged, ToInstall, Pinned, Phased
  <2> QED BY <2>1, <2>2
<1>3. Clean'
  BY DEF Clean, Dirt, Pinned
<1>4. Copied'
  BY DEF Copied, Headed, Dirt, Pinned, Logged
<1> QED BY <1>1, <1>2, <1>3, <1>4

LEMMA ModifyRInv ==
    ASSUME RInv, NEW p \in Procs, NEW b \in Blocks, NEW v \in Values, Modify(p, b, v)
    PROVE  (Headed /\ Dirt /\ Clean /\ Copied)'
<1> USE DEF RInv, IInv, TypeOK, Modify, Goto, diskVars
<1>0. phase = "up" /\ v # NotCached
  BY InCall, XvLogAssumption
<1>1. Headed'
  BY <1>0 DEF Headed, Phased
<1>2. Dirt'
  BY <1>0 DEF Dirt, Headed, Logged, ToInstall, Pinned, Phased
<1>3. Clean'
  BY <1>0 DEF Clean, Dirt, Pinned
<1>4. Copied'
  BY <1>0 DEF Copied, Headed, Dirt, Pinned, Logged
<1> QED BY <1>1, <1>2, <1>3, <1>4

LEMMA LogWriteRInv ==
    ASSUME RInv, NEW p \in Procs, LogWrite(p)
    PROVE  (Headed /\ Dirt /\ Clean /\ Copied)'
<1> USE DEF RInv, IInv, TypeOK, LogWrite, Goto, diskVars
<1>0. phase = "up" /\ blk[p] \in Blocks
  BY InCall DEF Writing
<1>1. Headed'
  <2>1. Distinct(lh')
    <3>1. CASE blk[p] \in Logged
      BY <3>1 DEF Headed
    <3>2. CASE blk[p] \notin Logged
      <4>1. /\ lh' = Append(lh, blk[p]) /\ Len(lh') = Len(lh) + 1 /\ lh'[Len(lh) + 1] = blk[p]
            /\ \A k \in 1 .. Len(lh) : lh'[k] = lh[k] /\ lh[k] # blk[p]
        BY <1>0, <3>2 DEF Logged
      <4> QED BY <4>1 DEF Headed, Distinct
    <3> QED BY <3>1, <3>2
  <2> QED BY <1>0, <2>1 DEF Headed
<1>2. Dirt'
  BY <1>0 DEF Dirt, Headed, Logged, ToInstall, Pinned, Phased
<1>3. Clean'
  <2>1. \A q \in Procs : blk'[q] = IF q = p THEN NoBlock ELSE blk[q]
    BY <1>0
  <2>2. \A q \in Procs \ {p} : pc'[q] = pc[q]
    BY <1>0
  <2> QED BY <1>0, <2>1, <2>2, XvLogAssumption DEF Clean
<1>4. Copied'
  BY <1>0 DEF Copied, Headed, Dirt, Pinned, Logged
<1> QED BY <1>1, <1>2, <1>3, <1>4

LEMMA EndOpRInv ==
    ASSUME RInv, NEW p \in Procs, EndOp(p)
    PROVE  (Headed /\ Dirt /\ Clean /\ Copied)'
<1> USE DEF RInv, IInv, TypeOK, EndOp, Goto, Awake, diskVars
<1>0. phase = "up"
  BY InCall
<1>1. Headed'
  BY <1>0 DEF Headed, Phased
<1>2. Dirt'
  BY <1>0 DEF Dirt, Headed, Logged, ToInstall, Pinned, Phased
<1>3. Clean'
  BY <1>0 DEF Clean, Dirt, Pinned
<1>4. Copied'
  BY <1>0 DEF Copied, Headed, Dirt, Pinned, Logged
<1> QED BY <1>1, <1>2, <1>3, <1>4

LEMMA WriteLogRInv ==
    ASSUME RInv, WriteLog
    PROVE  (Headed /\ Dirt /\ Clean /\ Copied)'
<1> USE DEF RInv, IInv, TypeOK, WriteLog, diskVars
<1>0. \A p \in Procs : blk[p] \notin Blocks
  BY InCall DEF Clean
<1>1. Headed'
  BY <1>0 DEF Headed, Phased
<1>2. Dirt'
  BY <1>0 DEF Dirt, Headed, Logged, ToInstall, Pinned, Phased
<1>3. Clean'
  BY <1>0 DEF Clean, Dirt, Pinned
<1>4. Copied'
  <2>1. tail + 1 \in DOMAIN logArea
    BY XvLogAssumption
  <2>2. /\ logArea'[tail + 1] = cache[lh[tail + 1]]
        /\ \A k \in 1 .. tail : logArea'[k] = logArea[k]
    BY <2>1
  <2> QED BY <2>2 DEF Copied
<1> QED BY <1>1, <1>2, <1>3, <1>4

LEMMA WriteHeadRInv ==
    ASSUME RInv, WriteHead
    PROVE  (Headed /\ Dirt /\ Clean /\ Copied)'
<1> USE DEF RInv, IInv, TypeOK, WriteHead, diskVars
<1>0. \A p \in Procs : blk[p] \notin Blocks
  BY InCall DEF Clean
<1>1. Headed'
  BY <1>0 DEF Headed, Phased
<1>2. Dirt'
  BY <1>0 DEF Dirt, Headed, Logged, ToInstall, Pinned, Phased
<1>3. Clean'
  BY <1>0 DEF Clean, Dirt, Pinned
<1>4. Copied'
  BY <1>0 DEF Copied, Headed, Dirt, Pinned, Logged
<1> QED BY <1>1, <1>2, <1>3, <1>4

LEMMA InstallTransRInv ==
    ASSUME RInv, InstallTrans
    PROVE  (Headed /\ Dirt /\ Clean /\ Copied)'
<1> USE DEF RInv, IInv, TypeOK, InstallTrans, diskVars
<1>0. \A p \in Procs : blk[p] \notin Blocks
  BY InCall DEF Clean
<1>1. Headed'
  BY <1>0 DEF Headed, Phased
<1>2. Dirt'
  <2>1. tail + 1 \in 1 .. Len(lh) /\ tail' = tail + 1 /\ lh' = lh
    OBVIOUS
  <2>2. \A k \in 1 .. Len(lh) : lh[k] = lh[tail + 1] => k = tail + 1
    BY <2>1 DEF Headed, Distinct
  <2>3. ToInstall' = ToInstall \ {lh[tail + 1]}
    BY <2>1, <2>2 DEF ToInstall
  <2> QED BY <2>3 DEF Dirt
<1>3. Clean'
  BY <1>0 DEF Clean, Dirt, Pinned
<1>4. Copied'
  <2>1. tail + 1 \in 1 .. Len(lh) /\ tail' = tail + 1 /\ lh' = lh /\ lh[tail + 1] \in Blocks
    OBVIOUS
  <2>2. \A k \in 1 .. Len(lh) : lh[k] \in Blocks /\ (lh[k] = lh[tail + 1] => k = tail + 1)
    BY <2>1 DEF Headed, Distinct
  <2>3. /\ disk'[lh[tail + 1]] = logArea[tail + 1]
        /\ \A k \in 1 .. Len(lh) : k # tail + 1 => disk'[lh[k]] = disk[lh[k]] /\ cache'[lh[k]] = cache[lh[k]]
    BY <2>1, <2>2
  <2> QED BY <2>1, <2>3 DEF Copied
<1> QED BY <1>1, <1>2, <1>3, <1>4

LEMMA EraseLogRInv ==
    ASSUME RInv, EraseLog
    PROVE  (Headed /\ Dirt /\ Clean /\ Copied)'
<1> USE DEF RInv, IInv, TypeOK, EraseLog, diskVars
<1>0. \A p \in Procs : blk[p] \notin Blocks
  BY InCall DEF Clean
<1>1. Headed'
  BY <1>0, EmptyIsDistinct DEF Headed
<1>2. Dirt'
  BY <1>0 DEF Dirt, Headed, Logged, ToInstall, Pinned, Phased
<1>3. Clean'
  BY <1>0 DEF Clean, Dirt, Pinned
<1>4. Copied'
  BY <1>0 DEF Copied, Headed, Dirt, Pinned, Logged
<1> QED BY <1>1, <1>2, <1>3, <1>4

LEMMA ReadHeadRInv ==
    ASSUME RInv, ReadHead
    PROVE  (Headed /\ Dirt /\ Clean /\ Copied)'
<1> USE DEF RInv, IInv, TypeOK, ReadHead, diskVars
<1>0. \A p \in Procs : blk[p] \notin Blocks
  BY InCall DEF Clean
<1>1. Headed'
  BY <1>0 DEF Headed, Phased
<1>2. Dirt'
  BY <1>0 DEF Dirt, Headed, Logged, ToInstall, Pinned, Phased
<1>3. Clean'
  BY <1>0 DEF Clean, Dirt, Pinned
<1>4. Copied'
  BY <1>0 DEF Copied, Headed, Dirt, Pinned, Logged
<1> QED BY <1>1, <1>2, <1>3, <1>4

LEMMA CacheRInv ==
    ASSUME RInv, NEW b \in Blocks, Bread(b) \/ Recycle(b)
    PROVE  (Headed /\ Dirt /\ Clean /\ Copied)'
<1> USE DEF RInv, IInv, TypeOK, Bread, Recycle, diskVars, Booted
<1>0. /\ UNCHANGED <<disk, logArea, header, dirty, lh, phase, tail, pc, blk>>
      /\ cache'[b] \in {NotCached, disk[b]} /\ \A a \in Blocks \ {b} : cache'[a] = cache[a]
  OBVIOUS
<1>1. Headed' /\ Dirt'
  BY ONLY Headed, Dirt, <1>0 DEF Headed, Dirt, Logged, ToInstall, Distinct
<1>2. Clean'
  BY ONLY Clean, <1>0 DEF Clean
<1>3. Copied'
  <2>1. phase = "writeLog" => \A k \in 1 .. Len(lh) : cache'[lh[k]] = cache[lh[k]]
    BY DEF Pinned, Dirt, Logged
  <2>2. phase = "install" => \A k \in tail + 1 .. Len(lh) : cache'[lh[k]] = cache[lh[k]]
    BY DEF Pinned, Dirt, ToInstall
  <2>3. UNCHANGED <<phase, tail, lh, logArea, disk>>
    OBVIOUS
  <2> QED BY ONLY Copied, <2>1, <2>2, <2>3, TypeOK DEF Copied, TypeOK
<1> QED BY <1>1, <1>2, <1>3

LEMMA CrashRInv ==
    ASSUME RInv, Crash
    PROVE  (Headed /\ Dirt /\ Clean /\ Copied)'
<1> USE DEF RInv, IInv, TypeOK, Crash, Boot, diskVars
<1>1. Headed'
  BY EmptyIsDistinct DEF Headed
<1>2. Dirt'
  BY XvLogAssumption DEF Dirt, Headed, Logged, ToInstall, Pinned, Phased
<1>3. Clean'
  BY XvLogAssumption DEF Clean, Dirt, Pinned
<1>4. Copied'
  BY XvLogAssumption DEF Copied, Headed, Dirt, Pinned, Logged
<1> QED BY <1>1, <1>2, <1>3, <1>4

LEMMA StepRInv == RInv /\ [Next]_vars => RInv'
<1> SUFFICES ASSUME RInv, [Next]_vars PROVE RInv'
  OBVIOUS
<1>1. IInv'
  BY StepIInv DEF RInv
<1>2. CASE UNCHANGED vars
  BY <1>1, <1>2 DEF vars, RInv, Headed, Dirt, Clean, Copied, Distinct, Logged, ToInstall
<1>3. CASE Next
  BY <1>1, <1>3, BeginRInv, ModifyRInv, LogWriteRInv, EndOpRInv, WriteLogRInv, WriteHeadRInv,
     InstallTransRInv, EraseLogRInv, ReadHeadRInv, CacheRInv, CrashRInv DEF Next, RInv
<1> QED BY <1>2, <1>3

-----------------------------------------------------------------------------
(* What recovery makes of the disk.                                        *)

Listed(b) == \E k \in 1 .. Len(header) : header[k] = b

RecoveredIs ==
    /\ \A k \in 1 .. Len(header) : Recovered[header[k]] = logArea[k]
    /\ \A b \in Blocks : ~Listed(b) => Recovered[b] = disk[b]
    /\ Recovered = [b \in Blocks |-> Recovered[b]]

LEMMA Recovery == RInv => RecoveredIs
<1> SUFFICES ASSUME RInv PROVE RecoveredIs
  OBVIOUS
<1> USE DEF RInv, IInv, TypeOK
<1>1. DOMAIN header = 1 .. Len(header)
  OBVIOUS
<1>2. ASSUME NEW k \in 1 .. Len(header) PROVE Recovered[header[k]] = logArea[k]
  <2>1. k \in DOMAIN header /\ header[k] \in Blocks
    BY <1>2
  <2>2. (CHOOSE j \in DOMAIN header : header[j] = header[k]) = k
    BY <1>1, <1>2, <2>1 DEF Headed, Distinct
  <2> QED BY <2>1, <2>2 DEF Recovered
<1>3. ASSUME NEW b \in Blocks, ~Listed(b) PROVE Recovered[b] = disk[b]
  BY <1>1, <1>3 DEF Recovered, Listed
<1>4. Recovered = [b \in Blocks |-> Recovered[b]]
  BY DEF Recovered
<1> QED BY <1>2, <1>3, <1>4 DEF RecoveredIs

LEMMA RecoveryNext == RInv' => RecoveredIs'
BY Recovery, PTL

LEMMA RecoveredSame ==
    ASSUME UNCHANGED diskVars
    PROVE  Recovered' = Recovered
BY DEF Recovered, diskVars

(* Without a header the disk is as it would be recovered.                  *)
LEMMA NothingToRecover ==
    ASSUME RInv, header = <<>>
    PROVE  \A b \in Blocks : Recovered[b] = disk[b]
BY Recovery DEF RecoveredIs, Listed

-----------------------------------------------------------------------------
(* What each step is to AtomicDisk.                                        *)

LEMMA CurrentSame ==
    ASSUME UNCHANGED <<disk, cache, Recovered, Booted>>
    PROVE  Current' = Current
BY DEF Current, Contents

LEMMA BeginOpBegins ==
    ASSUME RInv, NEW p \in Procs, BeginOp(p)
    PROVE  Promise!Begin(p)
<1>1. p \notin Open /\ Open' = Open \cup {p}
  BY DEF RInv, IInv, TypeOK, BeginOp, Goto, Open
<1>2. UNCHANGED <<Recovered, Current>>
  BY RecoveredSame, CurrentSame DEF BeginOp, diskVars, Booted
<1> QED BY <1>1, <1>2 DEF Promise!Begin

LEMMA EndOpEnds ==
    ASSUME RInv, NEW p \in Procs, EndOp(p)
    PROVE  Promise!End(p)
<1>1. p \in Open /\ Open' = Open \ {p}
  BY DEF RInv, IInv, TypeOK, EndOp, Goto, Awake, Open
<1>2. Booted /\ Booted'
  BY InCall DEF RInv, EndOp, Booted
<1>3. UNCHANGED <<Recovered, Current>>
  BY <1>2, RecoveredSame, CurrentSame DEF EndOp, diskVars
<1> QED BY <1>1, <1>3 DEF Promise!End

LEMMA ModifyWrites ==
    ASSUME RInv, NEW p \in Procs, NEW b \in Blocks, NEW v \in Values, Modify(p, b, v)
    PROVE  Promise!Write(p, b, v)
<1>1. p \in Open /\ Open' = Open
  BY DEF RInv, IInv, TypeOK, Modify, Goto, Open
<1>2. Recovered' = Recovered
  BY RecoveredSame DEF Modify, diskVars
<1>3. Booted /\ Booted' /\ v # NotCached
  BY InCall, XvLogAssumption DEF RInv, Modify, Booted
<1>4. cache' = [cache EXCEPT ![b] = v] /\ disk' = disk /\ cache \in [Blocks -> Values \cup {NotCached}]
  BY DEF RInv, IInv, TypeOK, Modify, diskVars
<1>5. \A a \in Blocks : Contents(a)' = IF a = b THEN v ELSE Contents(a)
  BY <1>3, <1>4 DEF Contents
<1>6. Current' = [Current EXCEPT ![b] = v]
  BY <1>3, <1>5 DEF Current
<1> QED BY <1>1, <1>2, <1>6 DEF Promise!Write

(* write_head is the instant at which everything written so far becomes    *)
(* durable: the log on disk has what the buffers of its blocks have.       *)
LEMMA WriteHeadCommits ==
    ASSUME RInv, RInv', WriteHead
    PROVE  Promise!Commit
<1>1. Open = {} /\ Open' = Open
  BY DEF RInv, IInv, Phased, WriteHead, Open
<1>2. Booted /\ Booted' /\ UNCHANGED <<disk, cache, logArea>>
  BY DEF WriteHead, Booted
<1>3. Current' = Current
  BY <1>2 DEF Current, Contents
<1>4. ASSUME NEW b \in Blocks PROVE Recovered'[b] = Contents(b)
  <2>1. CASE b \in Logged
    <3>1. PICK k \in 1 .. Len(lh) : lh[k] = b
      BY <2>1 DEF Logged
    <3>2. header' = lh /\ logArea[k] = cache[b] /\ b \in dirty
      BY <2>1, <3>1 DEF RInv, Copied, Dirt, WriteHead
    <3>3. Recovered'[b] = logArea[k]
      BY <1>2, <3>1, <3>2, RecoveryNext DEF RecoveredIs
    <3>4. cache[b] # NotCached
      BY <3>2 DEF RInv, IInv, Pinned
    <3> QED BY <3>2, <3>3, <3>4 DEF Contents
  <2>2. CASE b \notin Logged
    <3>1. ~Listed(b)'
      BY <2>2 DEF Listed, Logged, WriteHead
    <3>2. Recovered'[b] = disk[b]
      BY <1>2, <3>1, RecoveryNext DEF RecoveredIs
    <3>3. b \notin dirty /\ \A p \in Procs : blk[p] # b
      BY <1>1, <2>2 DEF RInv, Dirt, Clean, WriteHead, Open
    <3>4. cache[b] \in {NotCached, disk[b]}
      BY <3>3 DEF RInv, Clean
    <3> QED BY <3>2, <3>4 DEF Contents
  <2> QED BY <2>1, <2>2
<1>5. Recovered' = [b \in Blocks |-> Recovered'[b]]
  BY RecoveryNext DEF RecoveredIs
<1>6. Recovered' = Current
  BY <1>2, <1>4, <1>5 DEF Current
<1> QED BY <1>1, <1>3, <1>6 DEF Promise!Commit

LEMMA CrashLoses ==
    ASSUME Crash
    PROVE  Promise!Crash
<1>1. Recovered' = Recovered /\ Open' = {}
  BY RecoveredSame DEF Crash, Boot, Open
<1>2. Current' = Recovered
  BY <1>1 DEF Crash, Boot, Current, Booted
<1> QED BY <1>1, <1>2 DEF Promise!Crash

-----------------------------------------------------------------------------
(* Steps that AtomicDisk does not see.                                     *)

LEMMA ProcessStutters ==
    ASSUME RInv, NEW p \in Procs, BeginSleeps(p) \/ Kill(p) \/ LogWrite(p) \/ CommitDone(p)
    PROVE  UNCHANGED <<Recovered, Current, Open>>
<1>1. Open' = Open
  BY DEF RInv, IInv, TypeOK, BeginSleeps, Kill, LogWrite, CommitDone, Goto, Awake, Open
<1>2. UNCHANGED <<diskVars, cache, Booted>>
  BY DEF BeginSleeps, Kill, LogWrite, CommitDone, Booted, diskVars
<1> QED BY <1>1, <1>2, RecoveredSame, CurrentSame DEF diskVars

(* Before write_head the log on disk means nothing.                        *)
LEMMA WriteLogStutters ==
    ASSUME RInv, RInv', WriteLog
    PROVE  UNCHANGED <<Recovered, Current, Open>>
<1>1. header = <<>> /\ UNCHANGED <<header, disk, cache, phase, pc>>
  BY DEF RInv, Headed, WriteLog
<1>2. Recovered' = Recovered
  BY <1>1 DEF Recovered
<1>3. UNCHANGED <<Current, Open>>
  BY <1>1, <1>2, CurrentSame DEF Booted, Open
<1> QED BY <1>2, <1>3

(* install_trans copies what recovery would copy, and buffers have it too. *)
LEMMA InstallTransStutters ==
    ASSUME RInv, RInv', InstallTrans
    PROVE  UNCHANGED <<Recovered, Current, Open>>
<1> DEFINE c == lh[tail + 1]
<1>1. /\ header = lh /\ tail + 1 \in 1 .. Len(lh) /\ c \in Blocks
      /\ UNCHANGED <<header, logArea, phase, pc>>
  BY DEF RInv, IInv, TypeOK, Headed, InstallTrans
<1>2. \A b \in Blocks \ {c} : disk'[b] = disk[b] /\ cache'[b] = cache[b]
  BY DEF RInv, IInv, TypeOK, InstallTrans
<1>3. Recovered' = Recovered
  <2>1. ASSUME NEW b \in Blocks PROVE Recovered'[b] = Recovered[b]
    <3>1. CASE Listed(b)
      BY <1>1, <3>1, Recovery, RecoveryNext DEF RecoveredIs, Listed
    <3>2. CASE ~Listed(b)
      <4>1. b # c /\ ~Listed(b)'
        BY <1>1, <3>2 DEF Listed
      <4> QED BY <1>2, <3>2, <4>1, Recovery, RecoveryNext DEF RecoveredIs
    <3> QED BY <3>1, <3>2
  <2> QED BY <2>1, Recovery, RecoveryNext DEF RecoveredIs
<1>4. Current' = Current
  <2>1. CASE phase = "recover"
    BY <1>1, <1>3, <2>1 DEF Current, Booted
  <2>2. CASE phase = "install"
    <3>1. cache[c] = logArea[tail + 1] /\ c \in dirty
      BY <1>1, <2>2 DEF RInv, IInv, TypeOK, Copied, Dirt, ToInstall
    <3>2. cache[c] # NotCached /\ cache'[c] = logArea[tail + 1]
      BY <1>1, <3>1 DEF RInv, IInv, TypeOK, Pinned, InstallTrans
    <3>3. \A b \in Blocks : Contents(b)' = Contents(b)
      BY <1>2, <3>1, <3>2 DEF Contents
    <3> QED BY <1>1, <2>2, <3>3 DEF Current, Booted
  <2> QED BY <2>1, <2>2 DEF InstallTrans
<1> QED BY <1>1, <1>3, <1>4 DEF Open

(* When all is installed the header may go.                                *)
LEMMA EraseLogStutters ==
    ASSUME RInv, RInv', EraseLog
    PROVE  UNCHANGED <<Recovered, Current, Open>>
<1>1. /\ header = lh /\ tail = Len(lh) /\ header' = <<>>
      /\ UNCHANGED <<disk, cache, logArea, pc>>
  BY DEF RInv, Headed, EraseLog
<1>2. \A b \in Blocks : Recovered[b] = disk[b]
  <2>1. \A k \in 1 .. Len(header) : disk[header[k]] = Recovered[header[k]]
    BY <1>1, Recovery DEF RInv, Copied, RecoveredIs, EraseLog
  <2> QED BY <2>1, Recovery DEF RecoveredIs, Listed
<1>3. \A b \in Blocks : Recovered'[b] = disk[b]
  BY <1>1, RecoveryNext DEF RecoveredIs, Listed
<1>4. Recovered' = Recovered
  BY <1>2, <1>3, Recovery, RecoveryNext DEF RecoveredIs
<1>5. Current' = Current
  <2>1. CASE phase = "install"
    BY <1>1, <2>1, <1>4, CurrentSame DEF EraseLog, Booted
  <2>2. CASE phase = "recover"
    <3>1. \A b \in Blocks : cache[b] \in {NotCached, disk[b]}
      BY <2>2, InCall DEF RInv, Dirt, Clean
    <3>2. \A b \in Blocks : Contents(b)' = Recovered[b]
      BY <1>1, <1>2, <3>1 DEF Contents
    <3> QED BY <1>1, <2>2, <3>2, Recovery DEF EraseLog, Current, Booted, RecoveredIs
  <2> QED BY <2>1, <2>2 DEF EraseLog
<1> QED BY <1>1, <1>4, <1>5 DEF Open

LEMMA CacheStutters ==
    ASSUME RInv, NEW b \in Blocks, Bread(b) \/ Recycle(b)
    PROVE  UNCHANGED <<Recovered, Current, Open>>
<1>1. UNCHANGED <<diskVars, pc, phase>>
  BY DEF Bread, Recycle
<1>2. cache[b] \in {NotCached, disk[b]} /\ cache'[b] \in {NotCached, disk[b]}
  BY DEF RInv, IInv, TypeOK, Clean, Bread, Recycle
<1>3. \A a \in Blocks : Contents(a)' = Contents(a)
  BY <1>1, <1>2 DEF RInv, IInv, TypeOK, Bread, Recycle, Contents, diskVars
<1>4. Recovered' = Recovered
  BY <1>1, RecoveredSame
<1>5. UNCHANGED <<Current, Open>>
  BY <1>1, <1>3, <1>4 DEF Current, Booted, Open
<1> QED BY <1>4, <1>5

LEMMA ReadHeadStutters ==
    ASSUME ReadHead
    PROVE  UNCHANGED <<Recovered, Current, Open>>
<1>1. UNCHANGED <<diskVars, cache, Booted, pc>>
  BY DEF ReadHead, Booted
<1> QED BY <1>1, RecoveredSame, CurrentSame DEF Open, diskVars

-----------------------------------------------------------------------------
LEMMA InitRefines == Init => Promise!Init
<1> SUFFICES ASSUME Init PROVE Promise!Init
  OBVIOUS
<1>1. Recovered = [b \in Blocks |-> Zero]
  <2>1. RInv /\ header = <<>>
    BY InitRInv DEF Init
  <2> QED BY <2>1, NothingToRecover, Recovery DEF Init, RecoveredIs
<1>2. Current = Recovered /\ Open = {}
  BY DEF Init, Current, Booted, Open
<1> QED BY <1>1, <1>2 DEF Promise!Init

LEMMA StepRefines == RInv /\ RInv' /\ [Next]_vars => [Promise!Next]_(Promise!vars)
<1> SUFFICES ASSUME RInv, RInv', [Next]_vars PROVE [Promise!Next]_(Promise!vars)
  OBVIOUS
<1> USE DEF Promise!vars
<1>1. ASSUME NEW p \in Procs,
             BeginOp(p) \/ EndOp(p) \/ \E b \in Blocks, v \in Values : Modify(p, b, v)
      PROVE  Promise!Next
  BY <1>1, BeginOpBegins, EndOpEnds, ModifyWrites DEF Promise!Next
<1>2. ASSUME NEW p \in Procs, BeginSleeps(p) \/ Kill(p) \/ LogWrite(p) \/ CommitDone(p)
      PROVE  UNCHANGED <<Recovered, Current, Open>>
  BY <1>2, ProcessStutters
<1>3. ASSUME WriteHead \/ Crash PROVE Promise!Next
  BY <1>3, WriteHeadCommits, CrashLoses DEF Promise!Next
<1>4. ASSUME WriteLog \/ InstallTrans \/ EraseLog \/ ReadHead \/ \E b \in Blocks : Bread(b) \/ Recycle(b)
      PROVE  UNCHANGED <<Recovered, Current, Open>>
  BY <1>4, WriteLogStutters, InstallTransStutters, EraseLogStutters, ReadHeadStutters, CacheStutters
<1>5. ASSUME UNCHANGED vars PROVE UNCHANGED <<Recovered, Current, Open>>
  BY <1>5 DEF vars, Recovered, Current, Contents, Booted, Open
<1> QED BY <1>1, <1>2, <1>3, <1>4, <1>5 DEF Next

(* The calls of any number of processes become durable in groups, all of a *)
(* call or nothing of it: begin_op, log_write, end_op, commit and          *)
(* recover_from_log look like AtomicDisk wherever the machine stops.       *)
THEOREM LogImplementsAtomicDisk == Spec => ImplementsAtomicDisk
<1> QED BY InitRInv, StepRInv, InitRefines, StepRefines, PTL DEF Spec, ImplementsAtomicDisk, Promise!Spec

(* After the last end_op of a group and its commit nothing of what was     *)
(* written is only in memory, and the log is empty for the next group.     *)
THEOREM QuietMeansDurable == Spec => []QuietIsDurable
<1>1. RInv => QuietIsDurable
  <2> SUFFICES ASSUME RInv, phase = "up", Open = {}
               PROVE  /\ \A b \in Blocks : Contents(b) = disk[b]
                      /\ dirty = {} /\ lh = <<>> /\ header = <<>>
    BY DEF QuietIsDurable
  <2>1. lh = <<>> /\ header = <<>> /\ dirty = {}
    BY DEF RInv, IInv, Phased, Headed, Dirt, Logged
  <2>2. \A b \in Blocks : cache[b] \in {NotCached, disk[b]}
    BY <2>1 DEF RInv, Clean, Open
  <2> QED BY <2>1, <2>2 DEF Contents
<1> QED BY <1>1, InitRInv, StepRInv, PTL DEF Spec
=============================================================================
