-------------------------- MODULE BufferCacheProofs --------------------------
(***************************************************************************)
(* Proofs about the buffer cache: for any number of processes, buffers and *)
(* blocks, each process gets the block it asked for and has it to itself,  *)
(* nobody sleeps forever for want of a wakeup, bget panics only when every *)
(* buffer is in use, and what is read is what was written last.            *)
(***************************************************************************)
EXTENDS BufferCache, FiniteSetTheorems, TLAPS

(* The processes that have buffer b or wait for it: what refcnt counts. *)
Users(b) == { p \in Procs : buf[p] = b }

Counts == \A b \in Buffers : refcnt[b] = Cardinality(Users(b))

(* A process between bget and brelse has a buffer, for the block it asked. *)
Asked ==
    \A p \in Procs :
        /\ pc[p] = "idle" <=> buf[p] = NoBuf
        /\ pc[p] # "idle" => want[p] \in Blocks /\ blockno[buf[p]] = want[p]

Holding == \A p \in Procs : Locks(p) => holder[buf[p]] = p

(* What a process sleeps on follows from where it is. *)
Channels ==
    \A p \in Procs : chan[p] # Awake =>
        \/ pc[p] = "lock" /\ chan[p] = OnLock(buf[p]) /\ holder[buf[p]] # NoProc
        \/ pc[p] = "wait" /\ chan[p] = OnDisk(buf[p])

(* The disk knows the buffer, or is done with it and has woken the process. *)
Waiting ==
    \A p \in Procs : pc[p] = "wait" =>
        \/ \E i \in 1 .. Len(idequeue) : idequeue[i] = buf[p]
        \/ valid[buf[p]] /\ ~dirty[buf[p]] /\ chan[p] = Awake

Queued == \A i \in 1 .. Len(idequeue) : blockno[idequeue[i]] # NoBlock

Contents == \A b \in Buffers : dirty[b] => data[b] \in Values /\ blockno[b] # NoBlock

IInv ==
    /\ TypeOK /\ Counts /\ Asked /\ Holding /\ OneBuffer
    /\ Channels /\ Waiting /\ Queued /\ Contents

-----------------------------------------------------------------------------
(* Facts about counting users and about channels.                          *)

LEMMA UsersFinite == \A b : IsFiniteSet(Users(b))
BY FS_Subset, BufferCacheAssumption DEF Users

(* A buffer with count 0 is nobody's. *)
LEMMA UnusedIsNobodys ==
    ASSUME Counts, NEW b \in Buffers, refcnt[b] = 0, NEW p \in Procs
    PROVE  buf[p] # b
<1>1. Users(b) = {}
  BY UsersFinite, FS_EmptySet DEF Counts
<1> QED BY <1>1 DEF Users

LEMMA ChannelsDiffer ==
    \A b, c : /\ OnLock(b) # Awake /\ OnDisk(b) # Awake /\ OnLock(b) # OnDisk(c)
              /\ (OnLock(b) = OnLock(c) => b = c) /\ (OnDisk(b) = OnDisk(c) => b = c)
BY DEF OnLock, OnDisk, Awake

LEMMA ChanTypes ==
    /\ Awake \in Chans
    /\ \A b \in Buffers : OnLock(b) \in Chans /\ OnDisk(b) \in Chans
BY DEF Chans

LEMMA WakeupType ==
    ASSUME TypeOK, NEW c
    PROVE  /\ wakeup(c) \in [Procs -> Chans]
           /\ \A p \in Procs : /\ wakeup(c)[p] # Awake => wakeup(c)[p] = chan[p] /\ chan[p] # c
                               /\ chan[p] = Awake => wakeup(c)[p] = Awake
BY ChanTypes DEF wakeup, TypeOK

LEMMA InitInv == Init => IInv
<1> SUFFICES ASSUME Init PROVE IInv
  OBVIOUS
<1> USE BufferCacheAssumption
<1>1. TypeOK
  <2>1. idequeue \in Seq(Buffers) /\ chan \in [Procs -> Chans]
    BY ChanTypes DEF Init
  <2>2. refcnt \in [Buffers -> Nat] /\ disk \in [Blocks -> Values]
    BY DEF Init
  <2> QED BY <2>1, <2>2 DEF Init, TypeOK
<1>2. Counts
  <2> SUFFICES ASSUME NEW b \in Buffers PROVE refcnt[b] = Cardinality(Users(b))
    BY DEF Counts
  <2>1. Users(b) = {}
    BY DEF Init, Users
  <2> QED BY <2>1, FS_EmptySet DEF Init
<1>3. Asked /\ Holding /\ OneBuffer /\ Contents
  BY DEF Init, Asked, Holding, OneBuffer, Contents, Locks
<1>4. Channels /\ Waiting /\ Queued
  BY DEF Init, Channels, Waiting, Queued
<1> QED BY <1>1, <1>2, <1>3, <1>4 DEF IInv

-----------------------------------------------------------------------------
(* bget *)

(* Who gets a buffer is one more user of it. *)
LEMMA OneMoreUser ==
    ASSUME IInv, NEW p \in Procs, pc[p] = "idle", NEW b \in Buffers,
           buf' = [buf EXCEPT ![p] = b],
           refcnt' = [refcnt EXCEPT ![b] = @ + 1]
    PROVE  refcnt' \in [Buffers -> Nat] /\ Counts'
<1>1. buf[p] = NoBuf /\ NoBuf \notin Buffers /\ buf \in [Procs -> Buffers \cup {NoBuf}]
  BY BufferCacheAssumption DEF IInv, Asked, TypeOK
<1>2. refcnt \in [Buffers -> Nat]
  BY DEF IInv, TypeOK
<1>3. ASSUME NEW c \in Buffers PROVE refcnt'[c] = Cardinality(Users(c)')
  <2>1. CASE c = b
    <3>1. Users(c)' = Users(c) \cup {p} /\ p \notin Users(c)
      BY <1>1, <2>1 DEF Users
    <3>2. Cardinality(Users(c)') = Cardinality(Users(c)) + 1
      BY <3>1, UsersFinite, FS_AddElement
    <3>3. refcnt[c] = Cardinality(Users(c)) /\ refcnt'[c] = refcnt[c] + 1
      BY <2>1, <1>2 DEF IInv, Counts
    <3> QED BY <3>2, <3>3
  <2>2. CASE c # b
    <3>1. Users(c)' = Users(c)
      BY <1>1, <2>2 DEF Users
    <3>2. refcnt[c] = Cardinality(Users(c)) /\ refcnt'[c] = refcnt[c]
      BY <2>2, <1>2 DEF IInv, Counts
    <3> QED BY <3>1, <3>2
  <2> QED BY <2>1, <2>2
<1> QED BY <1>2, <1>3 DEF Counts

LEMMA FoundInv ==
    ASSUME IInv, NEW p \in Procs, NEW n \in Blocks, bget(p, n), Found(p, n)
    PROVE  IInv'
<1> USE BufferCacheAssumption
<1>1. PICK b \in Cached(n) : /\ refcnt' = [refcnt EXCEPT ![b] = @ + 1]
                             /\ buf' = [buf EXCEPT ![p] = b]
  BY DEF Found
<1>2. b \in Buffers /\ blockno[b] = n
  BY DEF Cached
<1>3. /\ pc[p] = "idle" /\ pc' = [pc EXCEPT ![p] = "lock"] /\ want' = [want EXCEPT ![p] = n]
      /\ UNCHANGED <<blockno, valid, dirty, data, panicked, holder, idequeue, disk, chan>>
  BY DEF bget, Found, Goes
<1>4. refcnt' \in [Buffers -> Nat] /\ Counts'
  BY <1>1, <1>2, <1>3, OneMoreUser
<1>5. TypeOK'
  BY <1>1, <1>2, <1>3, <1>4 DEF IInv, TypeOK
<1>6. chan[p] = Awake
  BY <1>3 DEF IInv, Channels
<1>7. Asked'
  BY <1>1, <1>2, <1>3 DEF IInv, TypeOK, Asked
<1>8. Holding' /\ OneBuffer' /\ Contents' /\ Queued'
  <2>1. Holding'
    BY <1>1, <1>3, SMTT(30) DEF IInv, TypeOK, Holding, Locks
  <2>2. OneBuffer' /\ Contents' /\ Queued'
    BY <1>1, <1>3, SMTT(30) DEF IInv, TypeOK, Locks, OneBuffer, Contents, Queued
  <2> QED BY <2>1, <2>2
<1>9. Channels' /\ Waiting'
  <2>1. Channels'
    BY <1>1, <1>3, <1>6, SMTT(30) DEF IInv, TypeOK, Channels
  <2>2. Waiting'
    BY <1>1, <1>3, SMTT(30) DEF IInv, TypeOK, Waiting
  <2> QED BY <2>1, <2>2
<1> QED BY <1>4, <1>5, <1>7, <1>8, <1>9 DEF IInv

LEMMA RecycleInv ==
    ASSUME IInv, NEW p \in Procs, NEW n \in Blocks, bget(p, n), Recycle(p, n)
    PROVE  IInv'
<1> USE BufferCacheAssumption
<1>1. PICK b \in Recyclable :
        /\ blockno' = [blockno EXCEPT ![b] = n]
        /\ valid' = [valid EXCEPT ![b] = FALSE]
        /\ dirty' = [dirty EXCEPT ![b] = FALSE]
        /\ data' = [data EXCEPT ![b] = Stale]
        /\ refcnt' = [refcnt EXCEPT ![b] = 1]
        /\ buf' = [buf EXCEPT ![p] = b]
  BY DEF Recycle, Reuse
<1>2. b \in Buffers /\ refcnt[b] = 0
  BY <1>1 DEF Recyclable
<1>3. /\ pc[p] = "idle" /\ pc' = [pc EXCEPT ![p] = "lock"] /\ want' = [want EXCEPT ![p] = n]
      /\ UNCHANGED <<panicked, holder, idequeue, disk, chan>>
  BY DEF bget, Recycle, Reuse, Goes
<1>4. \A q \in Procs : buf[q] # b
  BY <1>2, UnusedIsNobodys DEF IInv
<1>5. \A c \in Buffers : blockno[c] # n
  BY DEF Recycle, Cached
<1>6. refcnt' \in [Buffers -> Nat] /\ Counts'
  <2>1. refcnt' = [refcnt EXCEPT ![b] = @ + 1]
    BY <1>1, <1>2 DEF IInv, TypeOK
  <2> QED BY <2>1, <1>1, <1>2, <1>3, OneMoreUser
<1>7. chan[p] = Awake
  BY <1>3 DEF IInv, Channels
<1>8. TypeOK'
  BY <1>1, <1>2, <1>3, <1>6 DEF IInv, TypeOK
<1>9. Asked'
  BY <1>1, <1>2, <1>3, <1>4 DEF IInv, TypeOK, Asked
<1>10. Holding'
  BY <1>1, <1>3 DEF IInv, TypeOK, Holding, Locks
<1>11. OneBuffer'
  BY <1>1, <1>2, <1>5 DEF IInv, TypeOK, OneBuffer
<1>12. Contents' /\ Queued'
  BY <1>1, <1>2, <1>3 DEF IInv, TypeOK, Contents, Queued
<1>13. Channels' /\ Waiting'
  BY <1>1, <1>3, <1>4, <1>7 DEF IInv, TypeOK, Channels, Waiting
<1> QED BY <1>6, <1>8, <1>9, <1>10, <1>11, <1>12, <1>13 DEF IInv

LEMMA NoBuffersInv ==
    ASSUME IInv, NEW p \in Procs, NEW n \in Blocks, bget(p, n), NoBuffers(n)
    PROVE  IInv'
<1>1. /\ pc[p] = "idle" /\ want' = [want EXCEPT ![p] = n] /\ panicked' = TRUE
      /\ UNCHANGED <<blockno, refcnt, valid, dirty, data, pc, buf, holder, idequeue, disk, chan>>
  BY DEF bget, NoBuffers, bufVars
<1>2. TypeOK' /\ Asked'
  BY <1>1 DEF IInv, TypeOK, Asked
<1>3. Counts' /\ Holding' /\ OneBuffer' /\ Channels' /\ Waiting' /\ Queued' /\ Contents'
  BY <1>1 DEF IInv, Counts, Users, Holding, Locks, OneBuffer, Channels, Waiting, Queued, Contents
<1> QED BY <1>2, <1>3 DEF IInv

-----------------------------------------------------------------------------
(* Locking and the disk *)

LEMMA AcquireInv ==
    ASSUME IInv, NEW p \in Procs, acquiresleep(p)
    PROVE  IInv'
<1> USE BufferCacheAssumption
<1>1. /\ pc[p] = "lock" /\ chan[p] = Awake /\ buf[p] \in Buffers
      /\ UNCHANGED <<blockno, refcnt, valid, dirty, data, idequeue, disk, want, buf, panicked>>
  BY DEF acquiresleep, bufVars, IInv, TypeOK, Asked
<1>2. Counts' /\ OneBuffer' /\ Queued' /\ Contents'
  BY <1>1 DEF IInv, Counts, Users, OneBuffer, Queued, Contents
<1>3. CASE /\ holder[buf[p]] # NoProc
           /\ chan' = [chan EXCEPT ![p] = OnLock(buf[p])]
           /\ UNCHANGED <<holder, pc>>
  <2>1. TypeOK'
    BY <1>1, <1>3, ChanTypes DEF IInv, TypeOK
  <2>2. Asked' /\ Holding' /\ Channels' /\ Waiting'
    BY <1>1, <1>3 DEF IInv, TypeOK, Asked, Holding, Locks, Channels, Waiting
  <2> QED BY <1>2, <2>1, <2>2 DEF IInv
<1>4. CASE /\ holder[buf[p]] = NoProc
           /\ holder' = [holder EXCEPT ![buf[p]] = p]
           /\ Goes(p, IF valid[buf[p]] THEN "held" ELSE "iderw")
           /\ UNCHANGED chan
  <2>1. PICK point \in {"held", "iderw"} : pc' = [pc EXCEPT ![p] = point]
    BY <1>4 DEF Goes
  <2>2. TypeOK'
    BY <1>1, <1>4, <2>1 DEF IInv, TypeOK
  <2>3. Asked' /\ Holding'
    BY <1>1, <1>4, <2>1 DEF IInv, TypeOK, Asked, Holding, Locks
  <2>4. Channels' /\ Waiting'
    BY <1>1, <1>4, <2>1 DEF IInv, TypeOK, Channels, Waiting
  <2> QED BY <1>2, <2>2, <2>3, <2>4 DEF IInv
<1> QED BY <1>3, <1>4 DEF acquiresleep

LEMMA IderwInv ==
    ASSUME IInv, NEW p \in Procs, iderw(p)
    PROVE  IInv'
<1> USE BufferCacheAssumption
<1>1. /\ pc[p] = "iderw" /\ buf[p] \in Buffers
      /\ idequeue' = Append(idequeue, buf[p]) /\ idequeue \in Seq(Buffers)
      /\ chan' = [chan EXCEPT ![p] = OnDisk(buf[p])]
      /\ pc' = [pc EXCEPT ![p] = "wait"]
      /\ UNCHANGED <<blockno, refcnt, valid, dirty, data, holder, disk, want, buf, panicked>>
  BY DEF iderw, bufVars, Goes, IInv, TypeOK, Asked
<1>2. /\ Len(idequeue') = Len(idequeue) + 1 /\ idequeue'[Len(idequeue) + 1] = buf[p]
      /\ \A i \in 1 .. Len(idequeue) : idequeue'[i] = idequeue[i]
      /\ Len(idequeue) \in Nat
  BY <1>1
<1>3. Counts' /\ OneBuffer' /\ Contents'
  BY <1>1 DEF IInv, Counts, Users, OneBuffer, Contents
<1>4. TypeOK'
  BY <1>1, ChanTypes DEF IInv, TypeOK
<1>5. Asked' /\ Holding' /\ Channels'
  BY <1>1 DEF IInv, TypeOK, Asked, Holding, Locks, Channels
<1>6. Waiting'
  <2> SUFFICES ASSUME NEW q \in Procs, pc'[q] = "wait"
               PROVE  \/ \E i \in 1 .. Len(idequeue') : idequeue'[i] = buf[q]
                      \/ valid[buf[q]] /\ ~dirty[buf[q]] /\ chan'[q] = Awake
    BY <1>1 DEF Waiting
  <2>1. CASE q = p
    BY <2>1, <1>2
  <2>2. CASE q # p
    <3>1. pc[q] = "wait" /\ chan'[q] = chan[q]
      BY <2>2, <1>1 DEF IInv, TypeOK
    <3>2. CASE \E i \in 1 .. Len(idequeue) : idequeue[i] = buf[q]
      BY <3>2, <1>2
    <3>3. CASE valid[buf[q]] /\ ~dirty[buf[q]] /\ chan[q] = Awake
      BY <3>1, <3>3
    <3> QED BY <3>1, <3>2, <3>3 DEF IInv, Waiting
  <2> QED BY <2>1, <2>2
<1>7. Queued'
  BY <1>1, <1>2 DEF IInv, TypeOK, Queued, Asked
<1> QED BY <1>3, <1>4, <1>5, <1>6, <1>7 DEF IInv

LEMMA WokenInv ==
    ASSUME IInv, NEW p \in Procs, Woken(p)
    PROVE  IInv'
<1> USE BufferCacheAssumption
<1>1. /\ pc[p] = "wait" /\ chan[p] = Awake /\ buf[p] \in Buffers
      /\ UNCHANGED <<blockno, refcnt, valid, dirty, data, holder, idequeue, disk, want, buf, panicked>>
  BY DEF Woken, bufVars, IInv, TypeOK, Asked
<1>2. Counts' /\ OneBuffer' /\ Contents' /\ Queued'
  BY <1>1 DEF IInv, Counts, Users, OneBuffer, Contents, Queued
<1>3. CASE pc' = [pc EXCEPT ![p] = "held"] /\ UNCHANGED chan
  <2>1. TypeOK'
    BY <1>1, <1>3 DEF IInv, TypeOK
  <2>2. Asked' /\ Holding' /\ Channels' /\ Waiting'
    BY <1>1, <1>3 DEF IInv, TypeOK, Asked, Holding, Locks, Channels, Waiting
  <2> QED BY <1>2, <2>1, <2>2 DEF IInv
<1>4. CASE /\ ~valid[buf[p]] \/ dirty[buf[p]]
           /\ chan' = [chan EXCEPT ![p] = OnDisk(buf[p])] /\ UNCHANGED pc
  <2>1. TypeOK'
    BY <1>1, <1>4, ChanTypes DEF IInv, TypeOK
  <2>2. Asked' /\ Holding' /\ Channels' /\ Waiting'
    BY <1>1, <1>4 DEF IInv, TypeOK, Asked, Holding, Locks, Channels, Waiting
  <2> QED BY <1>2, <2>1, <2>2 DEF IInv
<1> QED BY <1>3, <1>4 DEF Woken, Goes

LEMMA IdeintrInv ==
    ASSUME IInv, ideintr
    PROVE  IInv'
<1> USE BufferCacheAssumption
<1>0. PICK b : b = Head(idequeue)
  OBVIOUS
<1>1. idequeue # <<>> /\ idequeue \in Seq(Buffers)
  BY DEF ideintr, DiskDone, IInv, TypeOK
<1>2. /\ b \in Buffers /\ b = idequeue[1]
      /\ Len(idequeue) \in Nat \ {0} /\ Len(Tail(idequeue)) = Len(idequeue) - 1
      /\ \A i \in 1 .. Len(Tail(idequeue)) : Tail(idequeue)[i] = idequeue[i + 1]
      /\ Tail(idequeue) \in Seq(Buffers)
  BY <1>0, <1>1
<1>3. blockno[b] \in Blocks
  BY <1>2 DEF IInv, TypeOK, Queued
<1>4. /\ idequeue' = Tail(idequeue) /\ chan' = wakeup(OnDisk(b))
      /\ valid' = [valid EXCEPT ![b] = TRUE] /\ dirty' = [dirty EXCEPT ![b] = FALSE]
      /\ UNCHANGED <<blockno, refcnt, holder, pc, want, buf, panicked>>
  BY <1>0 DEF ideintr, DiskDone
<1>5. /\ dirty[b] => disk' = [disk EXCEPT ![blockno[b]] = data[b]] /\ data' = data
      /\ ~dirty[b] => data' = [data EXCEPT ![b] = disk[blockno[b]]] /\ disk' = disk
  BY <1>0 DEF ideintr, DiskDone
<1>12. /\ data \in [Buffers -> Values \cup {Stale}] /\ disk \in [Blocks -> Values]
       /\ dirty \in [Buffers -> BOOLEAN]
       /\ \A c \in Buffers : dirty[c] => data[c] \in Values /\ blockno[c] # NoBlock
  BY DEF IInv, TypeOK, Contents
<1>6. data' \in [Buffers -> Values \cup {Stale}] /\ disk' \in [Blocks -> Values] /\ Contents'
  <2>1. CASE dirty[b]
    <3>1. data' = data /\ disk' \in [Blocks -> Values]
      BY <2>1, <1>2, <1>3, <1>5, <1>12
    <3>2. Contents'
      BY <3>1, <1>4, <1>12 DEF Contents
    <3> QED BY <3>1, <3>2, <1>12
  <2>2. CASE ~dirty[b]
    <3>1. data' \in [Buffers -> Values \cup {Stale}] /\ disk' \in [Blocks -> Values]
      BY <2>2, <1>2, <1>3, <1>5, <1>12
    <3>2. ASSUME NEW c \in Buffers, dirty'[c] PROVE data'[c] \in Values /\ blockno'[c] # NoBlock
      <4>1. c # b /\ dirty[c]
        BY <3>2, <1>2, <1>4, <1>12
      <4> QED BY <4>1, <2>2, <1>2, <1>4, <1>5, <1>12
    <3> QED BY <3>1, <3>2 DEF Contents
  <2> QED BY <2>1, <2>2
<1>7. TypeOK'
  BY <1>2, <1>4, <1>6, WakeupType DEF IInv, TypeOK
<1>8. Counts' /\ OneBuffer' /\ Asked' /\ Holding'
  BY <1>4 DEF IInv, Counts, Users, OneBuffer, Asked, Holding, Locks
<1>9. Channels'
  BY <1>4, WakeupType DEF IInv, Channels
<1>10. Waiting'
  <2> SUFFICES ASSUME NEW p \in Procs, pc[p] = "wait"
               PROVE  \/ \E i \in 1 .. Len(idequeue') : idequeue'[i] = buf[p]
                      \/ valid'[buf[p]] /\ ~dirty'[buf[p]] /\ chan'[p] = Awake
    BY <1>4 DEF Waiting
  <2>1. buf[p] \in Buffers
    BY DEF IInv, TypeOK, Asked
  <2>2. CASE buf[p] = b
    <3>1. chan[p] \in {Awake, OnDisk(b)}
      BY <2>2 DEF IInv, Channels
    <3>2. chan'[p] = Awake
      BY <3>1, <1>4, WakeupType DEF IInv
    <3> QED BY <2>2, <3>2, <1>2, <1>4 DEF IInv, TypeOK
  <2>3. CASE buf[p] # b /\ \E i \in 1 .. Len(idequeue) : idequeue[i] = buf[p]
    <3>1. PICK i \in 1 .. Len(idequeue) : idequeue[i] = buf[p]
      BY <2>3
    <3>2. i - 1 \in 1 .. Len(Tail(idequeue)) /\ Tail(idequeue)[i - 1] = buf[p]
      BY <3>1, <2>3, <1>2
    <3> QED BY <3>2, <1>4
  <2>4. CASE buf[p] # b /\ valid[buf[p]] /\ ~dirty[buf[p]] /\ chan[p] = Awake
    <3>1. chan'[p] = Awake
      BY <2>4, <1>4, WakeupType DEF IInv
    <3> QED BY <3>1, <2>1, <2>4, <1>2, <1>4 DEF IInv, TypeOK
  <2> QED BY <2>2, <2>3, <2>4 DEF IInv, Waiting
<1>11. Queued'
  BY <1>2, <1>4 DEF IInv, Queued
<1> QED BY <1>6, <1>7, <1>8, <1>9, <1>10, <1>11 DEF IInv

-----------------------------------------------------------------------------
(* What callers do with a locked buffer *)

(* Whoever marks a buffer dirty holds it, so nobody else waits for it.     *)
LEMMA MarkedInv ==
    ASSUME IInv, NEW p \in Procs, NEW v \in Values, NEW point \in {"held", "iderw"},
           pc[p] = "held",
           data' = [data EXCEPT ![buf[p]] = v],
           dirty' = [dirty EXCEPT ![buf[p]] = TRUE],
           pc' = [pc EXCEPT ![p] = point],
           UNCHANGED <<blockno, refcnt, valid, holder, idequeue, disk, want, buf, chan, panicked>>
    PROVE  IInv'
<1>1. buf[p] \in Buffers
  BY DEF IInv, TypeOK, Asked
<1>2. TypeOK'
  BY <1>1 DEF IInv, TypeOK
<1>3. Counts' /\ OneBuffer' /\ Queued'
  BY DEF IInv, Counts, Users, OneBuffer, Queued
<1>4. Asked' /\ Holding' /\ Channels'
  BY <1>1 DEF IInv, TypeOK, Asked, Holding, Locks, Channels
<1>6. blockno[buf[p]] # NoBlock
  BY BufferCacheAssumption DEF IInv, Asked
<1>7. Contents'
  BY <1>1, <1>6 DEF IInv, TypeOK, Contents
<1>5. Waiting'
  <2> SUFFICES ASSUME NEW q \in Procs, pc'[q] = "wait"
               PROVE  \/ \E i \in 1 .. Len(idequeue) : idequeue[i] = buf[q]
                      \/ valid[buf[q]] /\ ~dirty'[buf[q]] /\ chan[q] = Awake
    BY DEF Waiting
  <2>1. q # p /\ pc[q] = "wait"
    BY DEF IInv, TypeOK
  <2>2. buf[q] # buf[p]
    BY <2>1 DEF IInv, Holding, Locks
  <2> QED BY <2>1, <2>2, <1>1 DEF IInv, TypeOK, Waiting
<1> QED BY <1>2, <1>3, <1>4, <1>5, <1>7 DEF IInv

LEMMA ReleaseInv ==
    ASSUME IInv, NEW p \in Procs, releasesleep(p)
    PROVE  IInv'
<1> USE BufferCacheAssumption
<1>1. /\ pc[p] = "held" /\ buf[p] \in Buffers
      /\ holder' = [holder EXCEPT ![buf[p]] = NoProc]
      /\ chan' = wakeup(OnLock(buf[p])) /\ pc' = [pc EXCEPT ![p] = "brelse"]
      /\ UNCHANGED <<blockno, refcnt, valid, dirty, data, idequeue, disk, want, buf, panicked>>
  BY DEF releasesleep, bufVars, Goes, IInv, TypeOK, Asked
<1>2. Counts' /\ OneBuffer' /\ Queued' /\ Contents'
  BY <1>1 DEF IInv, Counts, Users, OneBuffer, Queued, Contents
<1>3. TypeOK'
  BY <1>1, WakeupType DEF IInv, TypeOK
<1>4. Asked' /\ Holding'
  BY <1>1 DEF IInv, TypeOK, Asked, Holding, Locks
<1>5. Channels'
  <2> SUFFICES ASSUME NEW q \in Procs, chan'[q] # Awake
               PROVE  \/ pc'[q] = "lock" /\ chan'[q] = OnLock(buf[q]) /\ holder'[buf[q]] # NoProc
                      \/ pc'[q] = "wait" /\ chan'[q] = OnDisk(buf[q])
    BY <1>1 DEF Channels
  <2>1. chan'[q] = chan[q] /\ chan[q] # OnLock(buf[p]) /\ chan[q] # Awake
    BY <1>1, WakeupType DEF IInv
  <2>2. q # p
    BY <2>1, <1>1 DEF IInv, Channels
  <2> QED BY <2>1, <2>2, <1>1 DEF IInv, TypeOK, Channels
<1>6. Waiting'
  BY <1>1, WakeupType DEF IInv, TypeOK, Waiting
<1> QED BY <1>2, <1>3, <1>4, <1>5, <1>6 DEF IInv

LEMMA BrelseInv ==
    ASSUME IInv, NEW p \in Procs, brelse(p)
    PROVE  IInv'
<1> USE BufferCacheAssumption
<1>0. PICK b \in Buffers : b = buf[p]
  BY DEF brelse, IInv, TypeOK, Asked
<1>1. /\ pc[p] = "brelse" /\ b = buf[p] /\ chan[p] = Awake
      /\ refcnt' = [refcnt EXCEPT ![b] = @ - 1]
      /\ want' = [want EXCEPT ![p] = NoBlock] /\ buf' = [buf EXCEPT ![p] = NoBuf]
      /\ pc' = [pc EXCEPT ![p] = "idle"]
      /\ UNCHANGED <<blockno, valid, dirty, data, holder, idequeue, disk, chan, panicked>>
  BY <1>0 DEF brelse, Goes, IInv, Channels
<1>2. Users(b)' = Users(b) \ {p} /\ p \in Users(b)
  BY <1>1 DEF IInv, TypeOK, Users
<1>3. IsFiniteSet(Users(b)) /\ Cardinality(Users(b)) \in Nat
  BY <1>2, UsersFinite, FS_CardinalityType, FS_RemoveElement
<1>4. Cardinality(Users(b)') = Cardinality(Users(b)) - 1 /\ Cardinality(Users(b)') \in Nat
  <2>1. IsFiniteSet(Users(b) \ {p}) /\ Cardinality(Users(b) \ {p}) = Cardinality(Users(b)) - 1
    BY <1>2, <1>3, FS_RemoveElement
  <2> QED BY <1>2, <2>1, FS_CardinalityType
<1>5. refcnt' \in [Buffers -> Nat] /\ refcnt'[b] = Cardinality(Users(b)')
  BY <1>1, <1>4 DEF IInv, TypeOK, Counts
<1>6. Counts'
  <2> SUFFICES ASSUME NEW c \in Buffers, c # b PROVE refcnt'[c] = Cardinality(Users(c)')
    BY <1>5 DEF Counts
  <2>1. Users(c)' = Users(c)
    BY <1>1 DEF IInv, TypeOK, Users
  <2> QED BY <2>1, <1>1 DEF IInv, TypeOK, Counts
<1>7. TypeOK'
  BY <1>1, <1>5 DEF IInv, TypeOK
<1>8. Asked' /\ Holding' /\ OneBuffer' /\ Contents' /\ Queued'
  BY <1>1, SMTT(30) DEF IInv, TypeOK, Asked, Holding, Locks, OneBuffer, Contents, Queued
<1>9. Channels' /\ Waiting'
  <2>1. Channels'
    BY <1>1, SMTT(30) DEF IInv, TypeOK, Channels
  <2>2. Waiting'
    BY <1>1, SMTT(30) DEF IInv, TypeOK, Waiting
  <2> QED BY <2>1, <2>2
<1> QED BY <1>6, <1>7, <1>8, <1>9 DEF IInv

LEMMA NextInv ==
    ASSUME IInv, [Next]_vars
    PROVE  IInv'
<1>1. ASSUME NEW p \in Procs, NEW n \in Blocks, bget(p, n) PROVE IInv'
  BY <1>1, FoundInv, RecycleInv, NoBuffersInv DEF bget
<1>2. ASSUME NEW p \in Procs, Bread(p) PROVE IInv'
  BY <1>2, AcquireInv, IderwInv, WokenInv DEF Bread
<1>3. ASSUME NEW p \in Procs, NEW v \in Values, bwrite(p, v) PROVE IInv'
  <2>1. UNCHANGED <<blockno, refcnt, valid, holder, idequeue, disk, want, buf, chan, panicked>>
    BY <1>3 DEF bwrite
  <2> QED BY <1>3, <2>1, MarkedInv DEF bwrite, Goes
<1>4. ASSUME NEW p \in Procs, NEW v \in Values, log_write(p, v) PROVE IInv'
  <2>1. /\ pc[p] = "held" /\ pc' = [pc EXCEPT ![p] = "held"]
        /\ UNCHANGED <<blockno, refcnt, valid, holder, idequeue, disk, want, buf, chan, panicked>>
    BY <1>4 DEF log_write, procVars, IInv, TypeOK
  <2> QED BY <1>4, <2>1, MarkedInv DEF log_write
<1>5. CASE UNCHANGED vars
  BY <1>5 DEF vars, bufVars, procVars, IInv, TypeOK, Counts, Users, Asked, Holding, Locks,
              OneBuffer, Channels, Waiting, Queued, Contents
<1> QED BY <1>1, <1>2, <1>3, <1>4, <1>5, IdeintrInv, ReleaseInv, BrelseInv DEF Next, panic, Use

LEMMA Invariance == Spec => []IInv
BY InitInv, NextInv, PTL DEF Spec

(* Every step of bget, the sleep-locks and the disk driver keeps the types, *)
(* and no reference count ever goes below zero.                            *)
THEOREM TypeCorrect == Spec => []TypeOK
BY Invariance, PTL DEF IInv

(* No two processes ever make two buffers for one block.                   *)
THEOREM OneBufferPerBlock == Spec => []OneBuffer
BY Invariance, PTL DEF IInv

LEMMA InvHasItsBlock ==
    ASSUME IInv
    PROVE  HasItsBlock
<1> SUFFICES ASSUME NEW p \in Procs, Locks(p)
             PROVE  /\ blockno[buf[p]] = want[p]
                    /\ \A q \in Procs : Locks(q) /\ want[q] = want[p] => q = p
  BY DEF HasItsBlock
<1>1. \A q \in Procs : Locks(q) => /\ buf[q] \in Buffers /\ want[q] \in Blocks
                                  /\ blockno[buf[q]] = want[q] /\ holder[buf[q]] = q
  BY DEF IInv, TypeOK, Asked, Holding, Locks
<1>2. ASSUME NEW q \in Procs, Locks(q), want[q] = want[p] PROVE q = p
  <2>1. buf[q] = buf[p]
    BY <1>1, <1>2, BufferCacheAssumption DEF IInv, OneBuffer
  <2> QED BY <1>1, <1>2, <2>1
<1> QED BY <1>1, <1>2

(* Whatever the others read, write and release, a process that bread has   *)
(* given a buffer has the block it asked for, and has it alone.            *)
THEOREM BlocksAreExclusive == Spec => []HasItsBlock
BY Invariance, InvHasItsBlock, PTL

LEMMA InvSleeperIsWoken ==
    ASSUME IInv
    PROVE  SleeperIsWoken
<1>1. DOMAIN idequeue = 1 .. Len(idequeue)
  BY DEF IInv, TypeOK
<1> QED BY <1>1 DEF SleeperIsWoken, IInv, Channels, Waiting

(* No wakeup of releasesleep or ideintr is lost.                           *)
THEOREM WakeupsAreNotLost == Spec => []SleeperIsWoken
BY Invariance, InvSleeperIsWoken, PTL

-----------------------------------------------------------------------------
(* bget panics only when every buffer is in use: the panic is final, and   *)
(* what a reference counts is a process that has the buffer.               *)

NoneLeft == panicked => Recyclable = {}

LEMMA NoneLeftStep ==
    ASSUME TypeOK, NoneLeft, [Next]_vars
    PROVE  NoneLeft'
<1>1. ASSUME UNCHANGED <<refcnt, dirty, panicked>> PROVE NoneLeft'
  BY <1>1 DEF NoneLeft, Recyclable
<1>2. CASE UNCHANGED vars
  BY <1>1, <1>2 DEF vars, bufVars
<1>3. ASSUME ~panicked, NEW p \in Procs, NEW n \in Blocks, bget(p, n) PROVE NoneLeft'
  <2>1. CASE Found(p, n) \/ Recycle(p, n)
    <3>1. ~panicked'
      BY <1>3, <2>1 DEF Found, Recycle, Reuse
    <3> QED BY <3>1 DEF NoneLeft
  <2>2. CASE NoBuffers(n)
    BY <2>2 DEF NoBuffers, bufVars, NoneLeft, Recyclable
  <2> QED BY <1>3, <2>1, <2>2 DEF bget
<1>4. ASSUME ~panicked, UNCHANGED panicked PROVE NoneLeft'
  BY <1>4 DEF NoneLeft
<1>5. ASSUME NEW p \in Procs, Bread(p) \/ Use(p) \/ releasesleep(p) \/ brelse(p)
      PROVE  UNCHANGED panicked
  BY <1>5 DEF Bread, acquiresleep, iderw, Woken, Use, bwrite, log_write, releasesleep, brelse
<1>6. ideintr => UNCHANGED panicked
  BY DEF ideintr, DiskDone
<1> QED BY <1>2, <1>3, <1>4, <1>5, <1>6 DEF Next, panic

LEMMA InvPanics ==
    ASSUME IInv, NoneLeft
    PROVE  PanicsOnlyWithoutBuffers
<1> SUFFICES ASSUME panicked, NEW b \in Buffers, b \notin Pinned
             PROVE  \E p \in Procs : buf[p] = b
  BY DEF PanicsOnlyWithoutBuffers
<1>1. CASE dirty[b]
  BY <1>1 DEF Pinned
<1>2. CASE ~dirty[b]
  <2>1. refcnt[b] # 0
    BY <1>2 DEF NoneLeft, Recyclable
  <2>2. Users(b) # {}
    BY <2>1, FS_EmptySet DEF IInv, Counts
  <2> QED BY <2>2 DEF Users
<1> QED BY <1>1, <1>2

(* bget's panic (bio.c:92) comes only when each buffer is one that some    *)
(* process has between bread and brelse, or that the log has pinned.       *)
THEOREM NoEarlyPanic == Spec => []PanicsOnlyWithoutBuffers
<1>1. Init => NoneLeft
  BY DEF Init, NoneLeft
<1>2. TypeOK /\ NoneLeft /\ [Next]_vars => NoneLeft'
  BY NoneLeftStep
<1> QED BY <1>1, <1>2, TypeCorrect, Invariance, InvPanics, PTL DEF Spec

-----------------------------------------------------------------------------
(* The buffer cache keeps BlockStore's promise: bread shows the contents   *)
(* written last although they may be on the disk, in a buffer, or in one   *)
(* that the log has only marked.                                           *)

(* A valid buffer has what the disk has, or is marked.                     *)
Fresh ==
    \A b \in Buffers :
        /\ valid[b] => data[b] \in Values /\ blockno[b] # NoBlock
        /\ valid[b] /\ ~dirty[b] => data[b] = disk[blockno[b]]
        /\ dirty[b] => valid[b]

ValidHeld == \A p \in Procs : pc[p] = "held" => valid[buf[p]]

RInv == IInv /\ Fresh /\ ValidHeld

LEMMA RInvInit == Init => RInv
BY InitInv DEF Init, RInv, Fresh, ValidHeld

LEMMA RInvNext ==
    ASSUME RInv, [Next]_vars
    PROVE  RInv'
<1> USE BufferCacheAssumption
<1>0. IInv' /\ IInv /\ TypeOK
  BY NextInv DEF RInv, IInv
<1>1. ASSUME NEW p \in Procs, NEW n \in Blocks, bget(p, n) PROVE Fresh' /\ ValidHeld'
  <2>1. CASE Found(p, n) \/ NoBuffers(n)
    <3>1. /\ UNCHANGED <<blockno, valid, dirty, data, disk>>
          /\ \A q \in Procs : pc'[q] = "held" => pc[q] = "held" /\ buf'[q] = buf[q]
      BY <1>1, <2>1, <1>0 DEF bget, Found, NoBuffers, bufVars, Goes, TypeOK
    <3> QED BY <3>1 DEF RInv, Fresh, ValidHeld
  <2>2. CASE Recycle(p, n)
    <3>1. PICK b \in Recyclable :
            /\ blockno' = [blockno EXCEPT ![b] = n] /\ valid' = [valid EXCEPT ![b] = FALSE]
            /\ dirty' = [dirty EXCEPT ![b] = FALSE] /\ data' = [data EXCEPT ![b] = Stale]
            /\ buf' = [buf EXCEPT ![p] = b] /\ pc' = [pc EXCEPT ![p] = "lock"]
      BY <2>2 DEF Recycle, Reuse, Goes
    <3>2. b \in Buffers /\ UNCHANGED disk /\ \A q \in Procs : buf[q] # b
      BY <1>1, <1>0, UnusedIsNobodys DEF bget, Recyclable, IInv
    <3> QED BY <3>1, <3>2, <1>0 DEF RInv, Fresh, ValidHeld, TypeOK
  <2> QED BY <1>1, <2>1, <2>2 DEF bget
<1>2. ASSUME NEW p \in Procs, Bread(p) PROVE Fresh' /\ ValidHeld'
  <2>1. UNCHANGED <<blockno, valid, dirty, data, disk, buf>>
    BY <1>2 DEF Bread, acquiresleep, iderw, Woken, bufVars
  <2>2. \A q \in Procs : pc'[q] = "held" => pc[q] = "held" \/ valid[buf[q]]
    BY <1>2, <1>0 DEF Bread, acquiresleep, iderw, Woken, Goes, TypeOK
  <2> QED BY <2>1, <2>2 DEF RInv, Fresh, ValidHeld
<1>3. ASSUME NEW p \in Procs, NEW v \in Values, bwrite(p, v) \/ log_write(p, v) PROVE Fresh' /\ ValidHeld'
  <2>1. /\ pc[p] = "held" /\ buf[p] \in Buffers
        /\ data' = [data EXCEPT ![buf[p]] = v] /\ dirty' = [dirty EXCEPT ![buf[p]] = TRUE]
        /\ UNCHANGED <<blockno, valid, disk, buf>>
        /\ \A q \in Procs : pc'[q] = "held" => pc[q] = "held"
    BY <1>3, <1>0 DEF bwrite, log_write, procVars, Goes, TypeOK, IInv, Asked
  <2> QED BY <2>1, <1>0 DEF RInv, Fresh, ValidHeld, TypeOK
<1>4. ASSUME ideintr PROVE Fresh' /\ ValidHeld'
  <2>1. PICK b \in Buffers : b = Head(idequeue) /\ blockno[b] \in Blocks
    BY <1>4, <1>0 DEF ideintr, DiskDone, TypeOK, IInv, Queued
  <2>2. /\ valid' = [valid EXCEPT ![b] = TRUE] /\ dirty' = [dirty EXCEPT ![b] = FALSE]
        /\ dirty[b] => disk' = [disk EXCEPT ![blockno[b]] = data[b]] /\ data' = data
        /\ ~dirty[b] => data' = [data EXCEPT ![b] = disk[blockno[b]]] /\ disk' = disk
        /\ UNCHANGED <<blockno, pc, buf>>
    BY <1>4, <2>1 DEF ideintr, DiskDone
  <2>3. CASE dirty[b]
    BY <2>1, <2>2, <2>3, <1>0 DEF RInv, IInv, OneBuffer, Fresh, ValidHeld, TypeOK, Asked
  <2>4. CASE ~dirty[b]
    BY <2>1, <2>2, <2>4, <1>0 DEF RInv, Fresh, ValidHeld, TypeOK, IInv, Asked
  <2> QED BY <2>3, <2>4
<1>5. ASSUME NEW p \in Procs, releasesleep(p) \/ brelse(p) PROVE Fresh' /\ ValidHeld'
  <2>1. /\ UNCHANGED <<blockno, valid, dirty, data, disk>>
        /\ \A q \in Procs : pc'[q] = "held" => pc[q] = "held" /\ buf'[q] = buf[q]
    BY <1>5, <1>0 DEF releasesleep, brelse, bufVars, Goes, TypeOK
  <2> QED BY <2>1 DEF RInv, Fresh, ValidHeld
<1>6. ASSUME UNCHANGED vars PROVE Fresh' /\ ValidHeld'
  BY <1>6 DEF vars, bufVars, procVars, RInv, Fresh, ValidHeld
<1> QED BY <1>0, <1>1, <1>2, <1>3, <1>4, <1>5, <1>6 DEF Next, panic, Use, RInv

-----------------------------------------------------------------------------
(* What Store and View are, without CHOOSE                                 *)

StoreIs ==
    \A n \in Blocks :
        /\ \A b \in Buffers : blockno[b] = n /\ valid[b] => Store[n] = data[b]
        /\ (\A b \in Buffers : blockno[b] = n => ~dirty[b]) => Store[n] = disk[n]

ViewIs ==
    \A p \in Procs :
        /\ Sees(p) => /\ View[p] = [block |-> want[p], contents |-> data[buf[p]]]
                      /\ View[p] # NoView /\ want[p] \in Blocks /\ buf[p] \in Buffers
                      /\ blockno[buf[p]] = want[p] /\ Store[want[p]] = data[buf[p]]
        /\ ~Sees(p) => View[p] = NoView

(* Nobody else sees what p has locked.                                     *)
OnlyOneSees ==
    \A p, q \in Procs : Locks(p) /\ q # p => ~(View[q] # NoView /\ View[q].block = want[p])

LEMMA StoreIsRight == RInv => StoreIs
<1> USE BufferCacheAssumption
<1> SUFFICES ASSUME RInv, NEW n \in Blocks
             PROVE  /\ \A b \in Buffers : blockno[b] = n /\ valid[b] => Store[n] = data[b]
                    /\ (\A b \in Buffers : blockno[b] = n => ~dirty[b]) => Store[n] = disk[n]
  BY DEF StoreIs
<1>1. \A b, c \in Buffers : blockno[b] = n /\ blockno[c] = n => b = c
  BY DEF RInv, IInv, OneBuffer
<1>2. CASE \E b \in Cached(n) : dirty[b]
  <2>1. PICK b \in Cached(n) : b = CHOOSE c \in Cached(n) : dirty[c]
    BY <1>2
  <2>2. Store[n] = data[b]
    BY <1>2, <2>1 DEF Store
  <2>3. b \in Buffers /\ blockno[b] = n
    BY <2>1 DEF Cached
  <2> QED BY <1>1, <1>2, <2>2, <2>3 DEF Cached
<1>3. CASE ~\E b \in Cached(n) : dirty[b]
  <2>1. Store[n] = disk[n]
    BY <1>3 DEF Store
  <2>2. \A b \in Buffers : blockno[b] = n => ~dirty[b]
    BY <1>3 DEF Cached
  <2> QED BY <2>1, <2>2 DEF RInv, Fresh
<1> QED BY <1>2, <1>3

LEMMA ViewIsRight == RInv => ViewIs
<1> USE BufferCacheAssumption
<1> SUFFICES ASSUME RInv, NEW p \in Procs, Sees(p)
             PROVE  /\ View[p] = [block |-> want[p], contents |-> data[buf[p]]]
                    /\ View[p] # NoView /\ want[p] \in Blocks /\ buf[p] \in Buffers
                    /\ blockno[buf[p]] = want[p] /\ Store[want[p]] = data[buf[p]]
  BY DEF ViewIs, View
<1>1. View[p] = [block |-> want[p], contents |-> data[buf[p]]]
  BY DEF View
<1>2. want[p] \in Blocks /\ buf[p] \in Buffers /\ blockno[buf[p]] = want[p]
  BY DEF Sees, Locks, RInv, IInv, TypeOK, Asked
<1>3. data[buf[p]] \in Values
  BY <1>2 DEF Sees, RInv, Fresh
<1>4. Store[want[p]] = data[buf[p]]
  BY <1>2, StoreIsRight DEF Sees, StoreIs
<1> QED BY <1>1, <1>2, <1>3, <1>4

LEMMA OnlyOneIsRight == RInv => OnlyOneSees
<1> SUFFICES ASSUME RInv, NEW p \in Procs, NEW q \in Procs, Locks(p), q # p,
                    View[q] # NoView, View[q].block = want[p]
             PROVE  FALSE
  BY DEF OnlyOneSees
<1>1. HasItsBlock
  BY InvHasItsBlock DEF RInv
<1>2. Sees(q)
  BY ViewIsRight DEF ViewIs
<1>3. View[q] = [block |-> want[q], contents |-> data[buf[q]]]
  BY <1>2, ViewIsRight DEF ViewIs
<1>4. View[q].block = want[q]
  BY <1>3
<1> QED BY <1>1, <1>2, <1>4 DEF HasItsBlock, Sees

(* The same of the state after a step.                                     *)
LEMMA Afterwards == RInv' => StoreIs' /\ ViewIs' /\ OnlyOneSees'
<1>1. RInv => StoreIs /\ ViewIs /\ OnlyOneSees
  BY StoreIsRight, ViewIsRight, OnlyOneIsRight
<1> QED BY <1>1, PTL

-----------------------------------------------------------------------------
(* How each step looks from outside                                        *)

(* A step that changes neither what is stored nor who sees what.           *)
LEMMA Stutters ==
    ASSUME \A n \in Blocks : Store'[n] = Store[n], \A p \in Procs : View'[p] = View[p]
    PROVE  UNCHANGED <<Store, View>>
<1>1. Store = [n \in Blocks |-> Store[n]] /\ Store' = [n \in Blocks |-> Store'[n]]
  BY DEF Store
<1>2. View = [p \in Procs |-> View[p]] /\ View' = [p \in Procs |-> View'[p]]
  BY DEF View
<1>3. Store' = Store
  BY <1>1
<1>4. View' = View
  BY <1>2
<1> QED BY <1>3, <1>4

(* A process starts to see a block: Read.                                  *)
LEMMA IsRead ==
    ASSUME RInv, RInv', NEW p \in Procs, ~Sees(p), Sees(p)', 
           \A n \in Blocks : Store'[n] = Store[n],
           \A q \in Procs : q # p => View'[q] = View[q]
    PROVE  \E n \in Blocks : Promise!Read(p, n)
<1>0. PICK n : n = want'[p]
  OBVIOUS
<1>1. View[p] = NoView
  BY ViewIsRight DEF ViewIs
<1>2. /\ View'[p] = [block |-> n, contents |-> data'[buf'[p]]]
      /\ n \in Blocks /\ Store'[n] = data'[buf'[p]]
  BY <1>0, Afterwards DEF ViewIs
<1>3. \A q \in Procs : q # p => ~(View'[q] # NoView /\ View'[q].block = n)
  BY <1>0, Afterwards DEF OnlyOneSees, Sees
<1>4. Store = [m \in Blocks |-> Store[m]] /\ Store' = [m \in Blocks |-> Store'[m]]
  BY DEF Store
<1>5. View = [q \in Procs |-> View[q]] /\ View' = [q \in Procs |-> View'[q]]
  BY DEF View
<1>6. Store' = Store
  BY <1>4
<1>7. View' = [View EXCEPT ![p] = [block |-> n, contents |-> Store[n]]]
  BY <1>2, <1>5, <1>6
<1>8. \A q \in Procs : ~Promise!Has(q, n)
  BY <1>1, <1>3 DEF Promise!Has
<1> QED BY <1>1, <1>2, <1>6, <1>7, <1>8 DEF Promise!Read

LEMMA StoreSame ==
    ASSUME UNCHANGED <<blockno, dirty, data, disk>>
    PROVE  \A n \in Blocks : Store'[n] = Store[n]
BY DEF Store, Cached

LEMMA ViewSame ==
    ASSUME NEW q \in Procs, pc'[q] = pc[q], want'[q] = want[q], buf'[q] = buf[q],
           Locks(q) => valid'[buf[q]] = valid[buf[q]] /\ data'[buf[q]] = data[buf[q]]
    PROVE  View'[q] = View[q]
BY DEF View, Sees, Locks

LEMMA NobodySees ==
    ASSUME NEW q \in Procs, ~Locks(q), ~Locks(q)'
    PROVE  View'[q] = View[q]
BY DEF View, Sees

LEMMA bgetStutters ==
    ASSUME RInv, RInv', NEW p \in Procs, NEW n \in Blocks, bget(p, n)
    PROVE  UNCHANGED <<Store, View>>
<1> USE BufferCacheAssumption
<1>0. TypeOK /\ pc[p] = "idle"
  BY DEF RInv, IInv, bget
<1>1. CASE Found(p, n) \/ NoBuffers(n)
  <2>1. /\ UNCHANGED <<blockno, valid, dirty, data, disk>>
        /\ pc'[p] \in {"idle", "lock"}
        /\ \A q \in Procs : q # p => pc'[q] = pc[q] /\ want'[q] = want[q] /\ buf'[q] = buf[q]
    BY <1>0, <1>1 DEF bget, Found, NoBuffers, bufVars, Goes, TypeOK
  <2>2. View'[p] = View[p]
    BY <1>0, <2>1, NobodySees DEF Locks
  <2>3. \A q \in Procs : q # p => View'[q] = View[q]
    BY <2>1, ViewSame
  <2> QED BY <2>1, <2>2, <2>3, StoreSame, Stutters
<1>2. CASE Recycle(p, n)
  <2>1. PICK b \in Recyclable :
          /\ blockno' = [blockno EXCEPT ![b] = n] /\ valid' = [valid EXCEPT ![b] = FALSE]
          /\ dirty' = [dirty EXCEPT ![b] = FALSE] /\ data' = [data EXCEPT ![b] = Stale]
          /\ buf' = [buf EXCEPT ![p] = b] /\ pc' = [pc EXCEPT ![p] = "lock"]
    BY <1>2 DEF Recycle, Reuse, Goes
  <2>2. b \in Buffers /\ ~dirty[b] /\ \A q \in Procs : buf[q] # b
    BY <2>1, UnusedIsNobodys DEF Recyclable, RInv, IInv
  <2>3. UNCHANGED disk /\ want' = [want EXCEPT ![p] = n]
    BY DEF bget
  <2>4. \A c \in Buffers : c # b => /\ blockno'[c] = blockno[c] /\ dirty'[c] = dirty[c]
                                   /\ data'[c] = data[c] /\ valid'[c] = valid[c]
    BY <2>1, <2>2, <1>0 DEF TypeOK
  <2>5. \A m \in Blocks : Store'[m] = Store[m]
    <3> SUFFICES ASSUME NEW m \in Blocks PROVE Store'[m] = Store[m]
      OBVIOUS
    <3>1. ~dirty'[b]
      BY <2>1, <2>2, <1>0 DEF TypeOK
    <3>2. CASE \E c \in Buffers : blockno[c] = m /\ dirty[c]
      <4>1. PICK c \in Buffers : blockno[c] = m /\ dirty[c] /\ c # b
        BY <3>2, <2>2
      <4>2. Store[m] = data[c] /\ Store'[m] = data'[c]
        BY <4>1, <2>4, StoreIsRight, Afterwards DEF StoreIs, RInv, Fresh
      <4> QED BY <4>1, <4>2, <2>4
    <3>3. CASE \A c \in Buffers : blockno[c] = m => ~dirty[c]
      <4>1. \A c \in Buffers : blockno'[c] = m => ~dirty'[c]
        BY <3>1, <3>3, <2>4
      <4> QED BY <3>3, <4>1, <2>3, StoreIsRight, Afterwards DEF StoreIs
    <3> QED BY <3>2, <3>3
  <2>6. View'[p] = View[p]
    BY <1>0, <2>1, NobodySees DEF Locks, TypeOK
  <2>7. ASSUME NEW q \in Procs, q # p PROVE View'[q] = View[q]
    <3>1. pc'[q] = pc[q] /\ want'[q] = want[q] /\ buf'[q] = buf[q]
      BY <2>1, <2>3, <2>7, <1>0 DEF TypeOK
    <3>2. Locks(q) => buf[q] \in Buffers
      BY DEF RInv, IInv, TypeOK, Asked, Locks
    <3> QED BY <3>1, <3>2, <2>2, <2>4, ViewSame
  <2> QED BY <2>5, <2>6, <2>7, Stutters
<1> QED BY <1>1, <1>2 DEF bget

LEMMA BreadReads ==
    ASSUME RInv, RInv', NEW p \in Procs, Bread(p)
    PROVE  UNCHANGED <<Store, View>> \/ \E n \in Blocks : Promise!Read(p, n)
<1>0. TypeOK
  BY DEF RInv, IInv
<1>1. /\ UNCHANGED <<blockno, valid, dirty, data, disk, want, buf>>
      /\ \A q \in Procs : q # p => pc'[q] = pc[q]
  BY <1>0 DEF Bread, acquiresleep, iderw, Woken, bufVars, Goes, TypeOK
<1>2. \A q \in Procs : q # p => View'[q] = View[q]
  BY <1>1, ViewSame
<1>3. \A n \in Blocks : Store'[n] = Store[n]
  BY <1>1, StoreSame
<1>4. CASE Sees(p)' /\ ~Sees(p)
  BY <1>2, <1>3, <1>4, IsRead
<1>5. Locks(p) => Locks(p)'
  BY <1>0 DEF Bread, acquiresleep, iderw, Woken, Goes, TypeOK, Locks
<1>6. CASE ~(Sees(p)' /\ ~Sees(p))
  <2>1. View'[p] = View[p]
    BY <1>1, <1>5, <1>6 DEF View, Sees
  <2> QED BY <1>2, <1>3, <2>1, Stutters
<1> QED BY <1>4, <1>6

LEMMA UseWrites ==
    ASSUME RInv, RInv', NEW p \in Procs, NEW v \in Values, bwrite(p, v) \/ log_write(p, v)
    PROVE  \E n \in Blocks : Promise!Write(p, n, v)
<1>0. TypeOK
  BY DEF RInv, IInv
<1>1. /\ pc[p] = "held" /\ buf[p] \in Buffers /\ want[p] \in Blocks /\ blockno[buf[p]] = want[p]
      /\ data' = [data EXCEPT ![buf[p]] = v] /\ dirty' = [dirty EXCEPT ![buf[p]] = TRUE]
      /\ UNCHANGED <<blockno, valid, disk, want, buf>>
      /\ pc'[p] \in {"held", "iderw"} /\ \A q \in Procs : q # p => pc'[q] = pc[q]
  BY <1>0 DEF bwrite, log_write, procVars, Goes, TypeOK, RInv, IInv, Asked
<1>2. PICK n \in Blocks, b \in Buffers : n = want[p] /\ b = buf[p] /\ blockno[b] = n
  BY <1>1
<1>3. valid[b] /\ Locks(p) /\ Sees(p) /\ Sees(p)'
  BY <1>1, <1>2 DEF Sees, Locks, RInv, ValidHeld
<1>4. View[p] = [block |-> n, contents |-> data[b]] /\ View[p] # NoView
  BY <1>2, <1>3, ViewIsRight DEF ViewIs
<1>5. View'[p] = [block |-> n, contents |-> v]
  <2>1. View'[p] = [block |-> want'[p], contents |-> data'[buf'[p]]]
    BY <1>3 DEF View
  <2>2. want'[p] = n /\ data'[buf'[p]] = v
    BY <1>0, <1>1, <1>2 DEF TypeOK
  <2> QED BY <2>1, <2>2
<1>6. ASSUME NEW q \in Procs, q # p PROVE View'[q] = View[q]
  <2>1. Locks(q) => buf[q] # b
    BY <1>2, <1>3, <1>6 DEF RInv, IInv, Holding
  <2>2. Locks(q) => data'[buf[q]] = data[buf[q]]
    BY <1>0, <1>1, <1>2, <2>1 DEF RInv, IInv, TypeOK, Asked, Locks
  <2> QED BY <1>1, <1>6, <2>2, ViewSame
<1>7. Store'[n] = v
  <2>1. valid'[b] /\ blockno'[b] = n /\ data'[b] = v
    BY <1>0, <1>1, <1>2, <1>3 DEF TypeOK
  <2> QED BY <2>1, Afterwards DEF StoreIs
<1>8. ASSUME NEW m \in Blocks, m # n PROVE Store'[m] = Store[m]
  <2>1. CASE \E c \in Buffers : blockno[c] = m /\ dirty[c]
    <3>1. PICK c \in Buffers : blockno[c] = m /\ dirty[c]
      BY <2>1
    <3>2. valid[c] /\ valid'[c] /\ blockno'[c] = m /\ data'[c] = data[c]
      BY <3>1, <1>0, <1>1, <1>2, <1>8 DEF TypeOK, RInv, Fresh
    <3> QED BY <3>1, <3>2, StoreIsRight, Afterwards DEF StoreIs
  <2>2. CASE \A c \in Buffers : blockno[c] = m => ~dirty[c]
    <3>1. \A c \in Buffers : blockno'[c] = m => ~dirty'[c]
      BY <2>2, <1>0, <1>1, <1>2, <1>8 DEF TypeOK
    <3> QED BY <2>2, <3>1, <1>1, StoreIsRight, Afterwards DEF StoreIs
  <2> QED BY <2>1, <2>2
<1>9. Store' = [Store EXCEPT ![n] = v]
  <2>1. Store = [m \in Blocks |-> Store[m]] /\ Store' = [m \in Blocks |-> Store'[m]]
    BY DEF Store
  <2> QED BY <2>1, <1>7, <1>8
<1>10. View' = [View EXCEPT ![p].contents = v]
  <2>1. View = [q \in Procs |-> View[q]] /\ View' = [q \in Procs |-> View'[q]]
    BY DEF View
  <2>2. [View[p] EXCEPT !.contents = v] = [block |-> n, contents |-> v]
    BY <1>4
  <2> QED BY <2>1, <2>2, <1>5, <1>6
<1>11. Promise!Has(p, n)
  BY <1>4 DEF Promise!Has
<1> QED BY <1>9, <1>10, <1>11 DEF Promise!Write

LEMMA ideintrReads ==
    ASSUME RInv, RInv', ideintr
    PROVE  UNCHANGED <<Store, View>> \/ \E p \in Procs, n \in Blocks : Promise!Read(p, n)
<1>0. TypeOK
  BY DEF RInv, IInv
<1>1. PICK b \in Buffers : b = Head(idequeue) /\ blockno[b] \in Blocks
  BY <1>0 DEF ideintr, DiskDone, TypeOK, RInv, IInv, Queued
<1>2. /\ valid' = [valid EXCEPT ![b] = TRUE] /\ dirty' = [dirty EXCEPT ![b] = FALSE]
      /\ dirty[b] => disk' = [disk EXCEPT ![blockno[b]] = data[b]] /\ data' = data
      /\ ~dirty[b] => data' = [data EXCEPT ![b] = disk[blockno[b]]] /\ disk' = disk
      /\ UNCHANGED <<blockno, pc, want, buf>>
  BY <1>1 DEF ideintr, DiskDone
<1>3. \A c \in Buffers : blockno[c] = blockno[b] => c = b
  BY <1>1, BufferCacheAssumption DEF RInv, IInv, OneBuffer
<1>4. valid'[b] /\ ~dirty'[b]
  BY <1>0, <1>2 DEF TypeOK
<1>5. \A c \in Buffers : c # b => /\ dirty'[c] = dirty[c] /\ valid'[c] = valid[c]
                                 /\ data'[c] = data[c]
  BY <1>0, <1>2 DEF TypeOK
<1>6. ASSUME NEW n \in Blocks PROVE Store'[n] = Store[n]
  <2>1. CASE n = blockno[b]
    <3>1. Store'[n] = disk'[n]
      <4>1. \A c \in Buffers : blockno'[c] = n => ~dirty'[c]
        BY <1>2, <1>3, <1>4, <2>1
      <4> QED BY <4>1, Afterwards DEF StoreIs
    <3>2. Store[n] = IF dirty[b] THEN data[b] ELSE disk[n]
      BY <1>3, <2>1, StoreIsRight DEF StoreIs, RInv, Fresh
    <3>3. disk'[n] = IF dirty[b] THEN data[b] ELSE disk[n]
      BY <1>0, <1>2, <2>1 DEF TypeOK
    <3> QED BY <3>1, <3>2, <3>3
  <2>2. CASE n # blockno[b]
    <3>1. disk'[n] = disk[n]
      BY <1>0, <1>2, <2>2 DEF TypeOK
    <3>2. CASE \E c \in Buffers : blockno[c] = n /\ dirty[c]
      <4>1. PICK c \in Buffers : blockno[c] = n /\ dirty[c] /\ c # b
        BY <3>2, <2>2
      <4>2. valid[c] /\ valid'[c] /\ blockno'[c] = n /\ data'[c] = data[c]
        BY <4>1, <1>2, <1>5 DEF RInv, Fresh
      <4> QED BY <4>1, <4>2, StoreIsRight, Afterwards DEF StoreIs
    <3>3. CASE \A c \in Buffers : blockno[c] = n => ~dirty[c]
      <4>1. \A c \in Buffers : blockno'[c] = n => ~dirty'[c]
        BY <3>3, <1>2, <1>5, <2>2
      <4> QED BY <3>1, <3>3, <4>1, StoreIsRight, Afterwards DEF StoreIs
    <3> QED BY <3>2, <3>3
  <2> QED BY <2>1, <2>2
<1>7. \A q \in Procs : Locks(q)' = Locks(q)
  BY <1>2 DEF Locks
<1>8. ASSUME NEW q \in Procs, Locks(q) => buf[q] # b \/ valid[b] PROVE View'[q] = View[q]
  <2>1. CASE ~Locks(q)
    BY <1>7, <2>1, NobodySees
  <2>2. CASE Locks(q) /\ buf[q] # b
    <3>1. buf[q] \in Buffers
      BY <2>2 DEF RInv, IInv, TypeOK, Asked, Locks
    <3> QED BY <3>1, <2>2, <1>2, <1>5, ViewSame
  <2>3. CASE Locks(q) /\ buf[q] = b /\ valid[b]
    <3>1. data'[b] = data[b]
      BY <2>3, <1>0, <1>2 DEF RInv, Fresh, TypeOK
    <3>2. valid'[b] = valid[b]
      BY <2>3, <1>0, <1>2 DEF TypeOK
    <3> QED BY <3>1, <3>2, <2>3, <1>2, ViewSame
  <2> QED BY <1>8, <2>1, <2>2, <2>3
<1>9. CASE \A q \in Procs : Locks(q) => buf[q] # b \/ valid[b]
  BY <1>6, <1>8, <1>9, Stutters
<1>10. CASE \E p \in Procs : Locks(p) /\ buf[p] = b /\ ~valid[b]
  <2>1. PICK p \in Procs : Locks(p) /\ buf[p] = b /\ ~valid[b]
    BY <1>10
  <2>2. ~Sees(p) /\ Sees(p)'
    BY <2>1, <1>2, <1>4, <1>7 DEF Sees
  <2>3. \A q \in Procs : q # p => (Locks(q) => buf[q] # b)
    BY <2>1 DEF RInv, IInv, Holding
  <2>4. \A q \in Procs : q # p => View'[q] = View[q]
    BY <1>8, <2>3
  <2> QED BY <1>6, <2>2, <2>4, IsRead
<1> QED BY <1>9, <1>10

LEMMA releasesleepReleases ==
    ASSUME RInv, RInv', NEW p \in Procs, releasesleep(p)
    PROVE  Promise!Release(p)
<1>0. TypeOK
  BY DEF RInv, IInv
<1>1. /\ pc[p] = "held" /\ pc' = [pc EXCEPT ![p] = "brelse"]
      /\ UNCHANGED <<blockno, valid, dirty, data, disk, want, buf>>
  BY DEF releasesleep, bufVars, Goes
<1>2. Sees(p) /\ ~Sees(p)'
  BY <1>0, <1>1 DEF Sees, Locks, RInv, ValidHeld, TypeOK
<1>3. View[p] # NoView /\ View'[p] = NoView
  BY <1>2, ViewIsRight DEF ViewIs, View
<1>4. \A q \in Procs : q # p => View'[q] = View[q]
  BY <1>0, <1>1, ViewSame DEF TypeOK
<1>5. View' = [View EXCEPT ![p] = NoView]
  <2>1. View = [q \in Procs |-> View[q]] /\ View' = [q \in Procs |-> View'[q]]
    BY DEF View
  <2> QED BY <2>1, <1>3, <1>4
<1>6. UNCHANGED Store
  BY <1>1 DEF Store, Cached
<1> QED BY <1>3, <1>5, <1>6 DEF Promise!Release

LEMMA brelseStutters ==
    ASSUME RInv, RInv', NEW p \in Procs, brelse(p)
    PROVE  UNCHANGED <<Store, View>>
<1>0. TypeOK
  BY DEF RInv, IInv
<1>1. /\ pc[p] = "brelse" /\ pc'[p] = "idle"
      /\ UNCHANGED <<blockno, valid, dirty, data, disk>>
      /\ \A q \in Procs : q # p => pc'[q] = pc[q] /\ want'[q] = want[q] /\ buf'[q] = buf[q]
  BY <1>0 DEF brelse, Goes, TypeOK
<1>2. View'[p] = View[p]
  BY <1>1, NobodySees DEF Locks
<1>3. \A q \in Procs : q # p => View'[q] = View[q]
  BY <1>1, ViewSame
<1> QED BY <1>1, <1>2, <1>3, StoreSame, Stutters

LEMMA StepRefines ==
    ASSUME RInv, RInv', [Next]_vars
    PROVE  [Promise!Next]_(Promise!vars)
<1> USE DEF Promise!vars
<1>1. ASSUME NEW p \in Procs, NEW n \in Blocks, bget(p, n) PROVE UNCHANGED <<Store, View>>
  BY <1>1, bgetStutters
<1>2. ASSUME NEW p \in Procs, Bread(p) PROVE [Promise!Next]_(Promise!vars)
  BY <1>2, BreadReads DEF Promise!Next
<1>3. ASSUME NEW p \in Procs, Use(p) PROVE [Promise!Next]_(Promise!vars)
  <2>1. PICK v \in Values : bwrite(p, v) \/ log_write(p, v)
    BY <1>3 DEF Use
  <2>2. \E n \in Blocks : Promise!Write(p, n, v)
    BY <2>1, UseWrites
  <2> QED BY <2>2 DEF Promise!Next
<1>4. ASSUME NEW p \in Procs, releasesleep(p) PROVE [Promise!Next]_(Promise!vars)
  <2>1. Promise!Release(p)
    BY <1>4, releasesleepReleases
  <2>2. want[p] \in Blocks
    BY <1>4 DEF releasesleep, RInv, IInv, Asked
  <2> QED BY <2>1, <2>2 DEF Promise!Next
<1>5. ASSUME NEW p \in Procs, brelse(p) PROVE UNCHANGED <<Store, View>>
  BY <1>5, brelseStutters
<1>6. ASSUME ideintr PROVE [Promise!Next]_(Promise!vars)
  BY <1>6, ideintrReads DEF Promise!Next
<1>7. ASSUME UNCHANGED vars PROVE UNCHANGED <<Store, View>>
  BY <1>7 DEF vars, bufVars, procVars, Store, Cached, View, Sees, Locks
<1> QED BY <1>1, <1>2, <1>3, <1>4, <1>5, <1>6, <1>7 DEF Next, panic

LEMMA InitRefines ==
    ASSUME Init
    PROVE  Promise!Init
<1>1. Store \in [Blocks -> Values]
  <2> SUFFICES \A n \in Blocks : Store[n] \in Values
    BY DEF Store
  <2>1. \A n \in Blocks : \A b \in Cached(n) : ~dirty[b]
    BY DEF Init, Cached
  <2>2. \A n \in Blocks : Store[n] = disk[n]
    BY <2>1 DEF Store
  <2> QED BY <2>2 DEF Init
<1>2. View = [p \in Procs |-> NoView]
  BY DEF Init, View, Sees, Locks
<1> QED BY <1>1, <1>2 DEF Promise!Init

(* bread, bwrite, log_write and brelse look like atomic reads, writes and  *)
(* releases of exclusively locked blocks, whatever buffers are recycled    *)
(* and whoever waits for whom in between.                                  *)
THEOREM CacheImplementsBlockStore == Spec => ImplementsBlockStore
<1>1. RInv /\ [Next]_vars => RInv'
  BY RInvNext
<1>2. RInv /\ RInv' /\ [Next]_vars => [Promise!Next]_(Promise!vars)
  BY StepRefines
<1>3. Init => Promise!Init
  BY InitRefines
<1> QED BY <1>1, <1>2, <1>3, RInvInit, PTL DEF Spec, ImplementsBlockStore, Promise!Spec
=============================================================================
