--------------------------- MODULE SafeQueueProofs ---------------------------
(***************************************************************************)
(* Proofs about p6's queue for any number of threads and requests and any  *)
(* capacity: it is type-correct, sorted at every instant, and never loses  *)
(* track of who owns a request.                                            *)
(***************************************************************************)
EXTENDS SafeQueue, FiniteSetTheorems, WellFoundedInduction, TLAPS

(* The lock is held by the thread that is in the critical section. *)
Locking == \A t \in Threads : pc[t] \in Critical <=> lock = t

(* Where the loops of the thread in the critical section may be. *)
Indices == \A t \in Threads :
    /\ pc[t] \in {"shift", "grow"} => size < Capacity /\ i[t] \in 0 .. size
    /\ pc[t] = "down" => size > 0 /\ i[t] \in 0 .. size

(* Who has a request in hand. *)
Hands == \A t \in Threads :
    pc[t] \in {"addLock", "shift", "grow", "down", "getUnlock"} => req[t] \in Requests

(* What add_work has shifted has a lower priority than the request it adds; *)
(* what it leaves in front of it has not.                                   *)
Position == \A t \in Threads :
    /\ pc[t] \in {"shift", "grow"} =>
          \A k \in 1 .. size : k > i[t] => Priority[Queue[k]] < Priority[req[t]]
    /\ pc[t] = "grow" =>
          /\ elements[i[t]] = req[t]
          /\ \A k \in 1 .. size : k <= i[t] => Priority[Queue[k]] >= Priority[req[t]]

IInv ==
    /\ TypeOK
    /\ Locking
    /\ Indices
    /\ Hands
    /\ Position
    /\ QueueSorted
    /\ OneOwner

(* The constants and definitions that every step below needs. *)
USE SafeQueueAssumption DEF Threads, Cells, Points, Critical, Adding, Getting

-----------------------------------------------------------------------------
(* The invariant of the queue holds when create_queue returns.             *)
LEMMA InitIInv == Init => IInv
  BY DEF Init, IInv, TypeOK, Locking, Indices, Hands, Position, QueueSorted,
         OneOwner, Queue

-----------------------------------------------------------------------------
(* A thread outside the critical section that leaves the array and size    *)
(* alone does not change the queue the array stands for.                   *)
LEMMA OutsideKeepsQueue ==
  ASSUME TypeOK, Locking, NEW t \in Threads, pc[t] \notin Critical,
         UNCHANGED <<elements, size, lock>>,
         \A u \in Threads \ {t} : pc'[u] = pc[u] /\ req'[u] = req[u] /\ i'[u] = i[u]
  PROVE  Queue' = Queue
  <1>1. lock # NoThread => lock \in Threads \ {t}
    BY DEF TypeOK, Locking
  <1>2. (Inserting <=> Inserting') /\ (Removing <=> Removing')
    BY <1>1 DEF Inserting, Removing
  <1>3. Inserting \/ Removing => i'[lock'] = i[lock] /\ req'[lock'] = req[lock]
    BY <1>1 DEF Inserting, Removing
  <1> QED
    BY <1>2, <1>3 DEF Queue, Without

-----------------------------------------------------------------------------
LEMMA CallAddIInv ==
  ASSUME IInv, NEW t \in Threads, CallAdd(t)
  PROVE  IInv' /\ Queue' = Queue /\ size' = size
  <1>1. PICK r \in Requests \ InUse : req' = [req EXCEPT ![t] = r]
    BY DEF CallAdd
  <1>2. Queue' = Queue
    BY OutsideKeepsQueue DEF IInv, CallAdd, Goto, TypeOK
  <1>3. TypeOK'
    BY <1>1 DEF IInv, TypeOK, CallAdd, Goto
  <1>4. Locking' /\ Indices' /\ Hands'
    BY <1>1 DEF IInv, TypeOK, Locking, Indices, Hands, CallAdd, Goto
  <1>5. Position'
    BY <1>1, <1>2 DEF IInv, TypeOK, Position, CallAdd, Goto
  <1>6. QueueSorted'
    BY <1>2 DEF IInv, QueueSorted, CallAdd
  <1>7. OneOwner'
    BY <1>1, <1>2 DEF IInv, TypeOK, OneOwner, InUse, CallAdd, Goto
  <1> QED
    BY <1>2, <1>3, <1>4, <1>5, <1>6, <1>7 DEF IInv, CallAdd

LEMMA AddLockIInv ==
  ASSUME IInv, NEW t \in Threads, AddLock(t)
  PROVE  IInv' /\ Queue' = Queue /\ size' = size
  <1>1. lock = NoThread /\ ~Inserting /\ ~Removing /\ ~Removing'
    BY DEF IInv, TypeOK, AddLock, Goto, Inserting, Removing
  <1>2. Inserting' => i'[lock'] = size
    BY DEF IInv, TypeOK, AddLock, Goto, Index, Inserting
  <1>3. Queue' = Queue
    BY <1>1, <1>2 DEF IInv, TypeOK, AddLock, Queue, Without
  <1>4. TypeOK'
    BY DEF IInv, TypeOK, AddLock, Goto, Index
  <1>5. Locking' /\ Indices' /\ Hands'
    BY DEF IInv, TypeOK, Locking, Indices, Hands, AddLock, Goto, Index
  <1>6. Position'
    BY <1>3 DEF IInv, TypeOK, Locking, Position, AddLock, Goto, Index
  <1>7. QueueSorted'
    BY <1>3 DEF IInv, QueueSorted, AddLock
  <1>8. OneOwner'
    BY <1>3 DEF IInv, TypeOK, OneOwner, AddLock, Goto
  <1> QED
    BY <1>3, <1>4, <1>5, <1>6, <1>7, <1>8 DEF IInv, AddLock

LEMMA AddShiftIInv ==
  ASSUME IInv, NEW t \in Threads, AddShift(t)
  PROVE  IInv' /\ Queue' = Queue /\ size' = size
  <1>1. lock = t /\ Inserting /\ ~Removing /\ Inserting' /\ ~Removing'
    BY DEF IInv, TypeOK, Locking, AddShift, Inserting, Removing
  <1>2. i[t] \in 1 .. size /\ size < Capacity /\ i' = [i EXCEPT ![t] = i[t] - 1]
    BY DEF IInv, TypeOK, Indices, AddShift, MustShift, Index
  <1>3. Queue' = Queue
    BY <1>1, <1>2 DEF IInv, TypeOK, AddShift, Queue, Without
  <1>4. TypeOK'
    BY <1>2 DEF IInv, TypeOK, AddShift
  <1>5. Locking' /\ Indices' /\ Hands'
    BY <1>1, <1>2 DEF IInv, TypeOK, Locking, Indices, Hands, AddShift
  <1>6. Queue[i[t]] = elements[i[t] - 1]
    BY <1>1, <1>2 DEF IInv, TypeOK, Queue, Without
  <1>7. Position'
    BY <1>1, <1>2, <1>3, <1>6 DEF IInv, TypeOK, Locking, Position, AddShift, MustShift
  <1>8. QueueSorted'
    BY <1>3 DEF IInv, QueueSorted, AddShift
  <1>9. OneOwner'
    BY <1>3 DEF IInv, OneOwner, AddShift
  <1> QED
    BY <1>3, <1>4, <1>5, <1>7, <1>8, <1>9 DEF IInv, AddShift

LEMMA AddPlaceIInv ==
  ASSUME IInv, NEW t \in Threads, AddPlace(t)
  PROVE  IInv' /\ Queue' = Queue /\ size' = size
  <1>1. lock = t /\ Inserting /\ ~Removing /\ Inserting' /\ ~Removing'
    BY DEF IInv, TypeOK, Locking, AddPlace, Goto, Inserting, Removing
  <1>2. i[t] \in 0 .. size /\ size < Capacity /\ req[t] \in Requests
    BY DEF IInv, Indices, Hands, AddPlace
  <1>3. Queue' = Queue
    BY <1>1, <1>2 DEF IInv, TypeOK, AddPlace, Queue, Without
  <1>4. TypeOK'
    BY <1>2 DEF IInv, TypeOK, AddPlace, Goto
  <1>5. Locking' /\ Indices' /\ Hands'
    BY <1>1, <1>2 DEF IInv, TypeOK, Locking, Indices, Hands, AddPlace, Goto
  <1>6. Position'
    <2>1. i[t] > 0 =>
             /\ Queue[i[t]] \in Requests
             /\ Priority[Queue[i[t]]] >= Priority[req[t]]
      <3>1. i[t] > 0 => Queue[i[t]] = elements[i[t] - 1]
        BY <1>1, <1>2 DEF IInv, TypeOK, Queue, Without
      <3>2. i[t] > 0 => Queue[i[t]] \in Requests
        BY <1>2 DEF IInv, TypeOK, QueueSorted
      <3> QED
        BY <1>2, <3>1, <3>2 DEF AddPlace, MustShift, IInv, TypeOK
    <2>2. \A k \in 1 .. size : k <= i[t] => Priority[Queue[k]] >= Priority[req[t]]
      <3> SUFFICES ASSUME NEW k \in 1 .. size, k <= i[t]
                   PROVE  Priority[Queue[k]] >= Priority[req[t]]
        OBVIOUS
      <3>1. Queue[k] \in Requests /\ Priority[Queue[k]] >= Priority[Queue[i[t]]]
        BY <1>2 DEF IInv, TypeOK, QueueSorted
      <3> QED
        BY <1>2, <2>1, <3>1 DEF IInv, TypeOK
    <2>3. elements'[i[t]] = req[t]
      BY <1>2 DEF IInv, TypeOK, AddPlace
    <2> QED
      BY <1>1, <1>3, <2>2, <2>3 DEF IInv, TypeOK, Locking, Position, AddPlace, Goto
  <1>7. QueueSorted'
    BY <1>3 DEF IInv, QueueSorted, AddPlace
  <1>8. OneOwner'
    BY <1>1, <1>3 DEF IInv, TypeOK, OneOwner, AddPlace, Goto
  <1> QED
    BY <1>3, <1>4, <1>5, <1>6, <1>7, <1>8 DEF IInv, AddPlace

(* What add_work's size++ does to the queue: the request is inserted behind *)
(* every request of at least its priority.                                  *)
LEMMA AddSignalInserts ==
  ASSUME IInv, NEW t \in Threads, AddSignal(t)
  PROVE  /\ lock = t
         /\ i[t] \in 0 .. size /\ size < Capacity /\ size' = size + 1
         /\ req[t] \in Requests
         /\ Queue' = [k \in 1 .. size + 1 |->
                       IF k <= i[t] THEN Queue[k]
                       ELSE IF k = i[t] + 1 THEN req[t]
                       ELSE Queue[k - 1]]
  <1>1. lock = t /\ lock' = t /\ Inserting /\ ~Removing /\ ~Inserting' /\ ~Removing'
    BY DEF IInv, TypeOK, Locking, AddSignal, Goto, Inserting, Removing, Waiting
  <1>2. i[t] \in 0 .. size /\ size < Capacity /\ size' = size + 1 /\ size \in Nat
    BY DEF IInv, TypeOK, Indices, AddSignal
  <1>3. req[t] \in Requests /\ elements[i[t]] = req[t] /\ elements' = elements
    BY DEF IInv, Hands, Position, AddSignal
  <1>4. Queue' = [k \in 1 .. size + 1 |-> elements[k - 1]]
    BY <1>1, <1>2, <1>3 DEF Queue
  <1>5. Queue = [k \in 1 .. size |->
                   IF k - 1 < i[t] THEN elements[k - 1] ELSE elements[k]]
    BY <1>1, <1>2 DEF Queue, Without
  <1>6. ASSUME NEW k \in 1 .. size + 1
        PROVE  elements[k - 1] = IF k <= i[t] THEN Queue[k]
                                 ELSE IF k = i[t] + 1 THEN req[t]
                                 ELSE Queue[k - 1]
    BY <1>2, <1>3, <1>5
  <1> QED
    BY <1>1, <1>2, <1>3, <1>4, <1>6

LEMMA AddSignalIInv ==
  ASSUME IInv, NEW t \in Threads, AddSignal(t)
  PROVE  IInv'
  <1>1. /\ lock = t
        /\ i[t] \in 0 .. size /\ size < Capacity /\ size' = size + 1
        /\ req[t] \in Requests
        /\ Queue' = [k \in 1 .. size + 1 |->
                      IF k <= i[t] THEN Queue[k]
                      ELSE IF k = i[t] + 1 THEN req[t]
                      ELSE Queue[k - 1]]
    BY AddSignalInserts
  <1>2. size \in Nat /\ Capacity \in Nat
    BY DEF IInv, TypeOK
  <1>3. req' = [req EXCEPT ![t] = NoRequest] /\ UNCHANGED <<elements, lock, i>>
    BY DEF AddSignal
  <1>4. /\ pc' \in [Threads -> Points]
        /\ pc[t] = "grow" /\ pc'[t] = "addUnlock"
        /\ \A u \in Threads \ {t} :
              pc'[u] = pc[u] \/ (pc[u] = "wait" /\ pc'[u] = "getLock")
    BY DEF IInv, TypeOK, AddSignal, Goto, Waiting
  <1>5. TypeOK'
    BY <1>1, <1>2, <1>3, <1>4 DEF IInv, TypeOK
  <1>6. Locking' /\ Indices' /\ Hands'
    BY <1>1, <1>3, <1>4 DEF IInv, TypeOK, Locking, Indices, Hands
  <1>7. Position'
    <2>1. \A u \in Threads : pc'[u] \notin {"shift", "grow"}
      BY <1>1, <1>4 DEF IInv, Locking
    <2> QED
      BY <2>1 DEF Position
  <1>8. \A k \in 1 .. size : Queue[k] # req[t]
    BY <1>4 DEF IInv, OneOwner
  <1>9. \A k \in 1 .. size : Queue[k] \in Requests /\ Priority[Queue[k]] \in Int
    BY DEF IInv, QueueSorted
  <1>10. Priority[req[t]] \in Int
    BY <1>1
  <1>11. \A k \in 1 .. size :
           /\ k > i[t] => Priority[Queue[k]] < Priority[req[t]]
           /\ k <= i[t] => Priority[Queue[k]] >= Priority[req[t]]
    BY <1>4 DEF IInv, Position
  <1>12. QueueSorted'
    <2>1. \A k \in 1 .. size + 1 : Queue'[k] \in Requests
      BY <1>1, <1>2, <1>9
    <2>2. ASSUME NEW j \in 1 .. size + 1, NEW k \in 1 .. size + 1, j < k
          PROVE  Queue'[j] # Queue'[k] /\ Priority[Queue'[j]] >= Priority[Queue'[k]]
      <3>1. \A m, n \in 1 .. size : m < n =>
               Queue[m] # Queue[n] /\ Priority[Queue[m]] >= Priority[Queue[n]]
        BY DEF IInv, QueueSorted
      <3>2. CASE j = i[t] + 1
        BY <1>1, <1>2, <1>8, <1>9, <1>10, <1>11, <2>2, <3>2
      <3>3. CASE k = i[t] + 1
        BY <1>1, <1>2, <1>8, <1>9, <1>10, <1>11, <2>2, <3>3
      <3>4. CASE j # i[t] + 1 /\ k # i[t] + 1
        <4>1. CASE k <= i[t]
          BY <1>1, <1>2, <2>2, <3>1, <4>1
        <4>2. CASE j <= i[t] /\ k > i[t] + 1
          BY <1>1, <1>2, <2>2, <3>1, <4>2
        <4>3. CASE j > i[t] + 1
          BY <1>1, <1>2, <2>2, <3>1, <4>3
        <4>4. k <= i[t] \/ (j <= i[t] /\ k > i[t] + 1) \/ j > i[t] + 1
          <5>1. i[t] \in Int /\ j \in Int /\ k \in Int
            BY <1>1, <1>2
          <5> QED
            BY <3>4, <5>1
        <4> QED
          BY <4>1, <4>2, <4>3, <4>4
      <3> QED
        BY <3>2, <3>3, <3>4
    <2> QED
      BY <1>1, <2>1, <2>2 DEF QueueSorted
  <1>13. OneOwner'
    <2>1. req' \in [Threads -> Requests \cup {NoRequest}]
      BY <1>3 DEF IInv, TypeOK
    <2>2. \A u, w \in Threads : u # w /\ req'[u] # NoRequest => req'[u] # req'[w]
      BY <1>3 DEF IInv, TypeOK, OneOwner
    <2>3. ASSUME NEW u \in Threads, NEW k \in 1 .. size + 1, pc'[u] # "down"
          PROVE  req'[u] # Queue'[k]
      <3>1. CASE u = t
        BY <1>1, <1>2, <1>3, <1>9, <3>1 DEF IInv, TypeOK
      <3>2. CASE u # t
        <4>1. pc[u] # "down" /\ req'[u] = req[u]
          BY <1>3, <1>4, <2>3, <3>2 DEF IInv, TypeOK
        <4>2. req[u] # req[t]
          BY <1>1, <3>2 DEF IInv, OneOwner
        <4>3. \A m \in 1 .. size : req[u] # Queue[m]
          BY <4>1 DEF IInv, OneOwner
        <4> QED
          BY <1>1, <1>2, <4>1, <4>2, <4>3
      <3> QED
        BY <3>1, <3>2
    <2> QED
      BY <1>1, <2>2, <2>3 DEF OneOwner
  <1> QED
    BY <1>5, <1>6, <1>7, <1>12, <1>13 DEF IInv

LEMMA AddUnlockIInv ==
  ASSUME IInv, NEW t \in Threads, AddUnlock(t)
  PROVE  IInv' /\ Queue' = Queue /\ size' = size
  <1>1. lock = t /\ ~Inserting /\ ~Removing /\ ~Inserting' /\ ~Removing'
    BY DEF IInv, TypeOK, Locking, AddUnlock, Inserting, Removing
  <1>2. Queue' = Queue
    BY <1>1 DEF AddUnlock, Queue
  <1>3. TypeOK'
    BY DEF IInv, TypeOK, AddUnlock, Goto, Index
  <1>4. Locking' /\ Indices' /\ Hands'
    BY <1>1 DEF IInv, TypeOK, Locking, Indices, Hands, AddUnlock, Goto, Index
  <1>5. Position'
    BY <1>1 DEF IInv, TypeOK, Locking, Position, AddUnlock, Goto
  <1>6. QueueSorted'
    BY <1>2 DEF IInv, QueueSorted, AddUnlock
  <1>7. OneOwner'
    BY <1>2 DEF IInv, TypeOK, OneOwner, QueueSorted, AddUnlock, Goto
  <1> QED
    BY <1>2, <1>3, <1>4, <1>5, <1>6, <1>7 DEF IInv, AddUnlock

LEMMA CallGetIInv ==
  ASSUME IInv, NEW t \in Threads, CallGet(t) \/ GetWait(t) \/ SpuriousWakeup(t)
  PROVE  IInv' /\ Queue' = Queue /\ size' = size
  <1>1. /\ UNCHANGED <<elements, size, lock, req, i>>
        /\ pc[t] \in {"idle", "getLock", "wait"}
        /\ \E point \in {"getLock", "wait"} : pc' = [pc EXCEPT ![t] = point]
    BY DEF CallGet, GetWait, SpuriousWakeup, Goto
  <1>2. Queue' = Queue
    <2>1. TypeOK /\ Locking /\ pc[t] \notin Critical
      BY <1>1 DEF IInv, Critical, Adding, Getting
    <2>2. \A u \in Threads \ {t} : pc'[u] = pc[u] /\ req'[u] = req[u] /\ i'[u] = i[u]
      BY <1>1, <2>1 DEF TypeOK
    <2> QED
      BY <1>1, <2>1, <2>2, OutsideKeepsQueue
  <1>3. TypeOK'
    BY <1>1 DEF IInv, TypeOK
  <1>4. Locking' /\ Indices' /\ Hands'
    BY <1>1 DEF IInv, TypeOK, Locking, Indices, Hands
  <1>5. Position'
    BY <1>1, <1>2 DEF IInv, TypeOK, Position
  <1>6. QueueSorted'
    BY <1>1, <1>2 DEF IInv, QueueSorted
  <1>7. OneOwner'
    BY <1>1, <1>2 DEF IInv, TypeOK, OneOwner
  <1> QED
    BY <1>1, <1>2, <1>3, <1>4, <1>5, <1>6, <1>7 DEF IInv

LEMMA GetTakeIInv ==
  ASSUME IInv, NEW t \in Threads, GetTake(t)
  PROVE  IInv' /\ Queue' = Queue /\ size' = size
  <1>1. lock = NoThread /\ ~Inserting /\ ~Removing /\ ~Inserting' /\ Removing' /\ lock' = t
    BY DEF IInv, TypeOK, GetTake, Goto, Inserting, Removing
  <1>2. size \in 1 .. Capacity /\ i'[t] = 0 /\ req'[t] = elements[0]
    BY DEF IInv, TypeOK, GetTake, Index
  <1>3. Queue' = Queue
    BY <1>1, <1>2 DEF IInv, TypeOK, GetTake, Queue, Without
  <1>4. Queue[1] = elements[0] /\ elements[0] \in Requests
    BY <1>1, <1>2 DEF IInv, Queue, QueueSorted
  <1>5. TypeOK'
    BY <1>4 DEF IInv, TypeOK, GetTake, Goto, Index
  <1>6. Locking' /\ Indices' /\ Hands'
    BY <1>2, <1>4 DEF IInv, TypeOK, Locking, Indices, Hands, GetTake, Goto, Index
  <1>7. Position'
    BY <1>1 DEF IInv, TypeOK, Locking, Position, GetTake, Goto
  <1>8. QueueSorted'
    BY <1>3 DEF IInv, QueueSorted, GetTake
  <1>9. OneOwner'
    <2>1. \A u \in Threads : pc[u] # "down" /\ req[u] # Queue[1]
      BY <1>1, <1>2 DEF IInv, TypeOK, Locking, OneOwner
    <2> QED
      BY <1>2, <1>3, <1>4, <2>1 DEF IInv, TypeOK, OneOwner, GetTake, Goto
  <1> QED
    BY <1>3, <1>5, <1>6, <1>7, <1>8, <1>9 DEF IInv, GetTake

LEMMA MoveDownIInv ==
  ASSUME IInv, NEW t \in Threads, MoveDown(t)
  PROVE  IInv' /\ Queue' = Queue /\ size' = size
  <1>1. lock = t /\ ~Inserting /\ Removing /\ ~Inserting' /\ Removing'
    BY DEF IInv, TypeOK, Locking, MoveDown, Inserting, Removing
  <1>2. i[t] \in 0 .. size - 1 /\ size \in 1 .. Capacity /\ i' = [i EXCEPT ![t] = i[t] + 1]
    BY DEF IInv, TypeOK, Indices, MoveDown, Index
  <1>3. Queue' = Queue
    BY <1>1, <1>2 DEF IInv, TypeOK, MoveDown, Queue, Without
  <1>4. TypeOK'
    BY <1>2 DEF IInv, TypeOK, MoveDown
  <1>5. Locking' /\ Indices' /\ Hands'
    BY <1>1, <1>2 DEF IInv, TypeOK, Locking, Indices, Hands, MoveDown
  <1>6. Position'
    BY <1>1 DEF IInv, TypeOK, Locking, Position, MoveDown
  <1>7. QueueSorted'
    BY <1>3 DEF IInv, QueueSorted, MoveDown
  <1>8. OneOwner'
    BY <1>3 DEF IInv, OneOwner, MoveDown
  <1> QED
    BY <1>3, <1>4, <1>5, <1>6, <1>7, <1>8 DEF IInv, MoveDown

(* What move_down's size-- does to the queue: its head is gone. *)
LEMMA MoveDownSizeRemoves ==
  ASSUME IInv, NEW t \in Threads, MoveDownSize(t)
  PROVE  /\ lock = t /\ lock' = t
         /\ size \in 1 .. Capacity /\ size' = size - 1
         /\ Queue[1] = req[t]
         /\ Queue' = [k \in 1 .. size - 1 |-> Queue[k + 1]]
  <1>1. lock = t /\ lock' = t /\ ~Inserting /\ Removing /\ ~Inserting' /\ ~Removing'
    BY DEF IInv, TypeOK, Locking, MoveDownSize, Goto, Inserting, Removing
  <1>2. size \in 1 .. Capacity /\ size' = size - 1 /\ i[t] = size /\ elements' = elements
    BY DEF IInv, TypeOK, Indices, MoveDownSize
  <1>3. Queue = [k \in 1 .. size |-> IF k = 1 THEN req[t] ELSE Without(size, k - 2)]
    BY <1>1, <1>2 DEF Queue
  <1>4. \A k \in 1 .. size - 1 : Queue[k + 1] = elements[k - 1]
    BY <1>2, <1>3 DEF Without
  <1>5. Queue' = [k \in 1 .. size - 1 |-> elements[k - 1]]
    BY <1>1, <1>2 DEF Queue
  <1>6. Queue[1] = req[t]
    BY <1>2, <1>3
  <1>7. Queue' = [k \in 1 .. size - 1 |-> Queue[k + 1]]
    BY <1>4, <1>5
  <1> QED
    BY <1>1, <1>2, <1>6, <1>7

LEMMA MoveDownSizeIInv ==
  ASSUME IInv, NEW t \in Threads, MoveDownSize(t)
  PROVE  IInv'
  <1>1. /\ lock = t /\ lock' = t
        /\ size \in 1 .. Capacity /\ size' = size - 1
        /\ Queue[1] = req[t]
        /\ Queue' = [k \in 1 .. size - 1 |-> Queue[k + 1]]
    BY MoveDownSizeRemoves
  <1>2. TypeOK'
    BY <1>1 DEF IInv, TypeOK, MoveDownSize, Goto
  <1>3. Locking' /\ Indices' /\ Hands'
    BY <1>1 DEF IInv, TypeOK, Locking, Indices, Hands, MoveDownSize, Goto
  <1>4. Position'
    BY <1>1 DEF IInv, TypeOK, Locking, Position, MoveDownSize, Goto
  <1>5. QueueSorted'
    BY <1>1 DEF IInv, QueueSorted
  <1>6. OneOwner'
    <2>1. \A k \in 1 .. size - 1 : Queue'[k] # req[t]
      BY <1>1 DEF IInv, QueueSorted
    <2>2. \A u \in Threads \ {t} : pc[u] # "down"
      BY <1>1 DEF IInv, Locking
    <2> QED
      BY <1>1, <2>1, <2>2 DEF IInv, TypeOK, OneOwner, MoveDownSize, Goto
  <1> QED
    BY <1>2, <1>3, <1>4, <1>5, <1>6 DEF IInv

LEMMA GetUnlockIInv ==
  ASSUME IInv, NEW t \in Threads, GetUnlock(t)
  PROVE  IInv' /\ Queue' = Queue /\ size' = size
  <1>1. lock = t /\ ~Inserting /\ ~Removing /\ ~Inserting' /\ ~Removing'
    BY DEF IInv, TypeOK, Locking, GetUnlock, Inserting, Removing
  <1>2. Queue' = Queue
    BY <1>1 DEF GetUnlock, Queue
  <1>3. TypeOK'
    BY DEF IInv, TypeOK, GetUnlock, Goto, Index
  <1>4. Locking' /\ Indices' /\ Hands'
    BY <1>1 DEF IInv, TypeOK, Locking, Indices, Hands, GetUnlock, Goto, Index
  <1>5. Position'
    BY <1>1 DEF IInv, TypeOK, Locking, Position, GetUnlock, Goto
  <1>6. QueueSorted'
    BY <1>2 DEF IInv, QueueSorted, GetUnlock
  <1>7. OneOwner'
    BY <1>2 DEF IInv, TypeOK, OneOwner, GetUnlock, Goto
  <1> QED
    BY <1>2, <1>3, <1>4, <1>5, <1>6, <1>7 DEF IInv, GetUnlock

LEMMA DisplayIInv ==
  ASSUME IInv, NEW t \in Threads, Display(t) \/ DisplayEnd(t)
  PROVE  IInv' /\ Queue' = Queue /\ size' = size
  <1>1. /\ UNCHANGED <<elements, size, lock>>
        /\ pc[t] = "display"
        /\ pc' = pc \/ pc' = [pc EXCEPT ![t] = "idle"]
        /\ req' = req \/ req' = [req EXCEPT ![t] = NoRequest]
        /\ i' = i \/ (i[t] < size /\ i' = [i EXCEPT ![t] = i[t] + 1])
    BY DEF Display, DisplayEnd, Goto, Index
  <1>2. Queue' = Queue
    <2>1. TypeOK /\ Locking /\ pc[t] \notin Critical
      BY <1>1 DEF IInv, Critical, Adding, Getting
    <2>2. \A u \in Threads \ {t} : pc'[u] = pc[u] /\ req'[u] = req[u] /\ i'[u] = i[u]
      BY <1>1, <2>1 DEF TypeOK
    <2> QED
      BY <1>1, <2>1, <2>2, OutsideKeepsQueue
  <1>3. TypeOK'
    <2>1. i' \in [Threads -> 0 .. Capacity]
      <3>1. i \in [Threads -> 0 .. Capacity] /\ size \in 0 .. Capacity
        BY DEF IInv, TypeOK
      <3>2. i[t] < size => i[t] + 1 \in 0 .. Capacity
        BY <3>1
      <3> QED
        BY <1>1, <3>1, <3>2
    <2>2. pc' \in [Threads -> Points] /\ req' \in [Threads -> Requests \cup {NoRequest}]
      BY <1>1 DEF IInv, TypeOK
    <2> QED
      BY <1>1, <2>1, <2>2 DEF IInv, TypeOK
  <1>4. Locking' /\ Indices' /\ Hands'
    BY <1>1 DEF IInv, TypeOK, Locking, Indices, Hands
  <1>5. Position'
    BY <1>1, <1>2 DEF IInv, TypeOK, Position
  <1>6. QueueSorted'
    BY <1>1, <1>2 DEF IInv, QueueSorted
  <1>7. OneOwner'
    <2>1. \A u \in Threads : req'[u] = req[u] \/ req'[u] = NoRequest
      BY <1>1 DEF IInv, TypeOK
    <2>2. \A k \in 1 .. size : Queue'[k] = Queue[k] /\ Queue[k] # NoRequest
      BY <1>2 DEF IInv, QueueSorted
    <2>3. \A u \in Threads : pc'[u] # "down" => pc[u] # "down"
      BY <1>1 DEF IInv, TypeOK
    <2> QED
      BY <1>1, <2>1, <2>2, <2>3 DEF IInv, OneOwner
  <1> QED
    BY <1>1, <1>2, <1>3, <1>4, <1>5, <1>6, <1>7 DEF IInv

(* A display that kills the process leaves the queue as it is.             *)
LEMMA QueueSteps ==
  ASSUME [Next]_vars
  PROVE  UNCHANGED queueVars \/ \E t \in Threads : Action(t)
  BY DEF Next, DisplayDies, vars

(* No step of any thread breaks the invariant.                             *)
LEMMA StepIInv == IInv /\ [Next]_vars => IInv'
  <1> SUFFICES ASSUME IInv, [Next]_vars
               PROVE  IInv'
    OBVIOUS
  <1>0. UNCHANGED queueVars \/ \E t \in Threads : Action(t)
    BY QueueSteps
  <1>1. CASE UNCHANGED queueVars
    <2>1. Queue' = Queue
      BY <1>1 DEF queueVars, Queue, Inserting, Removing, Without
    <2>2. TypeOK' /\ Locking' /\ Indices' /\ Hands'
      BY <1>1 DEF queueVars, IInv, TypeOK, Locking, Indices, Hands
    <2>3. Position' /\ QueueSorted' /\ OneOwner'
      BY <1>1, <2>1 DEF queueVars, IInv, Position, QueueSorted, OneOwner
    <2> QED
      BY <2>2, <2>3 DEF IInv
  <1>2. ASSUME NEW t \in Threads, Action(t)
        PROVE  IInv'
    BY <1>2, CallAddIInv, AddLockIInv, AddShiftIInv, AddPlaceIInv, AddSignalIInv,
       AddUnlockIInv, CallGetIInv, GetTakeIInv, MoveDownIInv, MoveDownSizeIInv,
       GetUnlockIInv, DisplayIInv DEF Action, Step
  <1> QED
    BY <1>0, <1>1, <1>2

-----------------------------------------------------------------------------
(* The invariant is one: it holds of every behaviour of the queue.         *)
LEMMA Invariance == Spec => []IInv
  BY InitIInv, StepIInv, PTL DEF Spec

(* The queue and its threads keep their types: in particular size and the  *)
(* loops of add_work and move_down never leave the array and the cell      *)
(* after it.                                                               *)
THEOREM TypeCorrect == Spec => []TypeOK
  <1>1. IInv => TypeOK
    BY DEF IInv
  <1> QED
    BY Invariance, <1>1, PTL

(* However many threads use it, the queue is sorted by priority at every   *)
(* instant, without a duplicate and without an unwritten cell.             *)
THEOREM AlwaysSorted == Spec => []QueueSorted
  <1>1. IInv => QueueSorted
    BY DEF IInv
  <1> QED
    BY Invariance, <1>1, PTL

(* No request is served by two threads, or served and still queued.        *)
THEOREM AlwaysOneOwner == Spec => []OneOwner
  <1>1. IInv => OneOwner
    BY DEF IInv
  <1> QED
    BY Invariance, <1>1, PTL

-----------------------------------------------------------------------------
(* Wake-ups: who is awake in get_work and has still to take a request.     *)

Awake == { t \in Threads : pc[t] \in {"getLock", "down"} }

LEMMA AwakeFinite == IsFiniteSet(Awake) /\ Cardinality(Awake) \in Nat
  BY FS_Subset, FS_CardinalityType DEF Awake

LEMMA OneMoreAwake ==
  ASSUME NEW t \in Threads, t \notin Awake, Awake' = Awake \cup {t}
  PROVE  Cardinality(Awake') = Cardinality(Awake) + 1
  BY AwakeFinite, FS_AddElement

(* A thread that begins to wait found the queue empty, each request added  *)
(* wakes a thread if one waits, and who takes a request is one of those.   *)
LEMMA WakeupStep == IInv /\ NoLostWakeup /\ [Next]_vars => NoLostWakeup'
  <1> SUFFICES ASSUME IInv, NoLostWakeup, [Next]_vars, Waiting' # {}
               PROVE  Cardinality(Awake') >= size'
    BY DEF NoLostWakeup, Awake
  <1>1. Waiting # {} => Cardinality(Awake) >= size
    BY DEF NoLostWakeup, Awake
  <1>2. size \in Nat /\ pc \in [Threads -> Points]
    BY DEF IInv, TypeOK
  <1>3. ASSUME NEW t \in Threads, GetWait(t)
        PROVE  Cardinality(Awake') >= size'
    <2>1. size' = 0
      BY <1>3 DEF GetWait
    <2>2. IsFiniteSet(Awake') /\ Cardinality(Awake') \in Nat
      BY FS_Subset, FS_CardinalityType DEF Awake
    <2> QED
      BY <2>1, <2>2
  <1>4. ASSUME NEW t \in Threads, AddSignal(t)
        PROVE  Cardinality(Awake') >= size'
    <2>1. Waiting # {}
      BY <1>2, <1>4 DEF AddSignal, Waiting, Goto
    <2>2. PICK w \in Waiting : pc' = [pc EXCEPT ![t] = "addUnlock", ![w] = "getLock"]
      BY <1>4, <2>1 DEF AddSignal
    <2>3. w \in Threads /\ w \notin Awake /\ Awake' = Awake \cup {w}
      BY <1>2, <1>4, <2>2 DEF AddSignal, Waiting, Awake
    <2>4. Cardinality(Awake') = Cardinality(Awake) + 1
      BY <2>3, OneMoreAwake
    <2>5. size' = size + 1
      BY <1>4 DEF AddSignal
    <2> QED
      BY <1>1, <1>2, <2>1, <2>4, <2>5, AwakeFinite
  <1>5. ASSUME NEW t \in Threads, MoveDownSize(t)
        PROVE  Cardinality(Awake') >= size'
    <2>1. size' = size - 1 /\ Waiting' = Waiting /\ t \in Awake /\ Awake' = Awake \ {t}
      BY <1>2, <1>5 DEF MoveDownSize, Goto, Waiting, Awake
    <2>2. Cardinality(Awake') = Cardinality(Awake) - 1
      BY <2>1, AwakeFinite, FS_RemoveElement
    <2> QED
      BY <1>1, <1>2, <2>1, <2>2, AwakeFinite
  <1>6. ASSUME NEW t \in Threads, CallGet(t) \/ SpuriousWakeup(t)
        PROVE  Cardinality(Awake') >= size'
    <2>1. size' = size /\ t \notin Awake /\ Awake' = Awake \cup {t} /\ Waiting # {}
      BY <1>2, <1>6 DEF CallGet, SpuriousWakeup, Goto, Waiting, Awake
    <2> QED
      BY <1>1, <1>2, <2>1, OneMoreAwake, AwakeFinite
  <1>7. ASSUME UNCHANGED <<size, Waiting, Awake>>
        PROVE  Cardinality(Awake') >= size'
    BY <1>1, <1>7
  <1>8. ASSUME NEW t \in Threads,
               \/ CallAdd(t) \/ AddLock(t) \/ AddShift(t) \/ AddPlace(t) \/ AddUnlock(t)
               \/ GetTake(t) \/ MoveDown(t) \/ GetUnlock(t) \/ Display(t) \/ DisplayEnd(t)
        PROVE  UNCHANGED <<size, Waiting, Awake>>
    BY <1>2, <1>8 DEF CallAdd, AddLock, AddShift, AddPlace, AddUnlock, GetTake, MoveDown,
       GetUnlock, Display, DisplayEnd, Goto, Waiting, Awake
  <1>9. CASE UNCHANGED queueVars
    BY <1>7, <1>9 DEF queueVars, Waiting, Awake
  <1> QED
    BY <1>3, <1>4, <1>5, <1>6, <1>7, <1>8, <1>9, QueueSteps DEF Action, Step

(* However many workers there are, one signal per request is enough: as    *)
(* long as somebody waits, every queued request has a thread that is awake *)
(* and will take it, even if another thread takes the one it was woken for. *)
THEOREM NoWakeupIsLost == Spec => []NoLostWakeup
  <1>1. Init => NoLostWakeup
    BY DEF Init, NoLostWakeup, Waiting
  <1> QED
    BY Invariance, WakeupStep, <1>1, PTL DEF Spec

-----------------------------------------------------------------------------
(* The refinement: the sorted array implements one FIFO lane per priority. *)
(* The requests above a priority are the first ones of the queue, so that  *)
(* a lane is the run of positions between two such bounds.                 *)

LEMMA Least ==
  ASSUME NEW S \in SUBSET Nat, S # {}
  PROVE  \E x \in S : \A y \in S : x <= y
  <1> DEFINE Less == OpToRel(<, Nat)
  <1>1. IsWellFoundedOn(Less, Nat)
    BY NatLessThanWellFounded
  <1>2. \E x \in S : \A y \in S : <<y, x>> \notin Less
    <2> HIDE DEF Less
    <2> QED
      BY <1>1, WFMin
  <1>3. \A x, y \in Nat : <<y, x>> \notin Less => x <= y
    BY DEF OpToRel
  <1> QED
    BY <1>2, <1>3

(* n cuts the sequence f of len integers into those above p and the rest. *)
Cuts(n, f, len, p) == n \in 0 .. len /\ \A k \in 1 .. len : f[k] > p <=> k <= n

(* The priorities of the queue, in its order. *)
Ranks == [k \in 1 .. size |-> Priority[Queue[k]]]

Ranked ==
  /\ size \in Nat
  /\ Ranks \in [1 .. size -> Int]
  /\ \A p \in Int : Cuts(Above(p), Ranks, size, p)

LEMMA QueueIsRanked == IInv => Ranked
  <1> SUFFICES ASSUME IInv
               PROVE  Ranked
    OBVIOUS
  <1>1. size \in Nat
    BY DEF IInv, TypeOK
  <1>2. /\ Ranks \in [1 .. size -> Int]
        /\ \A j, k \in 1 .. size : j < k => Ranks[j] >= Ranks[k]
    BY DEF IInv, QueueSorted, Ranks
  <1>3. ASSUME NEW p \in Int
        PROVE  Cuts(Above(p), Ranks, size, p)
    <2> DEFINE Low == { k \in 1 .. size + 1 : k = size + 1 \/ Ranks[k] <= p }
    <2>1. PICK low \in Low : \A k \in Low : low <= k
      <3>1. Low \in SUBSET Nat /\ size + 1 \in Low
        BY <1>1
      <3> HIDE DEF Low
      <3> QED
        BY <3>1, Least
    <2>2. low \in 1 .. size + 1 /\ \A k \in 1 .. size : k < low => Ranks[k] > p
      BY <1>1, <1>2, <2>1
    <2>3. \A k \in 1 .. size : k >= low => Ranks[k] <= p
      <3> SUFFICES ASSUME NEW k \in 1 .. size, k >= low
                   PROVE  Ranks[k] <= p
        OBVIOUS
      <3>1. low \in 1 .. size /\ Ranks[low] <= p /\ Ranks[low] \in Int /\ Ranks[k] \in Int
        BY <1>1, <1>2, <2>1, <2>2
      <3>2. Ranks[k] <= Ranks[low]
        BY <1>1, <1>2, <3>1
      <3> QED
        BY <3>1, <3>2
    <2>4. Cuts(low - 1, Ranks, size, p)
      BY <1>1, <1>2, <2>2, <2>3 DEF Cuts
    <2>5. { k \in 1 .. size : Priority[Queue[k]] > p } = 1 .. low - 1
      BY <1>1, <2>2, <2>4 DEF Cuts, Ranks
    <2>6. Cardinality(1 .. low - 1) = low - 1
      BY <1>1, <2>2, FS_Interval
    <2> QED
      BY <2>4, <2>5, <2>6 DEF Above
  <1> QED
    BY <1>1, <1>2, <1>3 DEF Ranked

(* A request of rank x inserted behind all of at least its rank. *)
Inserted(g, f, n, m, x) ==
  /\ n \in Nat /\ m \in 0 .. n /\ x \in Int /\ f \in [1 .. n -> Int]
  /\ \A k \in 1 .. n : (k > m => f[k] < x) /\ (k <= m => f[k] >= x)
  /\ g = [k \in 1 .. n + 1 |-> IF k <= m THEN f[k] ELSE IF k = m + 1 THEN x ELSE f[k - 1]]

CutMoves(c, a, n, m, x, p) ==
  /\ a \in 0 .. n
  /\ c = IF x > p THEN a + 1 ELSE a
  /\ x > p => m <= a
  /\ x <= p => a <= m

LEMMA InsertionCuts ==
  ASSUME NEW n, NEW m, NEW x, NEW f, NEW g, Inserted(g, f, n, m, x),
         NEW p \in Int, NEW a, Cuts(a, f, n, p), NEW c, Cuts(c, g, n + 1, p)
  PROVE  CutMoves(c, a, n, m, x, p)
  <1> SUFFICES /\ a \in 0 .. n
               /\ c = IF x > p THEN a + 1 ELSE a
               /\ x > p => m <= a
               /\ x <= p => a <= m
    BY DEF CutMoves
  <1> USE DEF Inserted
  <1>1. a \in 0 .. n /\ c \in 0 .. n + 1
    BY DEF Cuts
  <1>2. /\ \A k \in 1 .. n : f[k] > p <=> k <= a
        /\ \A k \in 1 .. n + 1 : g[k] > p <=> k <= c
    BY DEF Cuts
  <1>3. CASE x > p
    <2>1. m <= a
      <3>1. m \in 1 .. n => f[m] >= x /\ f[m] \in Int
        OBVIOUS
      <3> QED
        BY <1>1, <1>2, <1>3, <3>1
    <2>2. a + 1 <= c
      <3>1. a + 1 \in 1 .. n + 1 /\ g[a + 1] = IF a = m THEN x ELSE f[a]
        BY <1>1, <2>1
      <3>2. g[a + 1] > p
        BY <1>1, <1>2, <1>3, <2>1, <3>1
      <3> QED
        BY <1>2, <3>1, <3>2
    <2>3. c < a + 2
      <3> SUFFICES ASSUME a + 2 <= n + 1
                   PROVE  ~(a + 2 <= c)
        BY <1>1
      <3>1. a + 2 \in 1 .. n + 1 /\ a + 1 \in 1 .. n /\ g[a + 2] = f[a + 1]
        BY <1>1, <2>1
      <3>2. ~(f[a + 1] > p)
        BY <1>1, <1>2, <3>1
      <3> QED
        BY <1>2, <3>1, <3>2
    <2> QED
      BY <1>1, <1>3, <2>1, <2>2, <2>3
  <1>4. CASE x <= p
    <2>1. a <= m
      <3>1. a \in 1 .. n => f[a] > p /\ f[a] \in Int
        BY <1>1, <1>2
      <3> QED
        BY <1>1, <1>4, <3>1
    <2>2. a <= c
      <3> SUFFICES ASSUME a # 0
                   PROVE  a <= c
        BY <1>1
      <3>1. a \in 1 .. n /\ a \in 1 .. n + 1 /\ g[a] = f[a]
        BY <1>1, <2>1
      <3> QED
        BY <1>1, <1>2, <3>1
    <2>3. c < a + 1
      <3>1. a + 1 \in 1 .. n + 1 /\ g[a + 1] = IF a = m THEN x ELSE f[a + 1]
        BY <1>1, <2>1
      <3>2. ~(g[a + 1] > p)
        BY <1>1, <1>2, <1>4, <2>1, <3>1
      <3> QED
        BY <1>1, <1>2, <3>1, <3>2
    <2> QED
      BY <1>1, <1>4, <2>1, <2>2, <2>3
  <1> QED
    BY <1>1, <1>3, <1>4

(* The head of the queue taken away. *)
Beheaded(g, f, n) ==
  n \in Nat \ {0} /\ f \in [1 .. n -> Int] /\ g = [k \in 1 .. n - 1 |-> f[k + 1]]

CutFollows(c, a, n, x, p) ==
  a \in 0 .. n /\ c = (IF x > p THEN a - 1 ELSE 0) /\ (a = 0 <=> x <= p)

LEMMA RemovalCuts ==
  ASSUME NEW n, NEW f, NEW g, Beheaded(g, f, n),
         NEW p \in Int, NEW a, Cuts(a, f, n, p), NEW c, Cuts(c, g, n - 1, p)
  PROVE  CutFollows(c, a, n, f[1], p)
  <1> SUFFICES /\ a \in 0 .. n
               /\ c = IF f[1] > p THEN a - 1 ELSE 0
               /\ a = 0 <=> f[1] <= p
    BY DEF CutFollows
  <1> USE DEF Beheaded
  <1>1. a \in 0 .. n /\ c \in 0 .. n - 1
    BY DEF Cuts
  <1>2. /\ \A k \in 1 .. n : f[k] > p <=> k <= a
        /\ \A k \in 1 .. n - 1 : g[k] > p <=> k <= c
    BY DEF Cuts
  <1>3. f[1] \in Int /\ (f[1] > p <=> 1 <= a)
    BY <1>2
  <1>4. \A k \in 1 .. n - 1 : k + 1 \in 1 .. n /\ g[k] = f[k + 1]
    OBVIOUS
  <1>5. \A k \in 1 .. n - 1 : k + 1 <= a <=> k <= c
    BY <1>2, <1>4
  <1>6. CASE a = 0
    <2>1. c = 0
      <3>1. c \in Int /\ (c # 0 => c \in 1 .. n - 1)
        BY <1>1
      <3>2. c # 0 => c + 1 <= a
        BY <1>5, <3>1
      <3> QED
        BY <1>1, <1>6, <3>1, <3>2
    <2> QED
      BY <1>1, <1>3, <1>6, <2>1
  <1>7. CASE a # 0
    <2>1. a - 1 <= c
      <3>1. a - 1 \in Int /\ (a - 1 # 0 => a - 1 \in 1 .. n - 1) /\ (a - 1) + 1 <= a
        BY <1>1, <1>7
      <3>2. a - 1 # 0 => a - 1 <= c
        BY <1>5, <3>1
      <3> QED
        BY <1>1, <1>7, <3>1, <3>2
    <2>2. c <= a - 1
      <3>1. c \in Int /\ (c # 0 => c \in 1 .. n - 1)
        BY <1>1
      <3>2. c # 0 => c + 1 <= a
        BY <1>5, <3>1
      <3> QED
        BY <1>1, <1>7, <3>1, <3>2
    <2> QED
      BY <1>1, <1>3, <1>7, <2>1, <2>2
  <1> QED
    BY <1>6, <1>7

(* What add_work does to the lanes: its request joins the one of its       *)
(* priority, at the end.                                                   *)
LEMMA AddSignalAppends ==
  ASSUME IInv, IInv', NEW t \in Threads, AddSignal(t), NEW p \in Int
  PROVE  Lane(p)' = IF p = Priority[req[t]] THEN Append(Lane(p), req[t]) ELSE Lane(p)
  <1>1. /\ i[t] \in 0 .. size /\ size' = size + 1
        /\ req[t] \in Requests /\ Priority[req[t]] \in Int
        /\ Queue' = [k \in 1 .. size + 1 |->
                      IF k <= i[t] THEN Queue[k]
                      ELSE IF k = i[t] + 1 THEN req[t]
                      ELSE Queue[k - 1]]
    BY AddSignalInserts
  <1>2. Ranked /\ Ranked'
    BY QueueIsRanked, PTL
  <1>3. PICK n, m, q, f, g :
           /\ n = size /\ m = i[t] /\ q = Priority[req[t]] /\ f = Ranks /\ g = Ranks'
           /\ n \in Nat /\ m \in 0 .. n /\ q \in Int /\ f \in [1 .. n -> Int]
    BY <1>1, <1>2 DEF Ranked
  <1>4. PICK a, b, c, d : /\ a = Above(p) /\ b = Above(p - 1)
                          /\ c = Above(p)' /\ d = Above(p - 1)'
    OBVIOUS
  <1>5. /\ Cuts(a, f, n, p) /\ Cuts(b, f, n, p - 1)
        /\ Cuts(c, g, n + 1, p) /\ Cuts(d, g, n + 1, p - 1)
    BY <1>1, <1>2, <1>3, <1>4 DEF Ranked
  <1>6. \A k \in 1 .. n : (k > m => f[k] < q) /\ (k <= m => f[k] >= q)
    BY <1>3 DEF IInv, Position, AddSignal, Ranks
  <1>7. Inserted(g, f, n, m, q)
    <2>1. g = [k \in 1 .. n + 1 |-> IF k <= m THEN f[k] ELSE IF k = m + 1 THEN q ELSE f[k - 1]]
      BY <1>1, <1>3 DEF Ranks
    <2> QED
      BY <1>1, <1>3, <1>6, <2>1 DEF Inserted
  <1>8. /\ a \in 0 .. n /\ c = (IF q > p THEN a + 1 ELSE a)
        /\ q > p => m <= a
        /\ q <= p => a <= m
    BY <1>5, <1>7, InsertionCuts DEF CutMoves
  <1>9. /\ b \in 0 .. n /\ d = (IF q > p - 1 THEN b + 1 ELSE b)
        /\ q > p - 1 => m <= b
        /\ q <= p - 1 => b <= m
    <2>1. p - 1 \in Int
      OBVIOUS
    <2>2. CutMoves(d, b, n, m, q, p - 1)
      BY <1>5, <1>7, <2>1, InsertionCuts
    <2> QED
      BY <2>2 DEF CutMoves
  <1>10. /\ Lane(p) = [k \in 1 .. b - a |-> Queue[a + k]]
         /\ Lane(p)' = [k \in 1 .. d - c |-> Queue'[c + k]]
    BY <1>4 DEF Lane
  <1>11. CASE q < p
    <2>1. c = a /\ d = b /\ b <= m
      BY <1>3, <1>8, <1>9, <1>11
    <2>2. \A k \in 1 .. b - a : Queue'[c + k] = Queue[a + k]
      BY <1>1, <1>3, <1>8, <1>9, <2>1
    <2>3. q # p /\ q = Priority[req[t]]
      BY <1>3, <1>11
    <2>4. Lane(p)' = Lane(p)
      BY <1>10, <2>1, <2>2
    <2> QED
      BY <2>3, <2>4
  <1>12. CASE q > p
    <2>1. c = a + 1 /\ d = b + 1 /\ m <= a
      BY <1>3, <1>8, <1>9, <1>12
    <2>2. ASSUME NEW k \in 1 .. b - a
          PROVE  Queue'[c + k] = Queue[a + k]
      <3>1. c + k \in 1 .. n + 1 /\ c + k > m + 1 /\ (c + k) - 1 = a + k
        BY <1>3, <1>8, <1>9, <2>1
      <3>2. Queue'[c + k] = Queue[(c + k) - 1]
        BY <1>1, <1>3, <3>1
      <3> QED
        BY <3>1, <3>2
    <2>3. d - c = b - a
      BY <1>8, <1>9, <2>1
    <2>4. q # p /\ q = Priority[req[t]]
      BY <1>3, <1>12
    <2>5. Lane(p)' = Lane(p)
      BY <1>10, <2>2, <2>3
    <2> QED
      BY <2>4, <2>5
  <1>13. CASE q = p
    <2>1. c = a /\ d = b + 1 /\ m <= b /\ a <= m
      BY <1>3, <1>8, <1>9, <1>13
    <2>2. m = b
      <3>1. b # 0 => f[b] > p - 1 /\ f[b] \in Int
        BY <1>3, <1>5, <1>9 DEF Cuts
      <3> QED
        BY <1>3, <1>6, <1>9, <1>13, <2>1, <3>1
    <2>3. Lane(p)' = [k \in 1 .. b - a + 1 |-> IF k = b - a + 1 THEN req[t] ELSE Queue[a + k]]
      <3>1. d - c = b - a + 1
        BY <1>8, <1>9, <2>1
      <3>2. \A k \in 1 .. b - a + 1 :
               Queue'[c + k] = IF k = b - a + 1 THEN req[t] ELSE Queue[a + k]
        <4> SUFFICES ASSUME NEW k \in 1 .. b - a + 1
                     PROVE  Queue'[c + k] = IF k = b - a + 1 THEN req[t] ELSE Queue[a + k]
          OBVIOUS
        <4>1. c + k \in 1 .. n + 1 /\ (k = b - a + 1 <=> c + k = m + 1) /\ c + k = a + k
          BY <1>3, <1>8, <1>9, <2>1, <2>2
        <4>2. k # b - a + 1 => c + k <= m
          BY <1>3, <1>8, <1>9, <2>1, <2>2
        <4>3. k = b - a + 1 => ~(c + k <= m)
          BY <1>3, <1>8, <1>9, <2>1, <2>2
        <4>4. c + k \in 1 .. size + 1 /\ m = i[t]
          BY <1>3, <4>1
        <4>5. Queue'[c + k] = IF c + k <= i[t] THEN Queue[c + k]
                              ELSE IF c + k = i[t] + 1 THEN req[t] ELSE Queue[(c + k) - 1]
          BY <1>1, <4>4
        <4>6. CASE k = b - a + 1
          BY <4>1, <4>3, <4>4, <4>5, <4>6
        <4>7. CASE k # b - a + 1
          BY <4>1, <4>2, <4>4, <4>5, <4>7
        <4> QED
          BY <4>6, <4>7
      <3> QED
        BY <1>10, <3>1, <3>2
    <2>4. Len(Lane(p)) = b - a
      <3>1. b - a \in Nat
        BY <1>3, <1>8, <1>9, <2>1
      <3> QED
        BY <1>10, <3>1
    <2>5. q = p /\ q = Priority[req[t]] /\ b - a \in Nat
      BY <1>3, <1>8, <1>9, <1>13, <2>1
    <2>6. Append(Lane(p), req[t]) =
             [k \in 1 .. b - a + 1 |-> IF k = b - a + 1 THEN req[t] ELSE Queue[a + k]]
      BY <1>10, <2>4, <2>5
    <2> QED
      BY <2>3, <2>5, <2>6
  <1> QED
    BY <1>3, <1>11, <1>12, <1>13

(* What move_down does to the lanes: its request leaves the front of the   *)
(* one of its priority, and no higher one holds a request.                 *)
LEMMA MoveDownTakes ==
  ASSUME IInv, IInv', NEW t \in Threads, MoveDownSize(t), NEW p \in Int
  PROVE  /\ Lane(p)' = IF p = Priority[req[t]] THEN Tail(Lane(p)) ELSE Lane(p)
         /\ p = Priority[req[t]] => Lane(p) # <<>>
         /\ p > Priority[req[t]] => Lane(p) = <<>>
  <1>1. /\ size \in 1 .. Capacity /\ size' = size - 1
        /\ Queue[1] = req[t] /\ Queue' = [k \in 1 .. size - 1 |-> Queue[k + 1]]
    BY MoveDownSizeRemoves
  <1>2. Ranked /\ Ranked'
    BY QueueIsRanked, PTL
  <1>3. PICK n, f, g : /\ n = size /\ f = Ranks /\ g = Ranks'
                       /\ n \in Nat \ {0} /\ f \in [1 .. n -> Int]
    BY <1>1, <1>2 DEF Ranked
  <1>4. PICK a, b, c, d : /\ a = Above(p) /\ b = Above(p - 1)
                          /\ c = Above(p)' /\ d = Above(p - 1)'
    OBVIOUS
  <1>5. /\ Cuts(a, f, n, p) /\ Cuts(b, f, n, p - 1)
        /\ Cuts(c, g, n - 1, p) /\ Cuts(d, g, n - 1, p - 1)
    BY <1>1, <1>2, <1>3, <1>4 DEF Ranked
  <1>6. Beheaded(g, f, n)
    <2>1. g = [k \in 1 .. n - 1 |-> f[k + 1]]
      BY <1>1, <1>3 DEF Ranks
    <2> QED
      BY <1>3, <2>1 DEF Beheaded
  <1>7. PICK q \in Int : q = Priority[req[t]] /\ q = f[1]
    BY <1>1, <1>3 DEF Ranks
  <1>8. a \in 0 .. n /\ c = (IF q > p THEN a - 1 ELSE 0) /\ (a = 0 <=> q <= p)
    BY <1>5, <1>6, <1>7, RemovalCuts DEF CutFollows
  <1>9. b \in 0 .. n /\ d = (IF q > p - 1 THEN b - 1 ELSE 0) /\ (b = 0 <=> q <= p - 1)
    <2>1. p - 1 \in Int
      OBVIOUS
    <2>2. CutFollows(d, b, n, f[1], p - 1)
      BY <1>5, <1>6, <2>1, RemovalCuts
    <2> QED
      BY <1>7, <2>2 DEF CutFollows
  <1>10. /\ Lane(p) = [k \in 1 .. b - a |-> Queue[a + k]]
         /\ Lane(p)' = [k \in 1 .. d - c |-> Queue'[c + k]]
    BY <1>4 DEF Lane
  <1>11. CASE q < p
    <2>1. a = 0 /\ b = 0 /\ c = 0 /\ d = 0
      BY <1>8, <1>9, <1>11
    <2>2. Lane(p) = <<>> /\ Lane(p)' = <<>>
      BY <1>10, <2>1
    <2> QED
      BY <1>7, <1>11, <2>2
  <1>12. CASE q > p
    <2>1. c = a - 1 /\ d = b - 1 /\ a > 0 /\ b > 0 /\ d - c = b - a
      BY <1>8, <1>9, <1>12
    <2>2. \A k \in 1 .. b - a : Queue'[c + k] = Queue[a + k]
      BY <1>1, <1>3, <1>8, <1>9, <2>1
    <2>3. q # p /\ ~(p > q) /\ q = Priority[req[t]]
      BY <1>7, <1>12
    <2>4. Lane(p)' = Lane(p)
      BY <1>10, <2>1, <2>2
    <2> QED
      BY <2>3, <2>4
  <1>13. CASE q = p
    <2>1. a = 0 /\ c = 0 /\ d = b - 1 /\ b > 0
      BY <1>8, <1>9, <1>13
    <2>2. Lane(p) = [k \in 1 .. b |-> Queue[k]] /\ b \in Nat \ {0}
      BY <1>9, <1>10, <2>1
    <2>3. Lane(p)' = [k \in 1 .. b - 1 |-> Queue[k + 1]]
      BY <1>1, <1>3, <1>9, <1>10, <2>1
    <2>4. Lane(p) # <<>> /\ Tail(Lane(p)) = [k \in 1 .. b - 1 |-> Queue[k + 1]]
      BY <2>2
    <2> QED
      BY <1>7, <1>13, <2>3, <2>4
  <1> QED
    BY <1>7, <1>11, <1>12, <1>13

(* What the lanes hold is the queue. *)
LEMMA QueuedIsQueue ==
  ASSUME IInv
  PROVE  /\ \A r \in Promise!Queued : \E k \in 1 .. size : r = Queue[k]
         /\ IsFiniteSet(Promise!Queued) /\ Cardinality(Promise!Queued) \in Nat
         /\ Cardinality(Promise!Queued) <= size
  <1>1. Ranked
    BY QueueIsRanked
  <1>2. ASSUME NEW p \in Int
        PROVE  \A r \in Range(Lane(p)) : \E k \in 1 .. size : r = Queue[k]
    <2>1. PICK a, b : a = Above(p) /\ b = Above(p - 1)
      OBVIOUS
    <2>2. a \in 0 .. size /\ b \in 0 .. size
      <3>1. p - 1 \in Int
        OBVIOUS
      <3> QED
        BY <1>1, <2>1, <3>1 DEF Ranked, Cuts
    <2>3. Lane(p) = [k \in 1 .. b - a |-> Queue[a + k]]
      BY <2>1 DEF Lane
    <2>4. \A k \in 1 .. b - a : a + k \in 1 .. size
      BY <1>1, <2>2 DEF Ranked
    <2> QED
      BY <2>3, <2>4 DEF Range
  <1>3. \A r \in Promise!Queued : \E k \in 1 .. size : r = Queue[k]
    <2> SUFFICES ASSUME NEW r \in Promise!Queued
                 PROVE  \E k \in 1 .. size : r = Queue[k]
      OBVIOUS
    <2>1. PICK p \in Promise!Levels : r \in Promise!ToSet(Lanes[p])
      BY DEF Promise!Queued
    <2>2. p \in Int /\ Lanes[p] = Lane(p)
      BY <2>1 DEF Promise!Levels, Lanes
    <2> QED
      BY <1>2, <2>1, <2>2 DEF Promise!ToSet, Range
  <1>4. PICK S : S = { Queue[k] : k \in 1 .. size }
    OBVIOUS
  <1>5. [k \in 1 .. size |-> Queue[k]] \in Surjection(1 .. size, S)
    BY <1>4 DEF Surjection
  <1>6. IsFiniteSet(1 .. size) /\ Cardinality(1 .. size) = size
    BY <1>1, FS_Interval DEF Ranked
  <1>7. IsFiniteSet(S) /\ Cardinality(S) <= size
    BY <1>5, <1>6, FS_Surjection
  <1>8. Promise!Queued \in SUBSET S
    BY <1>3, <1>4
  <1>9. IsFiniteSet(Promise!Queued) /\ Cardinality(Promise!Queued) <= Cardinality(S)
    BY <1>7, <1>8, FS_Subset
  <1>10. Cardinality(Promise!Queued) \in Nat /\ Cardinality(S) \in Nat
    BY <1>7, <1>9, FS_CardinalityType
  <1> QED
    BY <1>1, <1>3, <1>7, <1>9, <1>10 DEF Ranked

LEMMA InitRefines == Init => Promise!Init
  <1> SUFFICES ASSUME Init
               PROVE  Lanes = [p \in Promise!Levels |-> <<>>]
    BY DEF Promise!Init
  <1>1. Ranked /\ size = 0
    BY InitIInv, QueueIsRanked DEF Init
  <1>2. ASSUME NEW p \in Int
        PROVE  Lane(p) = <<>>
    <2>1. Above(p) = 0 /\ Above(p - 1) = 0
      <3>1. p - 1 \in Int
        OBVIOUS
      <3> QED
        BY <1>1, <3>1 DEF Ranked, Cuts
    <2> QED
      BY <2>1 DEF Lane
  <1>3. \A p \in Promise!Levels : p \in Int
    BY DEF Promise!Levels
  <1> QED
    BY <1>2, <1>3 DEF Lanes, Promise!Levels

LEMMA AddSignalEnqueues ==
  ASSUME IInv, IInv', NEW t \in Threads, AddSignal(t)
  PROVE  \E r \in Requests : Promise!Enqueue(r)
  <1>1. /\ size < Capacity /\ size \in Nat /\ req[t] \in Requests
        /\ \A k \in 1 .. size : req[t] # Queue[k]
    <2>1. size < Capacity /\ req[t] \in Requests
      BY AddSignalInserts
    <2>2. size \in Nat /\ \A k \in 1 .. size : req[t] # Queue[k]
      BY DEF IInv, TypeOK, OneOwner, AddSignal
    <2> QED
      BY <2>1, <2>2
  <1>2. req[t] \notin Promise!Queued /\ Promise!Room
    <2>1. req[t] \notin Promise!Queued
      BY <1>1, QueuedIsQueue
    <2>2. Cardinality(Promise!Queued) \in Nat /\ Cardinality(Promise!Queued) <= size
      BY QueuedIsQueue
    <2>3. Promise!Cardinality(Promise!Queued) = Cardinality(Promise!Queued)
      BY Zenon DEF Promise!Cardinality, Cardinality
    <2>4. Promise!Room
      BY <1>1, <2>2, <2>3 DEF Promise!Room
    <2> QED
      BY <2>1, <2>4
  <1>3. PICK r \in Requests : r = req[t]
    BY <1>1
  <1>4. \A p \in Promise!Levels : p \in Int
    BY DEF Promise!Levels
  <1>5. \A p \in Promise!Levels :
           Lane(p)' = IF p = Priority[r] THEN Append(Lane(p), r) ELSE Lane(p)
    BY <1>3, <1>4, AddSignalAppends
  <1>6. Priority[r] \in Promise!Levels
    BY DEF Promise!Levels
  <1>7. Lanes' = [Lanes EXCEPT ![Priority[r]] = Append(@, r)]
    BY <1>5, <1>6 DEF Lanes, Promise!Levels
  <1> QED
    BY <1>2, <1>3, <1>7 DEF Promise!Enqueue

LEMMA MoveDownDequeues ==
  ASSUME IInv, IInv', NEW t \in Threads, MoveDownSize(t)
  PROVE  \E p \in Promise!Levels : Promise!Dequeue(p)
  <1>1. req[t] \in Requests
    BY DEF IInv, Hands, MoveDownSize
  <1>2. PICK q \in Promise!Levels : q = Priority[req[t]]
    BY <1>1 DEF Promise!Levels
  <1>3. \A p \in Promise!Levels : p \in Int
    BY DEF Promise!Levels
  <1>4. \A p \in Promise!Levels :
           /\ Lane(p)' = IF p = q THEN Tail(Lane(p)) ELSE Lane(p)
           /\ p = q => Lane(p) # <<>>
           /\ p > q => Lane(p) = <<>>
    BY <1>2, <1>3, MoveDownTakes
  <1>5. \A p \in Promise!Levels : Lanes[p] = Lane(p)
    BY DEF Lanes, Promise!Levels
  <1>6. Lanes' = [Lanes EXCEPT ![q] = Tail(@)]
    BY <1>4 DEF Lanes, Promise!Levels
  <1> QED
    BY <1>4, <1>5, <1>6 DEF Promise!Dequeue

(* Every other step leaves the queue as it is. *)
LEMMA SameQueueSameLanes ==
  ASSUME Queue' = Queue, size' = size
  PROVE  UNCHANGED Lanes
  BY DEF Lanes, Lane, Above

LEMMA StepRefines == IInv /\ IInv' /\ [Next]_vars => [Promise!Next]_Lanes
  <1> SUFFICES ASSUME IInv, IInv', [Next]_vars
               PROVE  Promise!Next \/ UNCHANGED Lanes
    OBVIOUS
  <1>1. CASE UNCHANGED queueVars
    BY <1>1, SameQueueSameLanes DEF queueVars, Queue, Inserting, Removing, Without
  <1>2. ASSUME NEW t \in Threads, AddSignal(t)
        PROVE  Promise!Next
    BY <1>2, AddSignalEnqueues DEF Promise!Next
  <1>3. ASSUME NEW t \in Threads, MoveDownSize(t)
        PROVE  Promise!Next
    BY <1>3, MoveDownDequeues DEF Promise!Next
  <1>4. ASSUME NEW t \in Threads,
               Action(t), ~AddSignal(t), ~MoveDownSize(t)
        PROVE  UNCHANGED Lanes
    BY <1>4, SameQueueSameLanes, CallAddIInv, AddLockIInv, AddShiftIInv, AddPlaceIInv,
       AddUnlockIInv, CallGetIInv, GetTakeIInv, MoveDownIInv, GetUnlockIInv, DisplayIInv
       DEF Action, Step
  <1> QED
    BY <1>1, <1>2, <1>3, <1>4, QueueSteps

(* For any number of threads, any requests and any capacity: the array     *)
(* that add_work and move_down shift in place, with its lock, implements   *)
(* one FIFO lane per priority.  No request is lost, none is served before  *)
(* an older one of its priority or before one of a higher priority.        *)
THEOREM QueueImplementsPriorityQueue == Spec => ImplementsPriorityQueue
  BY Invariance, InitRefines, StepRefines, PTL
     DEF Spec, ImplementsPriorityQueue, Promise!Spec
=============================================================================
