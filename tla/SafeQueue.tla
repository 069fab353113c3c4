------------------------------ MODULE SafeQueue ------------------------------
(***************************************************************************)
(* p6/starter-code/safequeue.c: the bounded priority queue shared by the   *)
(* listener and worker threads of the proxy, at the granularity of its     *)
(* array accesses.                                                         *)
(*                                                                         *)
(* Adders call add_work and then display (proxyserver.c:404-405), Getters  *)
(* call get_work and then display (proxyserver.c:509-510).  add_work and   *)
(* get_work hold queue->lock, display holds nothing.  Steps taken under    *)
(* the lock are split wherever display, which reads size and elements      *)
(* without the lock, could tell the difference.                            *)
(***************************************************************************)
EXTENDS Integers, FiniteSets, Sequences

CONSTANTS
    Adders,     \* threads that call add_work: the listeners
    Getters,    \* threads that call get_work: the workers (and listeners)
    Requests,   \* the ClientRequest objects
    Priority,   \* Priority[r]: request->priority
    Capacity,   \* queue->capacity, max_queue_size
    NoThread,   \* the value of lock when no thread holds it
    NoRequest   \* what a cell that was never written holds

Threads == Adders \cup Getters

ASSUME SafeQueueAssumption ==
    /\ IsFiniteSet(Threads)
    /\ Capacity \in Nat
    /\ Priority \in [Requests -> Int]
    /\ NoRequest \notin Requests
    /\ NoThread \notin Threads

VARIABLES
    elements,   \* queue->elements, and one cell past its end
    size,       \* queue->size
    lock,       \* the thread that holds queue->lock
    pc,         \* where each thread is
    req,        \* the request each thread is adding, or has got
    i,          \* the loop index of each thread
    up          \* no invalid pointer has killed the process

queueVars == <<elements, size, lock, pc, req, i>>
vars == <<queueVars, up>>

(***************************************************************************)
(* Index Capacity is the word after the array, which move_down reads when  *)
(* the queue is full.                                                      *)
(***************************************************************************)
Cells == 0 .. Capacity

(* Program points inside the critical section. *)
Adding   == {"shift", "grow", "addUnlock"}
Getting  == {"down", "getUnlock"}
Critical == Adding \cup Getting

Points == {"idle", "addLock", "getLock", "wait", "display"} \cup Critical

(***************************************************************************)
(* The queue the array stands for.  size changes once in each operation,   *)
(* and that step is where the operation takes effect: until then the cell  *)
(* at the inserting thread's index is not in the queue yet, and the        *)
(* request a removing thread copied from the front is still its head.      *)
(***************************************************************************)
Inserting == lock # NoThread /\ pc[lock] \in {"shift", "grow"}
Removing  == lock # NoThread /\ pc[lock] = "down"

(* The array without the cell at index hole. *)
Without(hole, k) == IF k < hole THEN elements[k] ELSE elements[k + 1]

Queue == [k \in 1 .. size |->
    IF Removing THEN IF k = 1 THEN req[lock] ELSE Without(i[lock], k - 2)
    ELSE IF Inserting THEN Without(i[lock], k - 1)
    ELSE elements[k - 1]]

(* A ClientRequest is malloc'ed for one connection: no two are one. *)
InUse == { req[t] : t \in Threads } \cup { Queue[k] : k \in 1 .. size }

Init ==
    /\ elements = [k \in Cells |-> NoRequest]
    /\ size = 0
    /\ lock = NoThread
    /\ pc = [t \in Threads |-> "idle"]
    /\ req = [t \in Threads |-> NoRequest]
    /\ i = [t \in Threads |-> 0]
    /\ up = TRUE

Goto(t, point) == pc' = [pc EXCEPT ![t] = point]
Index(t, k) == i' = [i EXCEPT ![t] = k]

-----------------------------------------------------------------------------
(* add_work *)

CallAdd(t) ==
    /\ t \in Adders
    /\ pc[t] = "idle"
    /\ \E r \in Requests \ InUse : req' = [req EXCEPT ![t] = r]
    /\ Goto(t, "addLock")
    /\ UNCHANGED <<elements, size, lock, i>>

(* A variant with an off-by-one in the test for a full queue. *)
AddLockOffByOne(t) ==
    /\ pc[t] = "addLock"
    /\ lock = NoThread
    /\ lock' = t
    /\ \/ size <= Capacity /\ Goto(t, "shift") /\ Index(t, size)
       \/ size > Capacity /\ Goto(t, "addUnlock") /\ UNCHANGED i
    /\ UNCHANGED <<elements, size, req>>

AddLock(t) ==
    /\ pc[t] = "addLock"
    /\ lock = NoThread
    /\ lock' = t
    /\ \/ size < Capacity /\ Goto(t, "shift") /\ Index(t, size)
       \/ size >= Capacity /\ Goto(t, "addUnlock") /\ UNCHANGED i
    /\ UNCHANGED <<elements, size, req>>

(* Variants: the comparison the wrong way round, and not strict. *)
MustShiftReversed(t) ==
    i[t] > 0 /\ Priority[elements[i[t] - 1]] > Priority[req[t]]

MustShiftEquals(t) ==
    i[t] > 0 /\ Priority[elements[i[t] - 1]] <= Priority[req[t]]

MustShift(t) ==
    i[t] > 0 /\ Priority[elements[i[t] - 1]] < Priority[req[t]]

AddShift(t) ==
    /\ pc[t] = "shift"
    /\ MustShift(t)
    /\ elements' = [elements EXCEPT ![i[t]] = elements[i[t] - 1]]
    /\ Index(t, i[t] - 1)
    /\ UNCHANGED <<size, lock, pc, req>>

AddPlace(t) ==
    /\ pc[t] = "shift"
    /\ ~MustShift(t)
    /\ elements' = [elements EXCEPT ![i[t]] = req[t]]
    /\ Goto(t, "grow")
    /\ UNCHANGED <<size, lock, req, i>>

Waiting == { t \in Threads : pc[t] = "wait" }

(* Variants: nobody is signalled, or only by the first request queued. *)
AddSignalNobody(t) ==
    /\ pc[t] = "grow"
    /\ size' = size + 1
    /\ Goto(t, "addUnlock")
    /\ req' = [req EXCEPT ![t] = NoRequest]
    /\ UNCHANGED <<elements, lock, i>>

AddSignalFirst(t) ==
    /\ pc[t] = "grow"
    /\ size' = size + 1
    /\ \/ (Waiting = {} \/ size > 0) /\ Goto(t, "addUnlock")
       \/ size = 0 /\ \E w \in Waiting :
             pc' = [pc EXCEPT ![t] = "addUnlock", ![w] = "getLock"]
    /\ req' = [req EXCEPT ![t] = NoRequest]
    /\ UNCHANGED <<elements, lock, i>>

(***************************************************************************)
(* size++ hands the request over; pthread_cond_signal releases one waiting *)
(* thread, which has to take the lock again before it re-reads size.       *)
(***************************************************************************)
AddSignal(t) ==
    /\ pc[t] = "grow"
    /\ size' = size + 1
    /\ \/ Waiting = {} /\ Goto(t, "addUnlock")
       \/ \E w \in Waiting :
             pc' = [pc EXCEPT ![t] = "addUnlock", ![w] = "getLock"]
    /\ req' = [req EXCEPT ![t] = NoRequest]
    /\ UNCHANGED <<elements, lock, i>>

(* A request that found the queue full is forgotten here. *)
AddUnlock(t) ==
    /\ pc[t] = "addUnlock"
    /\ lock' = NoThread
    /\ Goto(t, "display")
    /\ Index(t, 0)
    /\ req' = [req EXCEPT ![t] = NoRequest]
    /\ UNCHANGED <<elements, size>>

-----------------------------------------------------------------------------
(* get_work and move_down *)

CallGet(t) ==
    /\ t \in Getters
    /\ pc[t] = "idle"
    /\ Goto(t, "getLock")
    /\ UNCHANGED <<elements, size, lock, req, i>>

(* pthread_cond_wait releases the lock as it starts to wait. *)
GetWait(t) ==
    /\ pc[t] = "getLock"
    /\ lock = NoThread
    /\ size = 0
    /\ Goto(t, "wait")
    /\ UNCHANGED <<elements, size, lock, req, i>>

(* A variant that does not take the lock first. *)
GetTakeUnlocked(t) ==
    /\ pc[t] = "getLock"
    /\ size # 0
    /\ lock' = t
    /\ req' = [req EXCEPT ![t] = elements[0]]
    /\ Goto(t, "down")
    /\ Index(t, 0)
    /\ UNCHANGED <<elements, size>>

GetTake(t) ==
    /\ pc[t] = "getLock"
    /\ lock = NoThread
    /\ size # 0
    /\ lock' = t
    /\ req' = [req EXCEPT ![t] = elements[0]]
    /\ Goto(t, "down")
    /\ Index(t, 0)
    /\ UNCHANGED <<elements, size>>

(* The loop of move_down runs to i = size - 1 and so reads elements[size]. *)
MoveDown(t) ==
    /\ pc[t] = "down"
    /\ i[t] < size
    /\ elements' = [elements EXCEPT ![i[t]] = elements[i[t] + 1]]
    /\ Index(t, i[t] + 1)
    /\ UNCHANGED <<size, lock, pc, req>>

MoveDownSize(t) ==
    /\ pc[t] = "down"
    /\ i[t] >= size
    /\ size' = size - 1
    /\ Goto(t, "getUnlock")
    /\ UNCHANGED <<elements, lock, req, i>>

GetUnlock(t) ==
    /\ pc[t] = "getUnlock"
    /\ lock' = NoThread
    /\ Goto(t, "display")
    /\ Index(t, 0)
    /\ UNCHANGED <<elements, size, req>>

(* POSIX lets pthread_cond_wait return without a signal. *)
SpuriousWakeup(t) ==
    /\ pc[t] = "wait"
    /\ Goto(t, "getLock")
    /\ UNCHANGED <<elements, size, lock, req, i>>

-----------------------------------------------------------------------------
(* display: no lock; dereferences elements[i] for each i below size        *)

(* move_down has copied the cell after the last request into the queue,    *)
(* and has not decreased size yet: if nothing was ever written there, or   *)
(* it is the word after the array, what display finds is no pointer.       *)
DisplayDies(t) ==
    /\ pc[t] = "display"
    /\ i[t] < size
    /\ elements[i[t]] = NoRequest
    /\ up' = FALSE
    /\ UNCHANGED queueVars

Display(t) ==
    /\ pc[t] = "display"
    /\ i[t] < size
    /\ Index(t, i[t] + 1)
    /\ UNCHANGED <<elements, size, lock, pc, req>>

(* The thread goes on to serve what it got, and comes back for more. *)
DisplayEnd(t) ==
    /\ pc[t] = "display"
    /\ i[t] >= size
    /\ Goto(t, "idle")
    /\ req' = [req EXCEPT ![t] = NoRequest]
    /\ UNCHANGED <<elements, size, lock, i>>

-----------------------------------------------------------------------------
Step(t) ==
    \/ AddLock(t) \/ AddShift(t) \/ AddPlace(t) \/ AddSignal(t) \/ AddUnlock(t)
    \/ GetWait(t) \/ GetTake(t) \/ MoveDown(t) \/ MoveDownSize(t) \/ GetUnlock(t)
    \/ Display(t) \/ DisplayEnd(t)

Action(t) == CallAdd(t) \/ CallGet(t) \/ SpuriousWakeup(t) \/ Step(t)

Next ==
    \/ up /\ \E t \in Threads : Action(t) /\ UNCHANGED up
    \/ up /\ \E t \in Threads : DisplayDies(t)
    \/ ~up /\ UNCHANGED vars

Spec == Init /\ [][Next]_vars

(***************************************************************************)
(* The operating system runs every thread that can run, and hands a free   *)
(* mutex to a thread that keeps asking for it.  Nothing makes a listener   *)
(* receive a request.                                                      *)
(***************************************************************************)
Fairness == \A t \in Threads :
    /\ WF_vars(up /\ Step(t) /\ UNCHANGED up)
    /\ SF_vars(up /\ GetTake(t) /\ UNCHANGED up)
    /\ WF_vars(up /\ CallGet(t) /\ UNCHANGED up)

FairSpec == Spec /\ Fairness

-----------------------------------------------------------------------------
(* Properties *)

(* Every variable of the queue and of its threads has its type; size and   *)
(* the indices of the loops stay within the array and the cell after it.   *)
TypeOK ==
    /\ elements \in [Cells -> Requests \cup {NoRequest}]
    /\ size \in 0 .. Capacity
    /\ lock \in Threads \cup {NoThread}
    /\ pc \in [Threads -> Points]
    /\ req \in [Threads -> Requests \cup {NoRequest}]
    /\ i \in [Threads -> 0 .. Capacity]

(* The queue is sorted by priority at every instant, also half way through *)
(* the shifting loops of add_work and move_down, and holds no request      *)
(* twice and no cell that was never written.                               *)
QueueSorted ==
    /\ \A k \in 1 .. size : Queue[k] \in Requests
    /\ \A j, k \in 1 .. size : j < k =>
          Queue[j] # Queue[k] /\ Priority[Queue[j]] >= Priority[Queue[k]]

(* A request is in one place: in the queue, or in the hands of one thread. *)
(* Two workers never serve one request, and none is served while queued.   *)
OneOwner ==
    /\ \A t, u \in Threads :
          t # u /\ req[t] # NoRequest => req[t] # req[u]
    /\ \A t \in Threads : \A k \in 1 .. size :
          pc[t] # "down" => req[t] # Queue[k]

(* No wake-up is lost: while get_work's callers wait on the condition      *)
(* variable, each queued request has a thread that is awake in get_work    *)
(* and has still to take it: one signal per request is enough, although a  *)
(* thread that never waited may take the request another was woken for.    *)
NoLostWakeup ==
    Waiting # {} =>
        Cardinality({ t \in Threads : pc[t] \in {"getLock", "down"} }) >= size

(* How many requests of the queue have a priority above p, and the lane of *)
(* p: those of priority p, which are neighbours because the queue is       *)
(* sorted, behind all of a higher one.                                     *)
Above(p) == Cardinality({ k \in 1 .. size : Priority[Queue[k]] > p })

Lane(p) == [k \in 1 .. Above(p - 1) - Above(p) |-> Queue[Above(p) + k]]

Lanes == [p \in { Priority[r] : r \in Requests } |-> Lane(p)]

Promise == INSTANCE PriorityQueue WITH lanes <- Lanes

(* The sorted array, shifted in place, implements one FIFO lane for each   *)
(* priority: highest priority first, oldest first among equals.            *)
ImplementsPriorityQueue == Promise!Spec
=============================================================================
