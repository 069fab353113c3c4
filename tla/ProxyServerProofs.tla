-------------------------- MODULE ProxyServerProofs --------------------------
(***************************************************************************)
(* Proofs about p6's proxy for any number of clients, listeners and workers *)
(* and any capacity: every request is held in one place, with its          *)
(* connection open and unanswered, until it is answered or dropped for one *)
(* of the two reasons the code has.                                        *)
(***************************************************************************)
EXTENDS ProxyServer, FiniteSetTheorems, SequenceTheorems, TLAPS

Statuses == {"QUEUE_EMPTY", "JOB", "QUEUE_FULL", "BAD_REQUEST", "BAD_GATEWAY", "FILE"}

ListenerPoints == {"accept", "get_work", "reply", "add_work"} \cup AllKinds

Typed ==
    /\ lanes \in [Q!Levels -> Seq(Clients)]
    /\ backlog \in [Listeners -> Seq(Clients)]
    /\ conn \in [Clients -> {"away", "waiting", "open"}]
    /\ sent \in [Clients -> AllKinds \cup {"nothing"}]
    /\ answer \in [Clients -> Seq(Statuses)]
    /\ lpc \in [Listeners -> ListenerPoints]
    /\ lreq \in [Listeners -> Clients \cup {NoClient}]
    /\ ljob \in [Listeners -> Clients \cup {NoClient}]
    /\ wpc \in [Workers -> {"get", "serve", "connect", "send", "relay"}]
    /\ wreq \in [Workers -> Clients \cup {NoClient}]

(* A lane holds requests of its own priority, each once. *)
InLanes == \A p \in Q!Levels : \A j, k \in 1 .. Len(lanes[p]) :
    /\ Priority[lanes[p][j]] = p
    /\ lanes[p][j] = lanes[p][k] => j = k

(* add_work keeps within the capacity. *)
Fits == Q!Queued \subseteq Clients /\ size <= Capacity

(* Who waits to be accepted waits in one backlog, once. *)
Backlogs ==
    /\ \A l \in Listeners : \A j \in 1 .. Len(backlog[l]) : conn[backlog[l][j]] = "waiting"
    /\ \A l, m \in Listeners : \A j \in 1 .. Len(backlog[l]), k \in 1 .. Len(backlog[m]) :
          backlog[l][j] = backlog[m][k] => l = m /\ j = k

Waiting == \A c \in Clients :
    conn[c] = "waiting" => sent[c] # "nothing" /\ answer[c] = <<>>

(* Which threads have a request, and which listeners a job. *)
Places ==
    /\ \A l \in Listeners : lreq[l] = NoClient <=> lpc[l] = "accept"
    /\ \A l \in Listeners : ljob[l] = NoClient <=> lpc[l] # "reply"
    /\ \A w \in Workers : wreq[w] = NoClient <=> wpc[w] = "get"

(* No request is in two places. *)
Once ==
    /\ \A l, m \in Listeners :
          /\ lreq[l] = lreq[m] /\ lreq[l] # NoClient => l = m
          /\ ljob[l] = ljob[m] /\ ljob[l] # NoClient => l = m
          /\ lreq[l] # NoClient => lreq[l] # ljob[m]
    /\ \A l \in Listeners, w \in Workers :
          /\ lreq[l] # NoClient => lreq[l] # wreq[w]
          /\ ljob[l] # NoClient => ljob[l] # wreq[w]
    /\ \A v, w \in Workers : wreq[v] = wreq[w] /\ wreq[v] # NoClient => v = w
    /\ \A l \in Listeners : lreq[l] \notin Q!Queued /\ ljob[l] \notin Q!Queued
    /\ \A w \in Workers : wreq[w] \notin Q!Queued

Pending(c, kind) == conn[c] = "open" /\ answer[c] = <<>> /\ sent[c] = kind

(* The kind of request a listener at this point has read. *)
KindAt(point) == IF point \in {"GetJob", "get_work", "reply"} THEN "GetJob"
                 ELSE IF point = "other" THEN "other" ELSE "GET"

(* Every request held somewhere is pending, and of the kind its holder     *)
(* takes it for.                                                           *)
Served ==
    /\ \A l \in Listeners : lreq[l] # NoClient => Pending(lreq[l], KindAt(lpc[l]))
    /\ \A l \in Listeners : ljob[l] # NoClient => Pending(ljob[l], "GET")
    /\ \A w \in Workers : wreq[w] # NoClient => Pending(wreq[w], "GET")
    /\ \A c \in Q!Queued : Pending(c, "GET")

IInv ==
    /\ Typed
    /\ InLanes
    /\ Fits
    /\ Backlogs
    /\ Waiting
    /\ Places
    /\ Once
    /\ Served

(* The constants and definitions that every step below needs. *)
USE ProxyServerAssumption DEF AllKinds, ListenerPoints, Statuses, Q!Levels

-----------------------------------------------------------------------------
(* The queue of PriorityQueue.                                             *)

(* PriorityQueue counts as this module does.                               *)
LEMMA SameCount == ASSUME NEW S PROVE Q!Cardinality(S) = Cardinality(S)
  BY DEF Q!Cardinality, Cardinality

LEMMA QueuedMembers ==
  ASSUME Typed, NEW c
  PROVE  c \in Q!Queued <=>
            \E p \in Q!Levels : \E k \in 1 .. Len(lanes[p]) : lanes[p][k] = c
  <1>1. c \in Q!Queued <=> \E p \in Q!Levels : c \in Q!ToSet(lanes[p])
    BY Zenon DEF Q!Queued
  <1>2. \A p \in Q!Levels : DOMAIN lanes[p] = 1 .. Len(lanes[p])
    BY DEF Typed
  <1> QED
    BY <1>1, <1>2 DEF Q!ToSet

LEMMA QueuedMembersNext ==
  ASSUME Typed', NEW c
  PROVE  c \in Q!Queued' <=>
            \E p \in Q!Levels : \E k \in 1 .. Len(lanes'[p]) : lanes'[p][k] = c
  BY DEF Typed, Q!Queued, Q!ToSet

(* The size of the queue is a number, and changes by one.                  *)
LEMMA SizeIsNat == Fits => IsFiniteSet(Q!Queued) /\ size \in Nat
  BY FS_Subset, FS_CardinalityType DEF Fits, size

LEMMA EnqueueAdds ==
  ASSUME Typed, Typed', InLanes, Fits, NEW r \in Clients, Q!Enqueue(r)
  PROVE  /\ InLanes' /\ Fits'
         /\ Q!Queued' = Q!Queued \cup {r} /\ r \notin Q!Queued
  <1> DEFINE p == Priority[r]
  <1>1. /\ p \in Q!Levels /\ lanes[p] \in Seq(Clients)
        /\ lanes' = [lanes EXCEPT ![p] = Append(@, r)]
        /\ r \notin Q!Queued /\ size < Capacity
    BY SameCount DEF Typed, Q!Enqueue, Q!Room, size
  <1>2. /\ \A q \in Q!Levels : q # p => lanes'[q] = lanes[q]
        /\ Len(lanes'[p]) = Len(lanes[p]) + 1
        /\ lanes'[p][Len(lanes[p]) + 1] = r
        /\ \A k \in 1 .. Len(lanes[p]) : lanes'[p][k] = lanes[p][k]
    BY <1>1 DEF Typed
  <1>3. \A k \in 1 .. Len(lanes[p]) : lanes[p][k] # r
    BY <1>1, QueuedMembers
  <1>4. Q!Queued' = Q!Queued \cup {r}
    <2>0. Len(lanes[p]) \in Nat
      BY <1>1
    <2>1. ASSUME NEW c, c \in Q!Queued' PROVE c \in Q!Queued \cup {r}
      <3>0. PICK q \in Q!Levels : \E k \in 1 .. Len(lanes'[q]) : lanes'[q][k] = c
        BY <2>1, QueuedMembersNext
      <3>1. PICK k \in 1 .. Len(lanes'[q]) : lanes'[q][k] = c
        BY <3>0
      <3>2. c # r => k \in 1 .. Len(lanes[q]) /\ lanes[q][k] = c
        <4>1. CASE q # p
          BY <1>2, <3>1, <4>1
        <4>2. CASE q = p
          BY <1>2, <2>0, <3>1, <4>2
        <4> QED
          BY <4>1, <4>2
      <3> QED
        BY <3>2, QueuedMembers
    <2>2. ASSUME NEW c, c \in Q!Queued PROVE c \in Q!Queued'
      <3>0. PICK q \in Q!Levels : \E k \in 1 .. Len(lanes[q]) : lanes[q][k] = c
        BY <2>2, QueuedMembers
      <3>1. PICK k \in 1 .. Len(lanes[q]) : lanes[q][k] = c
        BY <3>0
      <3>2. k \in 1 .. Len(lanes'[q]) /\ lanes'[q][k] = c
        BY <1>2, <2>0, <3>1
      <3> QED
        BY <3>2, QueuedMembersNext
    <2>3. r \in Q!Queued'
      <3>1. Len(lanes[p]) + 1 \in 1 .. Len(lanes'[p])
        BY <1>2, <2>0
      <3> QED
        BY <1>1, <1>2, <3>1, QueuedMembersNext
    <2> QED
      BY <2>1, <2>2, <2>3
  <1>5. InLanes'
    <2>1. \A q \in Q!Levels : q # p => \A j, k \in 1 .. Len(lanes'[q]) :
             Priority[lanes'[q][j]] = q /\ (lanes'[q][j] = lanes'[q][k] => j = k)
      BY <1>2 DEF InLanes
    <2>2. Len(lanes[p]) \in Nat
      BY <1>1
    <2>3. \A j, k \in 1 .. Len(lanes'[p]) :
             Priority[lanes'[p][j]] = p /\ (lanes'[p][j] = lanes'[p][k] => j = k)
      <3>1. \A j \in 1 .. Len(lanes'[p]) :
               \/ j \in 1 .. Len(lanes[p]) /\ lanes'[p][j] = lanes[p][j]
               \/ j = Len(lanes[p]) + 1 /\ lanes'[p][j] = r
        BY <1>2, <2>2
      <3>2. \A j, k \in 1 .. Len(lanes[p]) :
               Priority[lanes[p][j]] = p /\ (lanes[p][j] = lanes[p][k] => j = k)
        BY <1>1 DEF InLanes
      <3> QED
        BY <1>3, <3>1, <3>2
    <2> QED
      BY <2>1, <2>3 DEF InLanes
  <1>6. Fits'
    <2>1. size' = size + 1
      BY <1>1, <1>4, SizeIsNat, FS_AddElement DEF size
    <2> QED
      BY <1>1, <1>4, <2>1, SizeIsNat DEF Fits
  <1> QED
    BY <1>1, <1>4, <1>5, <1>6

LEMMA DequeueTakes ==
  ASSUME Typed, Typed', InLanes, Fits, NEW p \in Q!Levels, Q!Dequeue(p)
  PROVE  /\ InLanes' /\ Fits'
         /\ Head(lanes[p]) \in Clients /\ Head(lanes[p]) \in Q!Queued
         /\ Q!Queued' = Q!Queued \ {Head(lanes[p])}
  <1> DEFINE h == Head(lanes[p])
  <1>1. /\ lanes[p] \in Seq(Clients) /\ lanes[p] # <<>>
        /\ lanes' = [lanes EXCEPT ![p] = Tail(@)]
    BY DEF Typed, Q!Dequeue
  <1>2. /\ h \in Clients /\ h = lanes[p][1] /\ Len(lanes[p]) \in Nat \ {0}
        /\ Len(Tail(lanes[p])) = Len(lanes[p]) - 1
        /\ \A k \in 1 .. Len(Tail(lanes[p])) : Tail(lanes[p])[k] = lanes[p][k + 1]
    BY <1>1, HeadTailProperties
  <1>3. /\ \A q \in Q!Levels : q # p => lanes'[q] = lanes[q]
        /\ Len(lanes'[p]) = Len(lanes[p]) - 1
        /\ \A k \in 1 .. Len(lanes[p]) - 1 : lanes'[p][k] = lanes[p][k + 1]
    BY <1>1, <1>2 DEF Typed
  <1>4. h \in Q!Queued
    BY <1>2, QueuedMembers
  <1>5. \A q \in Q!Levels : q # p => \A k \in 1 .. Len(lanes[q]) : lanes[q][k] # h
    BY <1>2 DEF InLanes
  <1>6. \A k \in 2 .. Len(lanes[p]) : lanes[p][k] # h
    BY <1>2 DEF InLanes
  <1>7. Q!Queued' = Q!Queued \ {h}
    <2>1. ASSUME NEW c, c \in Q!Queued' PROVE c \in Q!Queued \ {h}
      <3>0. PICK q \in Q!Levels : \E k \in 1 .. Len(lanes'[q]) : lanes'[q][k] = c
        BY <2>1, QueuedMembersNext
      <3>1. PICK k \in 1 .. Len(lanes'[q]) : lanes'[q][k] = c
        BY <3>0
      <3>2. CASE q # p
        <4>1. k \in 1 .. Len(lanes[q]) /\ lanes[q][k] = c /\ c # h
          BY <1>3, <1>5, <3>1, <3>2
        <4> QED
          BY <4>1, QueuedMembers
      <3>3. CASE q = p
        <4>1. k + 1 \in 2 .. Len(lanes[p]) /\ lanes[p][k + 1] = c
          BY <1>2, <1>3, <3>1, <3>3
        <4> QED
          BY <1>6, <4>1, QueuedMembers
      <3> QED
        BY <3>2, <3>3
    <2>2. ASSUME NEW c, c \in Q!Queued, c # h PROVE c \in Q!Queued'
      <3>0. PICK q \in Q!Levels : \E k \in 1 .. Len(lanes[q]) : lanes[q][k] = c
        BY <2>2, QueuedMembers
      <3>1. PICK k \in 1 .. Len(lanes[q]) : lanes[q][k] = c
        BY <3>0
      <3>2. CASE q # p
        BY <1>3, <3>1, <3>2, QueuedMembersNext
      <3>3. CASE q = p
        <4>1. k - 1 \in 1 .. Len(lanes'[p]) /\ lanes'[p][k - 1] = c
          BY <1>2, <1>3, <2>2, <3>1, <3>3
        <4> QED
          BY <4>1, QueuedMembersNext
      <3> QED
        BY <3>2, <3>3
    <2> QED
      BY <2>1, <2>2
  <1>8. InLanes'
    <2>1. \A q \in Q!Levels : q # p => \A j, k \in 1 .. Len(lanes'[q]) :
             Priority[lanes'[q][j]] = q /\ (lanes'[q][j] = lanes'[q][k] => j = k)
      BY <1>3 DEF InLanes
    <2>2. \A j, k \in 1 .. Len(lanes'[p]) :
             Priority[lanes'[p][j]] = p /\ (lanes'[p][j] = lanes'[p][k] => j = k)
      <3>1. \A j \in 1 .. Len(lanes'[p]) :
               j + 1 \in 1 .. Len(lanes[p]) /\ lanes'[p][j] = lanes[p][j + 1]
        BY <1>2, <1>3
      <3>2. \A j, k \in 1 .. Len(lanes[p]) :
               Priority[lanes[p][j]] = p /\ (lanes[p][j] = lanes[p][k] => j = k)
        BY DEF InLanes
      <3> QED
        BY <3>1, <3>2
    <2> QED
      BY <2>1, <2>2 DEF InLanes
  <1>9. Fits'
    <2>1. size' = size - 1
      BY <1>4, <1>7, SizeIsNat, FS_RemoveElement DEF size
    <2> QED
      BY <1>7, <2>1, SizeIsNat DEF Fits
  <1> QED
    BY <1>2, <1>4, <1>7, <1>8, <1>9

LEMMA LanesKept ==
  ASSUME InLanes, Fits, UNCHANGED lanes
  PROVE  InLanes' /\ Fits' /\ Q!Queued' = Q!Queued
  <1>1. Q!Queued' = Q!Queued
    BY DEF Q!Queued, Q!ToSet
  <1> QED
    BY <1>1 DEF InLanes, Fits, size

-----------------------------------------------------------------------------
(* The steps.  Each first finds who acts and what it holds.                *)

LEMMA InitIInv == Init => IInv
  <1> SUFFICES ASSUME Init PROVE IInv
    OBVIOUS
  <1>1. Typed
    BY DEF Init, Typed
  <1>2. Q!Queued = {}
    BY <1>1, QueuedMembers DEF Init
  <1>3. Fits
    BY <1>2, FS_EmptySet DEF Fits, size
  <1>4. InLanes /\ Backlogs /\ Waiting
    BY DEF Init, InLanes, Backlogs, Waiting
  <1>5. Places /\ Once /\ Served
    BY <1>2 DEF Init, Places, Once, Served
  <1> QED
    BY <1>1, <1>3, <1>4, <1>5 DEF IInv

(* A response to a client that had none is its only one.                   *)
LEMMA RespondOnce ==
  ASSUME Typed, NEW c \in Clients, answer[c] = <<>>, NEW s \in Statuses, Respond(c, s)
  PROVE  /\ answer' \in [Clients -> Seq(Statuses)]
         /\ answer'[c] # <<>> /\ Len(answer'[c]) = 1 /\ answer'[c][1] = s
         /\ \A d \in Clients : d # c => answer'[d] = answer[d]
  BY DEF Typed, Respond

LEMMA ConnectIInv ==
  ASSUME IInv, NEW c \in Clients, Connect(c)
  PROVE  IInv'
  <1>1. PICK l \in Listeners : backlog' = [backlog EXCEPT ![l] = Append(@, c)]
    BY DEF Connect
  <1>2. /\ conn[c] = "away" /\ conn' = [conn EXCEPT ![c] = "waiting"]
        /\ sent' \in [Clients -> AllKinds \cup {"nothing"}] /\ sent'[c] # "nothing"
        /\ answer' = [answer EXCEPT ![c] = <<>>]
        /\ \A d \in Clients : d # c => sent'[d] = sent[d]
        /\ UNCHANGED <<lanes, listenerVars, workerVars>>
    BY DEF Connect, IInv, Typed
  <1>3. Typed'
    BY <1>1, <1>2 DEF IInv, Typed, listenerVars, workerVars
  <1>4. InLanes' /\ Fits' /\ Q!Queued' = Q!Queued
    BY <1>2, LanesKept DEF IInv
  <1>5. Backlogs'
    <2>1. /\ backlog[l] \in Seq(Clients)
          /\ Len(backlog'[l]) = Len(backlog[l]) + 1 /\ backlog'[l][Len(backlog[l]) + 1] = c
          /\ \A k \in 1 .. Len(backlog[l]) : backlog'[l][k] = backlog[l][k]
          /\ \A m \in Listeners : m # l => backlog'[m] = backlog[m]
      BY <1>1 DEF IInv, Typed
    <2>2. \A m \in Listeners : \A k \in 1 .. Len(backlog[m]) :
             backlog[m][k] \in Clients /\ backlog[m][k] # c
      BY <1>2 DEF IInv, Typed, Backlogs
    <2>3. \A m \in Listeners : \A k \in 1 .. Len(backlog'[m]) :
             \/ k \in 1 .. Len(backlog[m]) /\ backlog'[m][k] = backlog[m][k]
             \/ m = l /\ k = Len(backlog[l]) + 1 /\ backlog'[m][k] = c
      BY <2>1
    <2>4. \A m \in Listeners : \A k \in 1 .. Len(backlog'[m]) : conn'[backlog'[m][k]] = "waiting"
      <3>1. \A m \in Listeners : \A k \in 1 .. Len(backlog[m]) : conn[backlog[m][k]] = "waiting"
        BY DEF IInv, Backlogs
      <3>2. conn'[c] = "waiting" /\ \A d \in Clients : d # c => conn'[d] = conn[d]
        BY <1>2 DEF IInv, Typed
      <3> QED
        BY <2>2, <2>3, <3>1, <3>2
    <2>5. \A m, n \in Listeners : \A j \in 1 .. Len(backlog'[m]), k \in 1 .. Len(backlog'[n]) :
             backlog'[m][j] = backlog'[n][k] => m = n /\ j = k
      <3>1. \A m, n \in Listeners : \A j \in 1 .. Len(backlog[m]), k \in 1 .. Len(backlog[n]) :
               backlog[m][j] = backlog[n][k] => m = n /\ j = k
        BY DEF IInv, Backlogs
      <3> QED
        BY <2>2, <2>3, <3>1
    <2> QED
      BY <2>4, <2>5 DEF Backlogs
  <1>6. Waiting'
    BY <1>2 DEF IInv, Typed, Waiting
  <1>7. Places' /\ Once'
    BY <1>2, <1>4 DEF IInv, Places, Once, listenerVars, workerVars
  <1>8. Served'
    BY <1>2, <1>4 DEF IInv, Typed, Fits, Served, Pending, listenerVars, workerVars
  <1> QED
    BY <1>3, <1>4, <1>5, <1>6, <1>7, <1>8 DEF IInv

(* Who is accepted was waiting, so that no thread holds its request.       *)
LEMMA AcceptIInv ==
  ASSUME IInv, NEW l \in Listeners, Accept(l)
  PROVE  IInv'
  <1> DEFINE c == Head(backlog[l])
  <1>1. /\ lpc[l] = "accept" /\ backlog[l] \in Seq(Clients) /\ backlog[l] # <<>>
        /\ backlog' = [backlog EXCEPT ![l] = Tail(@)]
        /\ conn' = [conn EXCEPT ![c] = "open"]
        /\ lreq' = [lreq EXCEPT ![l] = c]
        /\ lpc' = [lpc EXCEPT ![l] = sent[c]]
        /\ UNCHANGED <<lanes, sent, answer, ljob, workerVars>>
    BY DEF Accept, ListenerGoes, IInv, Typed
  <1>2. /\ c \in Clients /\ c = backlog[l][1] /\ Len(backlog[l]) \in Nat \ {0}
        /\ Tail(backlog[l]) \in Seq(Clients)
        /\ Len(Tail(backlog[l])) = Len(backlog[l]) - 1
        /\ \A k \in 1 .. Len(Tail(backlog[l])) : Tail(backlog[l])[k] = backlog[l][k + 1]
    BY <1>1, HeadTailProperties
  <1>3. conn[c] = "waiting" /\ sent[c] \in AllKinds /\ answer[c] = <<>>
    <2>1. 1 \in 1 .. Len(backlog[l])
      BY <1>2
    <2>2. conn[c] = "waiting"
      BY <1>2, <2>1 DEF IInv, Backlogs
    <2> QED
      BY <1>2, <2>2 DEF IInv, Typed, Waiting
  <1>4. Typed'
    BY <1>1, <1>2, <1>3 DEF IInv, Typed, workerVars
  <1>5. InLanes' /\ Fits' /\ Q!Queued' = Q!Queued
    BY <1>1, LanesKept DEF IInv
  <1>6. Backlogs'
    <2>1. \A m \in Listeners : \A k \in 1 .. Len(backlog'[m]) :
             /\ m # l => k \in 1 .. Len(backlog[m]) /\ backlog'[m][k] = backlog[m][k]
             /\ m = l => k + 1 \in 2 .. Len(backlog[m]) /\ backlog'[m][k] = backlog[m][k + 1]
      BY <1>1, <1>2 DEF IInv, Typed
    <2>2. \A m \in Listeners : \A k \in 1 .. Len(backlog'[m]) :
             backlog'[m][k] \in Clients /\ backlog'[m][k] # c /\ conn[backlog'[m][k]] = "waiting"
      <3>1. /\ \A m \in Listeners : backlog[m] \in Seq(Clients)
            /\ \A m \in Listeners : \A k \in 1 .. Len(backlog[m]) : conn[backlog[m][k]] = "waiting"
            /\ \A m \in Listeners : \A k \in 1 .. Len(backlog[m]) :
                  backlog[m][k] = backlog[l][1] => m = l /\ k = 1
        BY <1>2 DEF IInv, Typed, Backlogs
      <3> TAKE m \in Listeners
      <3> TAKE k \in 1 .. Len(backlog'[m])
      <3>2. CASE m # l
        BY <1>2, <2>1, <3>1, <3>2
      <3>3. CASE m = l
        <4>1. k + 1 \in 1 .. Len(backlog[l]) /\ k + 1 # 1 /\ backlog'[m][k] = backlog[l][k + 1]
          BY <1>2, <2>1, <3>3
        <4> QED
          BY <1>2, <3>1, <4>1
      <3> QED
        BY <3>2, <3>3
    <2>3. \A m, n \in Listeners : \A j \in 1 .. Len(backlog'[m]), k \in 1 .. Len(backlog'[n]) :
             backlog'[m][j] = backlog'[n][k] => m = n /\ j = k
      <3>1. \A m, n \in Listeners : \A j \in 1 .. Len(backlog[m]), k \in 1 .. Len(backlog[n]) :
               backlog[m][j] = backlog[n][k] => m = n /\ j = k
        BY DEF IInv, Backlogs
      <3>2. \A m \in Listeners : \A k \in 1 .. Len(backlog'[m]) :
               \E at \in 1 .. Len(backlog[m]) :
                  backlog'[m][k] = backlog[m][at] /\ at = (IF m = l THEN k + 1 ELSE k)
        BY <1>2, <2>1
      <3> TAKE m, n \in Listeners
      <3> TAKE j \in 1 .. Len(backlog'[m]), k \in 1 .. Len(backlog'[n])
      <3> HAVE backlog'[m][j] = backlog'[n][k]
      <3>3. PICK a \in 1 .. Len(backlog[m]) :
               backlog'[m][j] = backlog[m][a] /\ a = (IF m = l THEN j + 1 ELSE j)
        BY <3>2
      <3>4. PICK b \in 1 .. Len(backlog[n]) :
               backlog'[n][k] = backlog[n][b] /\ b = (IF n = l THEN k + 1 ELSE k)
        BY <3>2
      <3>5. backlog[m][a] = backlog[n][b]
        BY <3>3, <3>4
      <3>6. m = n /\ a = b
        BY <3>1, <3>5
      <3> QED
        BY <3>3, <3>4, <3>6
    <2>4. \A d \in Clients : d # c => conn'[d] = conn[d]
      BY <1>1 DEF IInv, Typed
    <2> QED
      BY <2>2, <2>3, <2>4 DEF Backlogs
  <1>7. Waiting'
    BY <1>1, <1>2 DEF IInv, Typed, Waiting
  <1>8. Places'
    BY <1>1, <1>2, <1>3 DEF IInv, Typed, Places, workerVars
  <1>9. /\ \A m \in Listeners : lreq[m] # c /\ ljob[m] # c
        /\ \A w \in Workers : wreq[w] # c
        /\ c \notin Q!Queued
    BY <1>2, <1>3 DEF IInv, Served, Pending
  <1>10. Once'
    BY <1>1, <1>5, <1>9 DEF IInv, Typed, Once, workerVars
  <1>11. Served'
    <2>1. /\ conn'[c] = "open" /\ answer'[c] = <<>>
          /\ lreq'[l] = c /\ lpc'[l] = sent[c] /\ sent'[c] = KindAt(sent[c])
      BY <1>1, <1>2, <1>3 DEF IInv, Typed, KindAt
    <2>2. \A d \in Clients, kind \in AllKinds : Pending(d, kind) => Pending(d, kind)'
      BY <1>1, <1>2 DEF IInv, Typed, Pending
    <2>3. \A m \in Listeners : lreq'[m] # NoClient => Pending(lreq[m], KindAt(lpc[m]))' \/ m = l
      <3> SUFFICES ASSUME NEW m \in Listeners, lreq'[m] # NoClient, m # l
                   PROVE  Pending(lreq[m], KindAt(lpc[m]))'
        OBVIOUS
      <3>1. lreq'[m] = lreq[m] /\ lpc'[m] = lpc[m] /\ lreq[m] \in Clients
        BY <1>1 DEF IInv, Typed
      <3>2. Pending(lreq[m], KindAt(lpc[m])) /\ KindAt(lpc[m]) \in AllKinds
        BY <3>1 DEF IInv, Served, KindAt
      <3>3. Pending(lreq[m], KindAt(lpc[m]))' <=>
               conn'[lreq[m]] = "open" /\ answer'[lreq[m]] = <<>> /\ sent'[lreq[m]] = KindAt(lpc[m])
        BY <3>1 DEF Pending, KindAt
      <3> QED
        BY <1>1, <2>2, <3>1, <3>2, <3>3 DEF Pending
    <2>5. \A m \in Listeners : ljob'[m] # NoClient => Pending(ljob[m], "GET")'
      BY <1>1, <2>2 DEF IInv, Typed, Served, Pending
    <2>6. \A w \in Workers : wreq'[w] # NoClient => Pending(wreq[w], "GET")'
      BY <1>1, <2>2 DEF IInv, Typed, Served, Pending, workerVars
    <2>7. \A d \in Q!Queued' : Pending(d, "GET")'
      BY <1>5, <2>2 DEF IInv, Fits, Served, Pending
    <2>8. Pending(lreq[l], KindAt(lpc[l]))'
      BY <2>1 DEF Pending, KindAt
    <2> QED
      BY <2>3, <2>5, <2>6, <2>7, <2>8 DEF Served
  <1> QED
    BY <1>4, <1>5, <1>6, <1>7, <1>8, <1>10, <1>11 DEF IInv

-----------------------------------------------------------------------------
(* What a listener holds is held by nobody else.                           *)
LEMMA ListenerAlone ==
  ASSUME IInv, NEW l \in Listeners, lreq[l] # NoClient
  PROVE  /\ lreq[l] \in Clients /\ Pending(lreq[l], KindAt(lpc[l]))
         /\ \A m \in Listeners : (m # l => lreq[m] # lreq[l]) /\ ljob[m] # lreq[l]
         /\ \A w \in Workers : wreq[w] # lreq[l]
         /\ lreq[l] \notin Q!Queued
  BY DEF IInv, Typed, Once, Served

(* A step that touches no connection but c's.                              *)
OthersKept(c) ==
    \A d \in Clients : d # c => conn'[d] = conn[d] /\ answer'[d] = answer[d] /\ sent'[d] = sent[d]

(* Those whose connection a step does not touch are served as before.      *)
LEMMA OthersServed ==
  ASSUME IInv, NEW c, OthersKept(c)
  PROVE  /\ \A m \in Listeners : lreq[m] # NoClient /\ lreq[m] # c =>
               /\ conn'[lreq[m]] = "open" /\ answer'[lreq[m]] = <<>>
               /\ sent'[lreq[m]] = KindAt(lpc[m])
         /\ \A m \in Listeners : ljob[m] # NoClient /\ ljob[m] # c =>
               conn'[ljob[m]] = "open" /\ answer'[ljob[m]] = <<>> /\ sent'[ljob[m]] = "GET"
         /\ \A w \in Workers : wreq[w] # NoClient /\ wreq[w] # c =>
               conn'[wreq[w]] = "open" /\ answer'[wreq[w]] = <<>> /\ sent'[wreq[w]] = "GET"
         /\ \A d \in Q!Queued : d # c =>
               conn'[d] = "open" /\ answer'[d] = <<>> /\ sent'[d] = "GET"
  BY DEF IInv, Typed, Fits, Served, Pending, OthersKept

LEMMA OthersInBacklog ==
  ASSUME IInv, UNCHANGED backlog, NEW c, conn[c] # "waiting",
         \A d \in Clients : d # c => conn'[d] = conn[d]
  PROVE  Backlogs'
  <1>1. \A l \in Listeners : \A j \in 1 .. Len(backlog[l]) :
           backlog[l][j] \in Clients /\ backlog[l][j] # c
    BY DEF IInv, Typed, Backlogs
  <1>2. \A l \in Listeners : \A j \in 1 .. Len(backlog[l]) : conn'[backlog[l][j]] = "waiting"
    BY <1>1 DEF IInv, Backlogs
  <1> QED
    BY <1>2 DEF IInv, Backlogs

(* A listener answers the request it has and closes its connection.        *)
LEMMA ListenerAnswersIInv ==
  ASSUME IInv, NEW l \in Listeners, lreq[l] # NoClient, NEW s \in Statuses,
         Respond(lreq[l], s), Close(lreq[l]), ListenerDone(l),
         UNCHANGED <<lanes, backlog, sent, workerVars>>
  PROVE  IInv'
  <1>1. PICK c \in Clients : c = lreq[l]
    BY ListenerAlone
  <1>2. /\ conn[c] = "open" /\ answer[c] = <<>> /\ sent[c] = KindAt(lpc[l])
        /\ \A m \in Listeners : (m # l => lreq[m] # c) /\ ljob[m] # c
        /\ \A w \in Workers : wreq[w] # c
        /\ c \notin Q!Queued
    BY <1>1, ListenerAlone DEF Pending
  <1>3. /\ conn' = [conn EXCEPT ![c] = "away"]
        /\ lpc' = [lpc EXCEPT ![l] = "accept"]
        /\ lreq' = [lreq EXCEPT ![l] = NoClient]
        /\ ljob' = [ljob EXCEPT ![l] = NoClient]
        /\ UNCHANGED <<wpc, wreq>>
    BY <1>1 DEF Close, ListenerDone, ListenerGoes, workerVars
  <1>4. /\ answer' \in [Clients -> Seq(Statuses)]
        /\ answer'[c] # <<>> /\ Len(answer'[c]) = 1 /\ answer'[c][1] = s
        /\ \A d \in Clients : d # c => answer'[d] = answer[d]
    BY <1>1, <1>2, RespondOnce DEF IInv
  <1>5. /\ conn'[c] = "away"
        /\ \A d \in Clients : d # c =>
              conn'[d] = conn[d] /\ answer'[d] = answer[d] /\ sent'[d] = sent[d]
    BY <1>3, <1>4 DEF IInv, Typed
  <1>6. Typed'
    BY <1>3, <1>4 DEF IInv, Typed
  <1>7. InLanes' /\ Fits' /\ Q!Queued' = Q!Queued
    BY LanesKept DEF IInv
  <1>8. Backlogs'
    BY <1>2, <1>5, OthersInBacklog
  <1>9. Waiting'
    BY <1>5 DEF IInv, Waiting
  <1>10. Places'
    BY <1>3 DEF IInv, Typed, Places
  <1>11. Once'
    BY <1>3, <1>7 DEF IInv, Typed, Fits, Once
  <1>12. Served'
    <2>1. /\ lreq'[l] = NoClient /\ ljob'[l] = NoClient
          /\ \A m \in Listeners : m # l => lreq'[m] = lreq[m] /\ ljob'[m] = ljob[m] /\ lpc'[m] = lpc[m]
      BY <1>3 DEF IInv, Typed
    <2>2. OthersKept(c)
      BY <1>5 DEF OthersKept
    <2> QED
      BY <1>2, <1>3, <1>7, <2>1, <2>2, OthersServed DEF Served, Pending, KindAt
  <1> QED
    BY <1>6, <1>7, <1>8, <1>9, <1>10, <1>11, <1>12 DEF IInv

LEMMA AnswerStepsIInv ==
  ASSUME IInv, NEW l \in Listeners, QueueIsEmpty(l) \/ ReplyJob(l) \/ QueueIsFull(l)
  PROVE  IInv'
  <1>1. lpc[l] \in {"GetJob", "reply", "GET"} /\ lreq[l] # NoClient
    BY DEF QueueIsEmpty, ReplyJob, QueueIsFull, IInv, Places
  <1>2. CASE QueueIsEmpty(l)
    BY <1>1, <1>2, ListenerAnswersIInv DEF QueueIsEmpty, KindAt
  <1>3. CASE ReplyJob(l)
    BY <1>1, <1>3, ListenerAnswersIInv DEF ReplyJob, KindAt
  <1>4. CASE QueueIsFull(l)
    BY <1>1, <1>4, ListenerAnswersIInv DEF QueueIsFull, KindAt
  <1> QED
    BY <1>2, <1>3, <1>4

LEMMA TestStepsIInv ==
  ASSUME IInv, NEW l \in Listeners, QueueIsNotEmpty(l) \/ QueueIsNotFull(l)
  PROVE  IInv'
  <1>1. /\ \/ lpc[l] = "GetJob" /\ lpc' = [lpc EXCEPT ![l] = "get_work"]
           \/ lpc[l] = "GET" /\ lpc' = [lpc EXCEPT ![l] = "add_work"]
        /\ UNCHANGED <<lanes, clientVars, lreq, ljob, workerVars>>
    BY DEF QueueIsNotEmpty, QueueIsNotFull, ListenerGoes
  <1>2. /\ Typed' /\ Backlogs' /\ Waiting'
    <2>1. UNCHANGED <<lanes, backlog, conn, sent, answer, lreq, ljob, wpc, wreq>>
      BY <1>1 DEF clientVars, workerVars
    <2>2. Typed'
      BY <1>1, <2>1 DEF IInv, Typed
    <2>3. Backlogs' /\ Waiting'
      BY <2>1 DEF IInv, Backlogs, Waiting
    <2> QED
      BY <2>2, <2>3
  <1>3. InLanes' /\ Fits' /\ Q!Queued' = Q!Queued
    BY <1>1, LanesKept DEF IInv
  <1>4. Places' /\ Once'
    BY <1>1, <1>3 DEF IInv, Typed, Places, Once, clientVars, workerVars
  <1>5. Served'
    <2>1. \A m \in Listeners : KindAt(lpc'[m]) = KindAt(lpc[m])
      BY <1>1 DEF IInv, Typed, KindAt
    <2> QED
      BY <1>1, <1>3, <2>1 DEF IInv, Served, Pending, clientVars, workerVars, KindAt
  <1> QED
    BY <1>2, <1>3, <1>4, <1>5 DEF IInv

(* The job goes from the queue to one listener.                            *)
LEMMA ListenerGetsIInv ==
  ASSUME IInv, NEW l \in Listeners, ListenerGets(l)
  PROVE  IInv'
  <1>1. PICK p \in Q!Levels :
           Q!Dequeue(p) /\ ljob' = [ljob EXCEPT ![l] = Head(lanes[p])]
    BY DEF ListenerGets
  <1>2. /\ lpc[l] = "get_work" /\ lpc' = [lpc EXCEPT ![l] = "reply"]
        /\ UNCHANGED <<backlog, conn, sent, answer, lreq, wpc, wreq>>
    BY DEF ListenerGets, ListenerGoes, clientVars, workerVars
  <1>3. PICK h \in Clients : h = Head(lanes[p])
    BY <1>1, HeadTailProperties DEF IInv, Typed, Q!Dequeue
  <1>4. lanes' \in [Q!Levels -> Seq(Clients)]
    BY <1>1, HeadTailProperties DEF IInv, Typed, Q!Dequeue
  <1>5. Typed'
    BY <1>1, <1>2, <1>3, <1>4 DEF IInv, Typed
  <1>6. InLanes' /\ Fits' /\ h \in Q!Queued /\ Q!Queued' = Q!Queued \ {h}
    BY <1>1, <1>3, <1>5, DequeueTakes DEF IInv
  <1>7. Backlogs' /\ Waiting'
    BY <1>2 DEF IInv, Backlogs, Waiting
  <1>8. /\ ljob'[l] = h /\ lpc'[l] = "reply" /\ h # NoClient
        /\ \A m \in Listeners : m # l => ljob'[m] = ljob[m] /\ lpc'[m] = lpc[m]
    BY <1>1, <1>2, <1>3 DEF IInv, Typed
  <1>9. Places'
    BY <1>2, <1>8 DEF IInv, Places
  <1>10. /\ \A m \in Listeners : lreq[m] # h /\ ljob[m] # h
         /\ \A w \in Workers : wreq[w] # h
    BY <1>6 DEF IInv, Once
  <1>11. Once'
    BY <1>2, <1>6, <1>8, <1>10 DEF IInv, Once
  <1>12. Served'
    <2>1. \A m \in Listeners : KindAt(lpc'[m]) = KindAt(lpc[m])
      BY <1>2, <1>8 DEF KindAt
    <2>2. Pending(h, "GET")
      BY <1>6 DEF IInv, Served
    <2> QED
      BY <1>2, <1>6, <1>8, <2>1, <2>2 DEF IInv, Served, Pending, KindAt
  <1> QED
    BY <1>5, <1>6, <1>7, <1>9, <1>11, <1>12 DEF IInv

(* The listener lets go of its request: it is queued, or dropped.          *)
LEMMA AddWorkIInv ==
  ASSUME IInv, NEW l \in Listeners, AddWork(l)
  PROVE  IInv'
  <1>1. /\ lpc[l] = "add_work"
        /\ lpc' = [lpc EXCEPT ![l] = "accept"]
        /\ lreq' = [lreq EXCEPT ![l] = NoClient]
        /\ ljob' = [ljob EXCEPT ![l] = NoClient]
        /\ UNCHANGED <<backlog, conn, sent, answer, wpc, wreq>>
    BY DEF AddWork, ListenerDone, ListenerGoes, clientVars, workerVars
  <1>2. lreq[l] # NoClient
    BY <1>1 DEF IInv, Places
  <1>3. PICK c \in Clients : c = lreq[l]
    BY <1>2, ListenerAlone
  <1>4. /\ Pending(c, "GET")
        /\ \A m \in Listeners : (m # l => lreq[m] # c) /\ ljob[m] # c
        /\ \A w \in Workers : wreq[w] # c
    BY <1>1, <1>2, <1>3, ListenerAlone DEF KindAt
  <1>5. Q!Enqueue(c) \/ UNCHANGED lanes
    BY <1>3 DEF AddWork
  <1>6. lanes' \in [Q!Levels -> Seq(Clients)]
    <2>1. Priority[c] \in Q!Levels /\ lanes \in [Q!Levels -> Seq(Clients)]
      BY DEF IInv, Typed
    <2>2. Append(lanes[Priority[c]], c) \in Seq(Clients)
      BY <2>1
    <2> QED
      BY <1>5, <2>1, <2>2 DEF Q!Enqueue
  <1>7. Typed'
    BY <1>1, <1>6 DEF IInv, Typed
  <1>8. InLanes' /\ Fits' /\ (Q!Queued' = Q!Queued \/ Q!Queued' = Q!Queued \cup {c})
    BY <1>5, <1>7, EnqueueAdds, LanesKept DEF IInv
  <1>9. Backlogs' /\ Waiting'
    BY <1>1 DEF IInv, Backlogs, Waiting
  <1>10. /\ lreq'[l] = NoClient /\ ljob'[l] = NoClient /\ lpc'[l] = "accept"
         /\ \A m \in Listeners : m # l =>
               lreq'[m] = lreq[m] /\ ljob'[m] = ljob[m] /\ lpc'[m] = lpc[m]
    BY <1>1 DEF IInv, Typed
  <1>11. Places'
    BY <1>1, <1>10 DEF IInv, Places
  <1>12. Once'
    <2>1. NoClient \notin Q!Queued'
      BY <1>8 DEF Fits
    <2> QED
      BY <1>1, <1>4, <1>8, <1>10, <2>1 DEF IInv, Once
  <1>13. Served'
    BY <1>1, <1>4, <1>8, <1>10 DEF IInv, Served, Pending, KindAt
  <1> QED
    BY <1>7, <1>8, <1>9, <1>11, <1>12, <1>13 DEF IInv

LEMMA BadRequestIInv ==
  ASSUME IInv, NEW l \in Listeners, BadRequest(l)
  PROVE  IInv'
  <1>1. /\ lpc[l] = "other" /\ Respond(lreq[l], "BAD_REQUEST")
        /\ lpc' = [lpc EXCEPT ![l] = "accept"]
        /\ lreq' = [lreq EXCEPT ![l] = NoClient]
        /\ ljob' = [ljob EXCEPT ![l] = NoClient]
        /\ UNCHANGED <<lanes, backlog, conn, sent, wpc, wreq>>
    BY DEF BadRequest, ListenerDone, ListenerGoes, workerVars
  <1>2. lreq[l] # NoClient
    BY <1>1 DEF IInv, Places
  <1>3. PICK c \in Clients : c = lreq[l]
    BY <1>2, ListenerAlone
  <1>4. /\ conn[c] = "open" /\ answer[c] = <<>>
        /\ \A m \in Listeners : (m # l => lreq[m] # c) /\ ljob[m] # c
        /\ \A w \in Workers : wreq[w] # c
        /\ c \notin Q!Queued
    BY <1>2, <1>3, ListenerAlone DEF Pending
  <1>5. /\ answer' \in [Clients -> Seq(Statuses)]
        /\ \A d \in Clients : d # c => answer'[d] = answer[d]
    BY <1>1, <1>3, <1>4, RespondOnce DEF IInv
  <1>6. Typed'
    BY <1>1, <1>5 DEF IInv, Typed
  <1>7. InLanes' /\ Fits' /\ Q!Queued' = Q!Queued
    BY <1>1, LanesKept DEF IInv
  <1>8. Backlogs'
    BY <1>1 DEF IInv, Backlogs
  <1>9. Waiting'
    BY <1>1, <1>4, <1>5 DEF IInv, Waiting
  <1>10. Places' /\ Once'
    BY <1>1, <1>7 DEF IInv, Typed, Fits, Places, Once
  <1>11. Served'
    <2>1. /\ lreq'[l] = NoClient /\ ljob'[l] = NoClient
          /\ \A m \in Listeners : m # l => lreq'[m] = lreq[m] /\ ljob'[m] = ljob[m] /\ lpc'[m] = lpc[m]
      BY <1>1 DEF IInv, Typed
    <2>0. OthersKept(c)
      BY <1>1, <1>5 DEF OthersKept
    <2>2. \A m \in Listeners : lreq[m] # NoClient /\ lreq[m] # c =>
             conn'[lreq[m]] = "open" /\ answer'[lreq[m]] = <<>> /\ sent'[lreq[m]] = KindAt(lpc[m])
      BY <2>0, OthersServed
    <2>3. \A m \in Listeners : ljob[m] # NoClient =>
             conn'[ljob[m]] = "open" /\ answer'[ljob[m]] = <<>> /\ sent'[ljob[m]] = "GET"
      BY <1>4, <2>0, OthersServed
    <2>4. \A w \in Workers : wreq[w] # NoClient =>
             conn'[wreq[w]] = "open" /\ answer'[wreq[w]] = <<>> /\ sent'[wreq[w]] = "GET"
      BY <1>4, <2>0, OthersServed
    <2>5. \A d \in Q!Queued : conn'[d] = "open" /\ answer'[d] = <<>> /\ sent'[d] = "GET"
      BY <1>4, <2>0, OthersServed
    <2> QED
      BY <1>1, <1>4, <1>7, <2>1, <2>2, <2>3, <2>4, <2>5 DEF Served, Pending, KindAt
  <1> QED
    BY <1>6, <1>7, <1>8, <1>9, <1>10, <1>11 DEF IInv

-----------------------------------------------------------------------------
(* The workers.                                                            *)

LEMMA WorkerGetsIInv ==
  ASSUME IInv, NEW w \in Workers, WorkerGets(w)
  PROVE  IInv'
  <1>1. PICK p \in Q!Levels :
           Q!Dequeue(p) /\ wreq' = [wreq EXCEPT ![w] = Head(lanes[p])]
    BY DEF WorkerGets
  <1>2. /\ wpc[w] = "get" /\ wpc' = [wpc EXCEPT ![w] = "serve"]
        /\ UNCHANGED <<backlog, conn, sent, answer, lpc, lreq, ljob>>
    BY DEF WorkerGets, WorkerGoes, clientVars, listenerVars
  <1>3. PICK h \in Clients : h = Head(lanes[p])
    BY <1>1, HeadTailProperties DEF IInv, Typed, Q!Dequeue
  <1>4. lanes' \in [Q!Levels -> Seq(Clients)]
    BY <1>1, HeadTailProperties DEF IInv, Typed, Q!Dequeue
  <1>5. Typed'
    BY <1>1, <1>2, <1>3, <1>4 DEF IInv, Typed
  <1>6. InLanes' /\ Fits' /\ h \in Q!Queued /\ Q!Queued' = Q!Queued \ {h}
    BY <1>1, <1>3, <1>5, DequeueTakes DEF IInv
  <1>7. Backlogs' /\ Waiting'
    BY <1>2 DEF IInv, Backlogs, Waiting
  <1>8. /\ wreq'[w] = h /\ wpc'[w] = "serve" /\ h # NoClient
        /\ \A v \in Workers : v # w => wreq'[v] = wreq[v] /\ wpc'[v] = wpc[v]
    BY <1>1, <1>2, <1>3 DEF IInv, Typed
  <1>9. Places'
    BY <1>2, <1>8 DEF IInv, Places
  <1>10. /\ \A m \in Listeners : lreq[m] # h /\ ljob[m] # h
         /\ \A v \in Workers : wreq[v] # h
    BY <1>6 DEF IInv, Once
  <1>11. Once'
    BY <1>2, <1>6, <1>8, <1>10 DEF IInv, Once
  <1>12. Served'
    <2>1. Pending(h, "GET")
      BY <1>6 DEF IInv, Served
    <2> QED
      BY <1>2, <1>6, <1>8, <2>1 DEF IInv, Served, Pending, KindAt
  <1> QED
    BY <1>5, <1>6, <1>7, <1>9, <1>11, <1>12 DEF IInv

LEMMA SocketStepsIInv ==
  ASSUME IInv, NEW w \in Workers, OpenSocket(w) \/ Connected(w) \/ SentOn(w)
  PROVE  IInv'
  <1>1. /\ wpc[w] \in {"serve", "connect", "send"}
        /\ \/ wpc' = wpc
           \/ \E point \in {"connect", "send", "relay"} : wpc' = [wpc EXCEPT ![w] = point]
        /\ UNCHANGED <<lanes, backlog, conn, sent, answer, lpc, lreq, ljob, wreq>>
    BY DEF OpenSocket, Connected, SentOn, WorkerGoes, clientVars, listenerVars
  <1>2. Typed'
    <2>1. wpc' \in [Workers -> {"get", "serve", "connect", "send", "relay"}]
      BY <1>1 DEF IInv, Typed
    <2> QED
      BY <1>1, <2>1, SMTT(30) DEF IInv, Typed
  <1>3. InLanes' /\ Fits' /\ Q!Queued' = Q!Queued
    BY <1>1, LanesKept DEF IInv
  <1>4. Backlogs' /\ Waiting'
    BY <1>1 DEF IInv, Backlogs, Waiting
  <1>5. Places'
    BY <1>1 DEF IInv, Typed, Places
  <1>6. Once' /\ Served'
    BY <1>1, <1>3 DEF IInv, Once, Served, Pending, KindAt
  <1> QED
    BY <1>2, <1>3, <1>4, <1>5, <1>6 DEF IInv

(* What a worker serves is held by nobody else; it answers or closes the   *)
(* connection, or does both.                                               *)
LEMMA WorkerAnswersIInv ==
  ASSUME IInv, NEW w \in Workers, ConnectFails(w) \/ SendFails(w) \/ FileServer(w)
  PROVE  IInv'
  <1>1. /\ wpc[w] # "get"
        /\ wpc' = [wpc EXCEPT ![w] = "get"]
        /\ wreq' = [wreq EXCEPT ![w] = NoClient]
        /\ UNCHANGED <<lanes, backlog, sent, lpc, lreq, ljob>>
    BY DEF ConnectFails, SendFails, FileServer, Forward, HangsUp, WorkerDone, WorkerGoes,
         listenerVars
  <1>2. PICK c \in Clients : c = wreq[w]
    BY <1>1 DEF IInv, Typed, Places
  <1>3. /\ \/ \E s \in Statuses : Respond(c, s)
           \/ UNCHANGED answer /\ conn' = [conn EXCEPT ![c] = "away"]
        /\ UNCHANGED conn \/ conn' = [conn EXCEPT ![c] = "away"]
    BY <1>2 DEF ConnectFails, SendFails, FileServer, Forward, HangsUp, Close
  <1>4. /\ conn[c] = "open" /\ answer[c] = <<>> /\ sent[c] = "GET"
        /\ \A m \in Listeners : lreq[m] # c /\ ljob[m] # c
        /\ \A v \in Workers : v # w => wreq[v] # c
        /\ c \notin Q!Queued
    BY <1>1, <1>2 DEF IInv, Typed, Once, Served, Pending, Places
  <1>5. /\ answer' \in [Clients -> Seq(Statuses)]
        /\ \A d \in Clients : d # c => answer'[d] = answer[d]
    <2>1. Typed /\ answer[c] = <<>>
      BY <1>4 DEF IInv
    <2>2. CASE \E s \in Statuses : Respond(c, s)
      BY <2>1, <2>2, RespondOnce
    <2>3. CASE UNCHANGED answer
      BY <2>1, <2>3 DEF Typed
    <2> QED BY <1>3, <2>2, <2>3
  <1>6. /\ conn'[c] \in {"open", "away"}
        /\ \A d \in Clients : d # c =>
              conn'[d] = conn[d] /\ answer'[d] = answer[d] /\ sent'[d] = sent[d]
    BY <1>1, <1>3, <1>4, <1>5 DEF IInv, Typed
  <1>7. Typed'
    BY <1>1, <1>3, <1>5 DEF IInv, Typed
  <1>8. InLanes' /\ Fits' /\ Q!Queued' = Q!Queued
    BY <1>1, LanesKept DEF IInv
  <1>9. Backlogs'
    BY <1>1, <1>4, <1>6, OthersInBacklog
  <1>10. Waiting'
    BY <1>6 DEF IInv, Waiting
  <1>12. Places' /\ Once'
    BY <1>1, <1>8 DEF IInv, Typed, Fits, Places, Once
  <1>13. Served'
    <2>0. OthersKept(c)
      BY <1>6 DEF OthersKept
    <2>1. wreq'[w] = NoClient /\ \A v \in Workers : v # w => wreq'[v] = wreq[v]
      BY <1>1 DEF IInv, Typed
    <2>2. \A m \in Listeners : lreq[m] # NoClient =>
             conn'[lreq[m]] = "open" /\ answer'[lreq[m]] = <<>> /\ sent'[lreq[m]] = KindAt(lpc[m])
      BY <1>4, <2>0, OthersServed
    <2>3. \A m \in Listeners : ljob[m] # NoClient =>
             conn'[ljob[m]] = "open" /\ answer'[ljob[m]] = <<>> /\ sent'[ljob[m]] = "GET"
      BY <1>4, <2>0, OthersServed
    <2>4. \A v \in Workers : v # w /\ wreq[v] # NoClient =>
             conn'[wreq[v]] = "open" /\ answer'[wreq[v]] = <<>> /\ sent'[wreq[v]] = "GET"
      BY <1>4, <2>0, OthersServed
    <2>5. \A d \in Q!Queued : conn'[d] = "open" /\ answer'[d] = <<>> /\ sent'[d] = "GET"
      BY <1>4, <2>0, OthersServed
    <2> QED
      BY <1>1, <1>8, <2>1, <2>2, <2>3, <2>4, <2>5 DEF Served, Pending, KindAt
  <1> QED
    BY <1>7, <1>8, <1>9, <1>10, <1>12, <1>13 DEF IInv

-----------------------------------------------------------------------------
LEMMA StepIInv == IInv /\ [Next]_vars => IInv'
  <1> SUFFICES ASSUME IInv, [Next]_vars PROVE IInv'
    OBVIOUS
  <1>1. CASE \E c \in Clients : Connect(c)
    BY <1>1, ConnectIInv
  <1>2. CASE \E l \in Listeners : Listen(l)
    BY <1>2, AcceptIInv, AnswerStepsIInv, TestStepsIInv, ListenerGetsIInv, AddWorkIInv,
       BadRequestIInv DEF Listen
  <1>3. CASE \E w \in Workers : Work(w) \/ FileServer(w)
    BY <1>3, WorkerGetsIInv, SocketStepsIInv, WorkerAnswersIInv DEF Work
  <1>4. CASE BrokenPipe \/ UNCHANGED vars
    <2>0. UNCHANGED <<lanes, backlog, conn, sent, answer, lpc, lreq, ljob, wpc, wreq>>
      BY <1>4 DEF BrokenPipe, clientVars, listenerVars, workerVars, vars
    <2>1. InLanes' /\ Fits' /\ Q!Queued' = Q!Queued
      BY <2>0, LanesKept DEF IInv
    <2>2. Typed' /\ Backlogs' /\ Waiting'
      BY <2>0 DEF IInv, Typed, Backlogs, Waiting
    <2>3. Places' /\ Once' /\ Served'
      BY <2>0, <2>1 DEF IInv, Places, Once, Served, Pending, KindAt
    <2> QED
      BY <2>1, <2>2, <2>3 DEF IInv
  <1> QED
    BY <1>1, <1>2, <1>3, <1>4 DEF Next

LEMMA Invariance == Spec => []IInv
  BY InitIInv, StepIInv, PTL DEF Spec

(* No thread touches a connection that was closed or answered, and no two  *)
(* hold one: neither two listeners, two workers, nor a worker and a        *)
(* listener that gave the request away as a job.                           *)
THEOREM HeldRequestsArePending == Spec => []HeldIsOpenAndUnanswered
  <1>1. ASSUME IInv, NEW c \in Clients, NEW h \in Holders(c)
        PROVE  conn[c] = "open" /\ answer[c] = <<>> /\ Cardinality(Holders(c)) = 1
    <2>1. conn[c] = "open" /\ answer[c] = <<>>
      BY <1>1 DEF IInv, Served, Pending, Holders
    <2>2. \A g \in Holders(c) : g = h
      <3> SUFFICES ASSUME NEW g \in Holders(c) PROVE g = h
        OBVIOUS
      <3> DEFINE OneHolder(a) ==
            \/ \E l \in Listeners : a = <<"request", l>> /\ lreq[l] = c
            \/ \E l \in Listeners : a = <<"job", l>> /\ ljob[l] = c
            \/ \E w \in Workers : a = <<"work", w>> /\ wreq[w] = c
            \/ a = <<"queue", "queue">> /\ c \in Q!Queued
      <3>1. OneHolder(g) /\ OneHolder(h)
        BY <1>1 DEF Holders
      <3>2. c # NoClient
        BY <1>1
      <3>3. /\ \A l, m \in Listeners : /\ lreq[l] = c /\ lreq[m] = c => l = m
                                       /\ ljob[l] = c /\ ljob[m] = c => l = m
                                       /\ lreq[l] = c => ljob[m] # c
            /\ \A l \in Listeners, w \in Workers : lreq[l] = c \/ ljob[l] = c => wreq[w] # c
            /\ \A v, w \in Workers : wreq[v] = c /\ wreq[w] = c => v = w
            /\ c \in Q!Queued =>
                  (\A l \in Listeners : lreq[l] # c /\ ljob[l] # c) /\ \A w \in Workers : wreq[w] # c
        BY <1>1, <3>2 DEF IInv, Once
      <3> QED
        BY <3>1, <3>3
    <2>3. Holders(c) = {h}
      BY <1>1, <2>2
    <2> QED
      BY <2>1, <2>3, FS_Singleton
  <1>2. IInv => HeldIsOpenAndUnanswered
    BY <1>1 DEF HeldIsOpenAndUnanswered
  <1> QED
    BY Invariance, <1>2, PTL

-----------------------------------------------------------------------------
(* How a request can be forgotten.                                         *)

Held(c) ==
    \/ \E l \in Listeners : lreq[l] = c \/ ljob[l] = c
    \/ \E w \in Workers : wreq[w] = c
    \/ c \in Q!Queued

LEMMA ForgottenMeans ==
  ASSUME NEW c
  PROVE  /\ c \in Forgotten <=>
               c \in Clients /\ conn[c] = "open" /\ answer[c] = <<>> /\ ~Held(c)
         /\ c \in Forgotten' <=>
               c \in Clients /\ conn'[c] = "open" /\ answer'[c] = <<>> /\ ~Held(c)'
  <1>1. (Holders(c) = {} <=> ~Held(c)) /\ (Holders(c)' = {} <=> ~Held(c)')
    BY ZenonT(60) DEF Holders, Held
  <1> QED
    BY <1>1 DEF Forgotten

Excused(c) == size = Capacity \/ \E l \in Listeners : ljob[l] = c

(* A step that leaves c's holders and connection alone forgets nobody.     *)
LEMMA NewlyForgotten ==
  ASSUME NEW c \in Forgotten' \ Forgotten
  PROVE  /\ c \in Clients /\ conn'[c] = "open" /\ answer'[c] = <<>> /\ ~Held(c)'
         /\ conn[c] = "open" /\ answer[c] = <<>> => Held(c)
  BY ForgottenMeans

LEMMA ForgottenByListener ==
  ASSUME IInv, IInv', NEW l \in Listeners, Listen(l), NEW c \in Forgotten' \ Forgotten
  PROVE  Excused(c)
  <1>1. /\ c \in Clients /\ c # NoClient
        /\ conn'[c] = "open" /\ answer'[c] = <<>> /\ ~Held(c)'
        /\ conn[c] = "open" /\ answer[c] = <<>> => Held(c)
    BY NewlyForgotten
  <1>2. CASE Accept(l)
    <2>1. lreq'[l] # c /\ lreq' = [lreq EXCEPT ![l] = Head(backlog[l])]
      BY <1>1, <1>2 DEF Accept, Held
    <2>2. Head(backlog[l]) # c /\ conn' = [conn EXCEPT ![Head(backlog[l])] = "open"]
      BY <1>2, <2>1 DEF Accept, IInv, Typed
    <2>3. conn[c] = "open" /\ answer[c] = <<>> /\ Q!Queued' = Q!Queued
      BY <1>1, <1>2, <2>2, LanesKept DEF Accept, IInv, Typed
    <2>4. lpc[l] = "accept" /\ lreq[l] = NoClient
      BY <1>2 DEF Accept, IInv, Places
    <2> QED
      BY <1>1, <1>2, <2>1, <2>3, <2>4 DEF Held, Accept, IInv, Typed, workerVars
  <1>3. CASE QueueIsNotEmpty(l) \/ QueueIsNotFull(l)
    <2>1. UNCHANGED <<lanes, conn, answer, lreq, ljob, wreq>>
      BY <1>3 DEF QueueIsNotEmpty, QueueIsNotFull, clientVars, workerVars
    <2> QED
      BY <1>1, <2>1, LanesKept DEF Held, IInv
  <1>4. CASE ListenerGets(l)
    <2>1. PICK p \in Q!Levels : Q!Dequeue(p) /\ ljob' = [ljob EXCEPT ![l] = Head(lanes[p])]
      BY <1>4 DEF ListenerGets
    <2>2. Q!Queued' = Q!Queued \ {Head(lanes[p])}
      BY <2>1, DequeueTakes DEF IInv
    <2>3. lpc[l] = "get_work" /\ UNCHANGED <<conn, answer, lreq, wreq>>
      BY <1>4 DEF ListenerGets, clientVars, workerVars
    <2>4. ljob[l] = NoClient
      BY <2>3 DEF IInv, Places
    <2> QED
      BY <1>1, <2>1, <2>2, <2>3, <2>4 DEF Held, IInv, Typed
  <1>5. CASE AddWork(l)
    <2>1. /\ lpc[l] = "add_work" /\ lreq[l] \in Clients
          /\ lreq' = [lreq EXCEPT ![l] = NoClient]
          /\ ljob' = [ljob EXCEPT ![l] = NoClient]
          /\ UNCHANGED <<conn, answer, wreq>>
      BY <1>5 DEF AddWork, ListenerDone, clientVars, workerVars, IInv, Typed, Places
    <2>2. CASE Q!Enqueue(lreq[l])
      <3>1. Q!Queued' = Q!Queued \cup {lreq[l]}
        BY <2>1, <2>2, EnqueueAdds DEF IInv
      <3>2. ljob[l] = NoClient
        BY <2>1 DEF IInv, Places
      <3> QED
        BY <1>1, <2>1, <3>1, <3>2 DEF Held, IInv, Typed
    <2>3. CASE ~Q!Room
      <3>1. size = Capacity
        BY <2>3, SizeIsNat, SameCount DEF IInv, Fits, Q!Room, size
      <3> QED
        BY <3>1 DEF Excused
    <2> QED
      BY <1>5, <2>2, <2>3 DEF AddWork
  <1>6. CASE QueueIsEmpty(l) \/ ReplyJob(l) \/ QueueIsFull(l) \/ BadRequest(l)
    <2>1. /\ lreq' = [lreq EXCEPT ![l] = NoClient]
          /\ ljob' = [ljob EXCEPT ![l] = NoClient]
          /\ conn' = conn \/ conn' = [conn EXCEPT ![lreq[l]] = "away"]
          /\ UNCHANGED <<lanes, wreq>>
          /\ \E s \in Statuses : Respond(lreq[l], s)
          /\ lpc[l] # "accept"
      BY <1>6 DEF QueueIsEmpty, ReplyJob, QueueIsFull, BadRequest, ListenerDone, Close, workerVars
    <2>2. lreq[l] \in Clients /\ Pending(lreq[l], KindAt(lpc[l]))
      BY <2>1, ListenerAlone DEF IInv, Places
    <2>3. answer'[lreq[l]] # <<>> /\ \A d \in Clients : d # lreq[l] => answer'[d] = answer[d]
      BY <2>1, <2>2, RespondOnce DEF Pending, IInv
    <2>4. c # lreq[l] /\ conn[c] = "open" /\ answer[c] = <<>>
      BY <1>1, <2>1, <2>2, <2>3 DEF IInv, Typed
    <2>5. Q!Queued' = Q!Queued
      BY <2>1, LanesKept DEF IInv
    <2> QED
      BY <1>1, <2>1, <2>4, <2>5 DEF Held, Excused, IInv, Typed
  <1> QED
    BY <1>2, <1>3, <1>4, <1>5, <1>6 DEF Listen

LEMMA ForgottenByWorker ==
  ASSUME IInv, IInv', NEW w \in Workers, Work(w) \/ FileServer(w), NEW c \in Forgotten' \ Forgotten
  PROVE  FALSE
  <1>1. /\ c \in Clients /\ c # NoClient
        /\ conn'[c] = "open" /\ answer'[c] = <<>> /\ ~Held(c)'
        /\ conn[c] = "open" /\ answer[c] = <<>> => Held(c)
    BY NewlyForgotten
  <1>2. CASE WorkerGets(w)
    <2>1. PICK p \in Q!Levels : Q!Dequeue(p) /\ wreq' = [wreq EXCEPT ![w] = Head(lanes[p])]
      BY <1>2 DEF WorkerGets
    <2>2. Q!Queued' = Q!Queued \ {Head(lanes[p])}
      BY <2>1, DequeueTakes DEF IInv
    <2>3. wpc[w] = "get" /\ UNCHANGED <<conn, answer, lreq, ljob>>
      BY <1>2 DEF WorkerGets, clientVars, listenerVars
    <2>4. wreq[w] = NoClient
      BY <2>3 DEF IInv, Places
    <2> QED
      BY <1>1, <2>1, <2>2, <2>3, <2>4 DEF Held, IInv, Typed
  <1>3. CASE OpenSocket(w) \/ Connected(w) \/ SentOn(w)
    <2>1. UNCHANGED <<lanes, conn, answer, lreq, ljob, wreq>>
      BY <1>3 DEF OpenSocket, Connected, SentOn, clientVars, listenerVars
    <2> QED
      BY <1>1, <2>1, LanesKept DEF Held, IInv
  <1>4. CASE ConnectFails(w) \/ SendFails(w) \/ FileServer(w)
    <2>1. /\ wreq' = [wreq EXCEPT ![w] = NoClient]
          /\ conn' = conn \/ conn' = [conn EXCEPT ![wreq[w]] = "away"]
          /\ UNCHANGED <<lanes, lreq, ljob>>
          /\ \/ \E s \in Statuses : Respond(wreq[w], s)
             \/ UNCHANGED answer /\ conn' = [conn EXCEPT ![wreq[w]] = "away"]
          /\ wpc[w] # "get"
      BY <1>4 DEF ConnectFails, SendFails, FileServer, Forward, HangsUp, WorkerDone, Close,
         listenerVars
    <2>2. wreq[w] \in Clients /\ Pending(wreq[w], "GET")
      BY <2>1 DEF IInv, Typed, Places, Served
    <2>3. /\ answer'[wreq[w]] # <<>> \/ conn'[wreq[w]] = "away"
          /\ \A d \in Clients : d # wreq[w] => answer'[d] = answer[d]
      BY <2>1, <2>2, RespondOnce DEF Pending, IInv, Typed
    <2>4. c # wreq[w] /\ conn[c] = "open" /\ answer[c] = <<>>
      BY <1>1, <2>1, <2>2, <2>3 DEF IInv, Typed
    <2>5. Q!Queued' = Q!Queued
      BY <2>1, LanesKept DEF IInv
    <2> QED
      BY <1>1, <2>1, <2>4, <2>5 DEF Held, IInv, Typed
  <1> QED
    BY <1>2, <1>3, <1>4 DEF Work

LEMMA ForgottenStep ==
  ASSUME IInv, IInv', [Next]_vars, NEW c \in Forgotten' \ Forgotten
  PROVE  Excused(c)
  <1>1. CASE \E d \in Clients : Connect(d)
    <2>1. PICK d \in Clients : Connect(d)
      BY <1>1
    <2>2. /\ conn' = [conn EXCEPT ![d] = "waiting"] /\ answer' = [answer EXCEPT ![d] = <<>>]
          /\ UNCHANGED <<lanes, lreq, ljob, wreq>>
      BY <2>1 DEF Connect, listenerVars, workerVars
    <2>3. c # d /\ conn[c] = "open" /\ answer[c] = <<>>
      BY <2>2, NewlyForgotten DEF IInv, Typed
    <2>4. Q!Queued' = Q!Queued
      BY <2>2, LanesKept DEF IInv
    <2> QED
      BY <2>2, <2>3, <2>4, NewlyForgotten DEF Held
  <1>2. CASE BrokenPipe \/ UNCHANGED vars
    <2>1. UNCHANGED <<lanes, conn, answer, lreq, ljob, wreq>>
      BY <1>2 DEF BrokenPipe, clientVars, listenerVars, workerVars, vars
    <2>2. Q!Queued' = Q!Queued
      BY <2>1, LanesKept DEF IInv
    <2> QED
      BY <2>1, <2>2, NewlyForgotten DEF Held
  <1> QED
    BY <1>1, <1>2, ForgottenByListener, ForgottenByWorker DEF Next

(* A connection is left open and unanswered only for a queue that was full *)
(* when add_work looked, or because its request was given away as a job.   *)
THEOREM NobodyForgottenWithoutReason == Spec => ForgottenForAReason
  <1>1. IInv /\ IInv' /\ [Next]_vars =>
           [\A c \in Forgotten' \ Forgotten : size = Capacity \/ \E l \in Listeners : ljob[l] = c]_vars
    BY ForgottenStep DEF Excused
  <1> QED
    BY Invariance, <1>1, PTL DEF Spec, ForgottenForAReason

-----------------------------------------------------------------------------
(* How a connection can be closed.                                         *)

ClosedRight(c) ==
    \/ Len(answer'[c]) = 1 /\ answer'[c][1] \in Deserved(sent[c])
    \/ /\ answer'[c] = <<>> /\ sent[c] = "GET"
       /\ \E w \in Workers : wreq[w] = c /\ wpc[w] = "relay"

LEMMA ClosedByListener ==
  ASSUME IInv, NEW l \in Listeners, Listen(l), NEW c \in Clients,
         conn[c] = "open", conn'[c] = "away"
  PROVE  ClosedRight(c)
  <1>1. QueueIsEmpty(l) \/ ReplyJob(l) \/ QueueIsFull(l)
    <2>1. CASE Accept(l)
      BY <2>1 DEF Accept, IInv, Typed
    <2>2. CASE QueueIsNotEmpty(l) \/ ListenerGets(l) \/ QueueIsNotFull(l) \/ AddWork(l)
      BY <2>2 DEF QueueIsNotEmpty, ListenerGets, QueueIsNotFull, AddWork, clientVars
    <2>3. CASE BadRequest(l)
      BY <2>3 DEF BadRequest
    <2> QED
      BY <2>1, <2>2, <2>3 DEF Listen
  <1>2. PICK s \in Statuses :
           /\ Respond(lreq[l], s) /\ Close(lreq[l])
           /\ lpc[l] \in {"GetJob", "reply"} => s \in {"JOB", "QUEUE_EMPTY"}
           /\ lpc[l] = "GET" => s = "QUEUE_FULL"
           /\ lpc[l] \in {"GetJob", "reply", "GET"}
    BY <1>1 DEF QueueIsEmpty, ReplyJob, QueueIsFull
  <1>3. lreq[l] \in Clients /\ Pending(lreq[l], KindAt(lpc[l]))
    BY <1>2, ListenerAlone DEF IInv, Places
  <1>4. c = lreq[l]
    BY <1>2 DEF Close, IInv, Typed
  <1>5. Len(answer'[c]) = 1 /\ answer'[c][1] = s
    BY <1>2, <1>3, <1>4, RespondOnce DEF Pending, IInv
  <1> QED
    BY <1>2, <1>3, <1>4, <1>5 DEF ClosedRight, Deserved, Pending, KindAt

LEMMA ClosedByWorker ==
  ASSUME IInv, NEW w \in Workers, Work(w) \/ FileServer(w), NEW c \in Clients,
         conn[c] = "open", conn'[c] = "away"
  PROVE  ClosedRight(c)
  <1>1. SendFails(w) \/ FileServer(w)
    <2>1. CASE WorkerGets(w) \/ OpenSocket(w) \/ Connected(w) \/ SentOn(w)
      BY <2>1 DEF WorkerGets, OpenSocket, Connected, SentOn, clientVars
    <2>2. CASE ConnectFails(w)
      BY <2>2 DEF ConnectFails
    <2> QED
      BY <2>1, <2>2 DEF Work
  <1>2. Close(wreq[w]) /\ wpc[w] \in {"send", "relay"}
    BY <1>1 DEF SendFails, FileServer, Forward, HangsUp
  <1>3. wreq[w] \in Clients /\ Pending(wreq[w], "GET")
    BY <1>2 DEF IInv, Typed, Places, Served
  <1>4. c = wreq[w]
    BY <1>2 DEF Close, IInv, Typed
  <1>5. CASE SendFails(w) \/ Forward(w)
    <2>1. PICK s \in {"BAD_GATEWAY", "FILE"} : Respond(wreq[w], s)
      BY <1>5 DEF SendFails, Forward
    <2>2. Len(answer'[c]) = 1 /\ answer'[c][1] = s
      BY <1>3, <1>4, <2>1, RespondOnce DEF Pending, IInv
    <2> QED
      BY <1>3, <1>4, <2>1, <2>2 DEF ClosedRight, Deserved, Pending
  <1>6. CASE HangsUp(w)
    BY <1>3, <1>4, <1>6 DEF HangsUp, ClosedRight, Pending
  <1> QED
    BY <1>1, <1>5, <1>6 DEF FileServer

LEMMA ClosedStep ==
  ASSUME IInv, [Next]_vars, NEW c \in Clients, conn[c] = "open", conn'[c] = "away"
  PROVE  ClosedRight(c)
  <1>1. CASE \E d \in Clients : Connect(d)
    BY <1>1 DEF Connect, IInv, Typed
  <1>2. CASE BrokenPipe \/ UNCHANGED vars
    BY <1>2 DEF BrokenPipe, clientVars, vars
  <1> QED
    BY <1>1, <1>2, ClosedByListener, ClosedByWorker DEF Next

(* A connection is closed after exactly one answer, the one its request    *)
(* deserves, or with none after its request went to a file server that     *)
(* gave nothing back, whatever the number of threads and clients.          *)
THEOREM NobodyClosedWithoutReason == Spec => ClosedForAReason
  <1>1. IInv /\ [Next]_vars =>
           [\A c \in Clients : conn[c] = "open" /\ conn'[c] = "away" =>
               \/ Len(answer'[c]) = 1 /\ answer'[c][1] \in Deserved(sent[c])
               \/ /\ answer'[c] = <<>> /\ sent[c] = "GET"
                  /\ \E w \in Workers : wreq[w] = c /\ wpc[w] = "relay"]_vars
    BY ClosedStep DEF ClosedRight
  <1> QED
    BY Invariance, <1>1, PTL DEF Spec, ClosedForAReason
=============================================================================
