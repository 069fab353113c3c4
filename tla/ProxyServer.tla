----------------------------- MODULE ProxyServer -----------------------------
(***************************************************************************)
(* p6/starter-code/proxyserver.c: listener threads that accept connections *)
(* and queue the GET requests they carry, and worker threads that forward  *)
(* queued requests to the file server and its answers to the clients.  The *)
(* file server may refuse, hang up, or never say a word.                   *)
(*                                                                         *)
(* The queue is the one PriorityQueue promises and SafeQueue implements:   *)
(* add_work and get_work are atomic here.  The tests of priorityQueue->size *)
(* in serve_forever take no lock and are steps of their own.               *)
(***************************************************************************)
EXTENDS Integers, FiniteSets, Sequences

CONSTANTS
    Clients,     \* clients; each has at most one connection at a time
    Kinds,       \* the kinds of request they send, a subset of AllKinds
    Listeners,   \* listener threads, one port each
    Workers,     \* worker threads
    Priority,    \* Priority[c]: the priority in the path of c's GET requests
    Capacity,    \* max_queue_size
    MaxFds,      \* descriptors the process may have open for connections
    NoClient     \* no client

AllKinds == {"GetJob", "GET", "other"}

ASSUME ProxyServerAssumption ==
    /\ IsFiniteSet(Clients)
    /\ Kinds \subseteq AllKinds
    /\ Capacity \in Nat
    /\ MaxFds \in Nat
    /\ NoClient \notin Clients

VARIABLES
    lanes,    \* priorityQueue, as PriorityQueue has it
    backlog,  \* backlog[l]: connections not yet accepted on l's port
    conn,     \* conn[c]: the connection of c, as the proxy sees it
    sent,     \* sent[c]: the kind of the request on c's connection
    answer,   \* answer[c]: the responses written to c's connection
    lpc, lreq, ljob,   \* each listener's place, its client, the job it took
    wpc, wreq,         \* each worker's place and the request it serves
    leaked,   \* file server sockets that were never closed
    up        \* the process has not exited and was not killed

clientVars == <<backlog, conn, sent, answer>>
listenerVars == <<lpc, lreq, ljob>>
workerVars == <<wpc, wreq>>
vars == <<lanes, backlog, conn, sent, answer, lpc, lreq, ljob, wpc, wreq, leaked, up>>

Q == INSTANCE PriorityQueue WITH Requests <- Clients

size == Cardinality(Q!Queued)

(* Descriptors in use: client connections, and sockets to the file server. *)
OpenFds == Cardinality({ c \in Clients : conn[c] = "open" })
         + Cardinality({ w \in Workers : wpc[w] \in {"connect", "send", "relay"} })
         + leaked

Init ==
    /\ lanes = [p \in Q!Levels |-> <<>>]
    /\ backlog = [l \in Listeners |-> <<>>]
    /\ conn = [c \in Clients |-> "away"]
    /\ sent = [c \in Clients |-> "nothing"]
    /\ answer = [c \in Clients |-> <<>>]
    /\ lpc = [l \in Listeners |-> "accept"]
    /\ lreq = [l \in Listeners |-> NoClient]
    /\ ljob = [l \in Listeners |-> NoClient]
    /\ wpc = [w \in Workers |-> "get"]
    /\ wreq = [w \in Workers |-> NoClient]
    /\ leaked = 0
    /\ up = TRUE

Respond(c, status) == answer' = [answer EXCEPT ![c] = Append(@, status)]
Close(c) == conn' = [conn EXCEPT ![c] = "away"]

-----------------------------------------------------------------------------
(* Clients.  One whose connection was closed may come back. *)

Connect(c) ==
    /\ conn[c] = "away"
    /\ \E k \in Kinds : sent' = [sent EXCEPT ![c] = k]
    /\ \E l \in Listeners : backlog' = [backlog EXCEPT ![l] = Append(@, c)]
    /\ conn' = [conn EXCEPT ![c] = "waiting"]
    /\ answer' = [answer EXCEPT ![c] = <<>>]
    /\ UNCHANGED <<lanes, listenerVars, workerVars, leaked, up>>

-----------------------------------------------------------------------------
(* serve_forever *)

ListenerGoes(l, point) == lpc' = [lpc EXCEPT ![l] = point]

ListenerDone(l) ==
    /\ ListenerGoes(l, "accept")
    /\ lreq' = [lreq EXCEPT ![l] = NoClient]
    /\ ljob' = [ljob EXCEPT ![l] = NoClient]

(* accept fails for want of a descriptor, and is called again, otherwise. *)
Accept(l) ==
    /\ lpc[l] = "accept"
    /\ OpenFds < MaxFds
    /\ backlog[l] # <<>>
    /\ backlog' = [backlog EXCEPT ![l] = Tail(@)]
    /\ LET c == Head(backlog[l])
       IN  /\ conn' = [conn EXCEPT ![c] = "open"]
           /\ lreq' = [lreq EXCEPT ![l] = c]
           /\ ListenerGoes(l, sent[c])
    /\ UNCHANGED <<lanes, sent, answer, ljob, workerVars, leaked, up>>

(* GetJob: the unlocked test for an empty queue. *)
QueueIsEmpty(l) ==
    /\ lpc[l] = "GetJob"
    /\ size = 0
    /\ Respond(lreq[l], "QUEUE_EMPTY")
    /\ Close(lreq[l])
    /\ ListenerDone(l)
    /\ UNCHANGED <<lanes, backlog, sent, workerVars, leaked, up>>

QueueIsNotEmpty(l) ==
    /\ lpc[l] = "GetJob"
    /\ size # 0
    /\ ListenerGoes(l, "get_work")
    /\ UNCHANGED <<lanes, clientVars, lreq, ljob, workerVars, leaked, up>>

(* get_work waits while the queue is empty. *)
ListenerGets(l) ==
    /\ lpc[l] = "get_work"
    /\ \E p \in Q!Levels :
        /\ Q!Dequeue(p)
        /\ ljob' = [ljob EXCEPT ![l] = Head(lanes[p])]
    /\ ListenerGoes(l, "reply")
    /\ UNCHANGED <<clientVars, lreq, workerVars, leaked, up>>

(* The text of the job answers GetJob; the job's own client is forgotten. *)
ReplyJob(l) ==
    /\ lpc[l] = "reply"
    /\ Respond(lreq[l], "JOB")
    /\ Close(lreq[l])
    /\ ListenerDone(l)
    /\ UNCHANGED <<lanes, backlog, sent, workerVars, leaked, up>>

(* A variant that goes on to queue the request it has refused. *)
QueueIsFullFallsThrough(l) ==
    /\ lpc[l] = "GET"
    /\ size = Capacity
    /\ Respond(lreq[l], "QUEUE_FULL")
    /\ Close(lreq[l])
    /\ ListenerGoes(l, "add_work")
    /\ UNCHANGED <<lanes, backlog, sent, lreq, ljob, workerVars, leaked, up>>

(* GET: the unlocked test for a full queue. *)
QueueIsFull(l) ==
    /\ lpc[l] = "GET"
    /\ size = Capacity
    /\ Respond(lreq[l], "QUEUE_FULL")
    /\ Close(lreq[l])
    /\ ListenerDone(l)
    /\ UNCHANGED <<lanes, backlog, sent, workerVars, leaked, up>>

QueueIsNotFull(l) ==
    /\ lpc[l] = "GET"
    /\ size # Capacity
    /\ ListenerGoes(l, "add_work")
    /\ UNCHANGED <<lanes, clientVars, lreq, ljob, workerVars, leaked, up>>

(* A variant of add_work that leaves the last cell of the array unused. *)
AddWorkOffByOne(l) ==
    /\ lpc[l] = "add_work"
    /\ IF size + 1 < Capacity THEN Q!Enqueue(lreq[l]) ELSE UNCHANGED lanes
    /\ ListenerDone(l)
    /\ UNCHANGED <<clientVars, workerVars, leaked, up>>

(* add_work returns without a word when the queue has filled up since. *)
AddWork(l) ==
    /\ lpc[l] = "add_work"
    /\ Q!Enqueue(lreq[l]) \/ (~Q!Room /\ UNCHANGED lanes)
    /\ ListenerDone(l)
    /\ UNCHANGED <<clientVars, workerVars, leaked, up>>

(* Neither GetJob nor GET: answered, and left open. *)
BadRequest(l) ==
    /\ lpc[l] = "other"
    /\ Respond(lreq[l], "BAD_REQUEST")
    /\ ListenerDone(l)
    /\ UNCHANGED <<lanes, backlog, conn, sent, workerVars, leaked, up>>

Listen(l) ==
    \/ Accept(l)
    \/ QueueIsEmpty(l) \/ QueueIsNotEmpty(l) \/ ListenerGets(l) \/ ReplyJob(l)
    \/ QueueIsFull(l) \/ QueueIsNotFull(l) \/ AddWork(l)
    \/ BadRequest(l)

-----------------------------------------------------------------------------
(* worker_thread and serve_request *)

WorkerGoes(w, point) == wpc' = [wpc EXCEPT ![w] = point]

WorkerDone(w) ==
    /\ WorkerGoes(w, "get")
    /\ wreq' = [wreq EXCEPT ![w] = NoClient]

(* get_work, and the sleep the request may ask for. *)
WorkerGets(w) ==
    /\ wpc[w] = "get"
    /\ \E p \in Q!Levels :
        /\ Q!Dequeue(p)
        /\ wreq' = [wreq EXCEPT ![w] = Head(lanes[p])]
    /\ WorkerGoes(w, "serve")
    /\ UNCHANGED <<clientVars, listenerVars, leaked, up>>

(* The socket to the file server; the process exits if there is none. *)
OpenSocket(w) ==
    /\ wpc[w] = "serve"
    /\ \/ OpenFds < MaxFds /\ WorkerGoes(w, "connect") /\ UNCHANGED up
       \/ OpenFds >= MaxFds /\ up' = FALSE /\ UNCHANGED wpc
    /\ UNCHANGED <<lanes, clientVars, listenerVars, wreq, leaked>>

(* The file server refuses: both descriptors stay open. *)
ConnectFails(w) ==
    /\ wpc[w] = "connect"
    /\ Respond(wreq[w], "BAD_GATEWAY")
    /\ leaked' = leaked + 1
    /\ WorkerDone(w)
    /\ UNCHANGED <<lanes, backlog, conn, sent, listenerVars, up>>

Connected(w) ==
    /\ wpc[w] = "connect"
    /\ WorkerGoes(w, "send")
    /\ UNCHANGED <<lanes, clientVars, listenerVars, wreq, leaked, up>>

(* A variant that does not tell the client when sending fails. *)
SendFailsSilently(w) ==
    /\ wpc[w] = "send"
    /\ Close(wreq[w])
    /\ WorkerDone(w)
    /\ UNCHANGED <<lanes, backlog, sent, answer, listenerVars, leaked, up>>

(* The request cannot be sent on. *)
SendFails(w) ==
    /\ wpc[w] = "send"
    /\ Respond(wreq[w], "BAD_GATEWAY")
    /\ Close(wreq[w])
    /\ WorkerDone(w)
    /\ UNCHANGED <<lanes, backlog, sent, listenerVars, leaked, up>>

SentOn(w) ==
    /\ wpc[w] = "send"
    /\ WorkerGoes(w, "relay")
    /\ UNCHANGED <<lanes, clientVars, listenerVars, wreq, leaked, up>>

(* recv brings a piece of the file; it and what follows go to the client,  *)
(* until the file server closes.                                           *)
Forward(w) ==
    /\ wpc[w] = "relay"
    /\ Respond(wreq[w], "FILE")
    /\ Close(wreq[w])
    /\ WorkerDone(w)
    /\ UNCHANGED <<lanes, backlog, sent, listenerVars, leaked, up>>

(* The first recv fails, or finds that the file server has closed: the     *)
(* client's connection is closed with nothing sent.                        *)
HangsUp(w) ==
    /\ wpc[w] = "relay"
    /\ Close(wreq[w])
    /\ WorkerDone(w)
    /\ UNCHANGED <<lanes, backlog, sent, answer, listenerVars, leaked, up>>

(* What a worker does by itself, and what it waits for without a timeout.  *)
Work(w) ==
    \/ WorkerGets(w) \/ OpenSocket(w)
    \/ ConnectFails(w) \/ Connected(w) \/ SendFails(w) \/ SentOn(w)

FileServer(w) == Forward(w) \/ HangsUp(w)

-----------------------------------------------------------------------------
(* A write to a connection that its other end has reset raises SIGPIPE,    *)
(* which the process does not handle.                                      *)
BrokenPipe ==
    /\ \/ \E l \in Listeners :
             \/ lpc[l] \in {"reply", "other"}
             \/ lpc[l] = "GetJob" /\ size = 0
             \/ lpc[l] = "GET" /\ size = Capacity
       \/ \E w \in Workers : wpc[w] \in {"connect", "send", "relay"}
    /\ up' = FALSE
    /\ UNCHANGED <<lanes, clientVars, listenerVars, workerVars, leaked>>

-----------------------------------------------------------------------------
Next ==
    /\ up
    /\ \/ \E c \in Clients : Connect(c)
       \/ \E l \in Listeners : Listen(l)
       \/ \E w \in Workers : Work(w) \/ FileServer(w)
       \/ BrokenPipe

Spec == Init /\ [][Next]_vars

(* The scheduler runs every thread that can run; clients need not come, and *)
(* the file server need not answer.                                        *)
FairSpec ==
    /\ Spec
    /\ \A l \in Listeners : WF_vars(up /\ Listen(l))
    /\ \A w \in Workers : WF_vars(up /\ Work(w))

-----------------------------------------------------------------------------
(* Properties *)

(* The places where a pointer to c's request is kept. *)
Holders(c) ==
    { <<"request", l>> : l \in { m \in Listeners : lreq[m] = c } }
    \cup { <<"job", l>> : l \in { m \in Listeners : ljob[m] = c } }
    \cup { <<"work", w>> : w \in { x \in Workers : wreq[x] = c } }
    \cup (IF c \in Q!Queued THEN {<<"queue", "queue">>} ELSE {})

(* A connection that some thread has still to answer or to close is open,  *)
(* has no answer yet and is held once: no thread writes to a descriptor    *)
(* that another thread closed and the kernel may have given to a new       *)
(* client, and no client gets two answers, nor a job another was given.    *)
HeldIsOpenAndUnanswered ==
    \A c \in Clients : Holders(c) # {} =>
        /\ conn[c] = "open"
        /\ answer[c] = <<>>
        /\ Cardinality(Holders(c)) = 1

(* The answer a request deserves: to a GetJob a job or QUEUE_EMPTY, to a   *)
(* GET a file, QUEUE_FULL or BAD_GATEWAY.                                  *)
Deserved(kind) == IF kind = "GetJob" THEN {"JOB", "QUEUE_EMPTY"}
                                     ELSE {"FILE", "QUEUE_FULL", "BAD_GATEWAY"}

(* A client reads an end of file after exactly one answer, the one its     *)
(* request deserves, or none, and then only because a worker had sent its  *)
(* GET on to the file server, which gave nothing back.                     *)
ClosedForAReason ==
    [][\A c \in Clients : conn[c] = "open" /\ conn'[c] = "away" =>
          \/ Len(answer'[c]) = 1 /\ answer'[c][1] \in Deserved(sent[c])
          \/ /\ answer'[c] = <<>> /\ sent[c] = "GET"
             /\ \E w \in Workers : wreq[w] = c /\ wpc[w] = "relay"]_vars

(* A connection the proxy has open and no thread holds is lost for good.   *)
Forgotten == { c \in Clients :
    conn[c] = "open" /\ answer[c] = <<>> /\ Holders(c) = {} }

(* add_work drops a request without a word when the queue has filled up    *)
(* since it was tested, and ReplyJob forgets whose request the job was; no *)
(* request is forgotten otherwise.  status_code_t provides QUEUE_FULL for  *)
(* the case that the "priority queue is full" (proxyserver.h:29).          *)
ForgottenForAReason ==
    [][\A c \in Forgotten' \ Forgotten : size = Capacity \/ \E l \in Listeners : ljob[l] = c]_vars
=============================================================================
