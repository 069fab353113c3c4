---------------------------- MODULE MCProxyServer ----------------------------
(***************************************************************************)
(* Model checking p6's proxy with a handful of clients.  The runs differ in *)
(* the kinds of request they send and in the number of listeners.          *)
(***************************************************************************)
EXTENDS ProxyServer, SequencesExt

CONSTANTS cLow1, cLow2, cHigh

MCPriority == [c \in Clients |-> IF c = cHigh THEN 2 ELSE 1]

-----------------------------------------------------------------------------
(* Requests of the highest priority do not starve, whatever comes after    *)
(* them and however often the file server refuses: once queued, each is    *)
(* answered, given away as a job or sent on to the file server, unless the *)
(* process ends, or the file server leaves every worker without an answer  *)
(* for ever (recv has no timeout).                                         *)
HighestIsServed ==
    \/ <>[](\A w \in Workers : wpc[w] = "relay")
    \/ \A c \in Clients :
          (\A d \in Clients : Priority[d] <= Priority[c]) =>
            (c \in Q!Queued ~> \/ answer[c] # <<>>
                               \/ \E l \in Listeners : ljob[l] = c
                               \/ \E w \in Workers : wreq[w] = c /\ wpc[w] = "relay"
                               \/ ~up)

(* A client that asks for a job is answered, with a job or that the        *)
(* "priority queue is empty" (proxyserver.h:30), unless the process ends.  *)
GetJobIsAnswered ==
    \A c \in Clients :
        (conn[c] = "waiting" /\ sent[c] = "GetJob") ~> (answer[c] # <<>> \/ ~up)
=============================================================================
