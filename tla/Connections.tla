---------------------------- MODULE Connections -----------------------------
(***************************************************************************)
(* The live connections of one user, and the messages broadcast over them: *)
(* WebsocketManager (shared/infra/websocket.py) and SSEManager             *)
(* (shared/infra/sse.py).  Both run in one event loop: what happens        *)
(* between two awaits is one step.                                         *)
(*                                                                         *)
(* A websocket broadcast walks the live list by position while it awaits   *)
(* each send, so a connection that leaves shifts the ones after it.  An    *)
(* SSE broadcast walks a copy, and waits at a queue that is full.  Nothing *)
(* awaits while it holds the SSE lock, so it never makes anybody wait.     *)
(*                                                                         *)
(* A broadcast is a request of Desk; a message is named by its broadcast.  *)
(***************************************************************************)
EXTENDS Desk, Functions

CONSTANTS
    Channels,      \* names of websockets and of SSE queues, each used once
    QueueCapacity  \* maxsize of a queue

ASSUME ConnectionsAssumption == QueueCapacity \in Nat \ {0}

VARIABLES
    sockets,    \* active_connections of the user, a list
    queues,     \* local_queues of the user, a set
    gone,       \* the channels that have disconnected
    broken,     \* the sockets whose peer is dead, the queues that are shut down
    backlog,    \* the messages in each queue that its reader has not taken
    received,   \* pairs of a broadcast and a channel its message went into
    audience,   \* for each broadcast, the channels that were open when it began
    disturbed   \* the websocket broadcasts that a removal overlapped

connectionVars == <<sockets, queues, gone, broken, backlog, received, audience, disturbed>>

ConnectionsInit ==
    /\ sockets = <<>> /\ queues = {} /\ gone = {} /\ broken = {}
    /\ backlog = [c \in Channels |-> {}]
    /\ received = {} /\ disturbed = {}
    /\ audience = [r \in Requests |-> {}]

OnList == {sockets[i] : i \in DOMAIN sockets}

IsNew(c) == c \notin OnList \cup queues \cup gone \cup broken

SendingOnSockets == {q \in Requests : pc[q] = "sending"}

-----------------------------------------------------------------------------
(* Connections come and go.                                                *)

ConnectSocket(c) ==
    /\ IsNew(c)
    /\ sockets' = Append(sockets, c)
    /\ UNCHANGED <<queues, gone, broken, backlog, received, audience, disturbed>>
    /\ UNCHANGED deskVars

\* list.remove: the first occurrence.
DisconnectSocket(c) ==
    /\ c \in OnList
    /\ sockets' = Without(sockets, {c})
    /\ gone' = gone \cup {c}
    /\ disturbed' = disturbed \cup SendingOnSockets
    /\ UNCHANGED <<queues, broken, backlog, received, audience>>
    /\ UNCHANGED deskVars

ConnectQueue(c) ==
    /\ IsNew(c)
    /\ queues' = queues \cup {c}
    /\ UNCHANGED <<sockets, gone, broken, backlog, received, audience, disturbed>>
    /\ UNCHANGED deskVars

DisconnectQueue(c) ==
    /\ c \in queues
    /\ queues' = queues \ {c}
    /\ gone' = gone \cup {c}
    /\ UNCHANGED <<sockets, broken, backlog, received, audience, disturbed>>
    /\ UNCHANGED deskVars

\* A peer dies, or a queue is shut down by the one who reads it.
Break(c) ==
    /\ c \in (OnList \cup queues) \ broken
    /\ broken' = broken \cup {c}
    /\ UNCHANGED <<sockets, queues, gone, backlog, received, audience, disturbed>>
    /\ UNCHANGED deskVars

\* The reader of a queue takes a message.
Take(c, m) ==
    /\ m \in backlog[c]
    /\ backlog' = [backlog EXCEPT ![c] = @ \ {m}]
    /\ UNCHANGED <<sockets, queues, gone, broken, received, audience, disturbed>>
    /\ UNCHANGED deskVars

-----------------------------------------------------------------------------
(* WebsocketManager.send_to_user.                                          *)

BeginSend(r) ==
    /\ Start(r, "sending", [next |-> 1, dead |-> <<>>])
    /\ audience' = [audience EXCEPT ![r] = OnList]
    /\ UNCHANGED <<sockets, queues, gone, broken, backlog, received, disturbed>>

\* One send: WebSocketException puts the connection among the dead ones, any other
\* exception ends the broadcast (Abandon).
SendNext(r) ==
    /\ pc[r] = "sending"
    /\ held[r].next <= Len(sockets)
    /\ LET c == sockets[held[r].next]
           dead == IF c \in broken THEN <<c>> ELSE <<>>
       IN  /\ Step(r, "sending", "sending",
                   [next |-> held[r].next + 1, dead |-> held[r].dead \o dead])
           /\ received' = IF c \in broken THEN received ELSE received \cup {<<r, c>>}
    /\ UNCHANGED <<sockets, queues, gone, broken, backlog, audience, disturbed>>

\* The dead connections are removed in one step, up to the first that has
\* disconnected by itself meanwhile: list.remove raises on it.
Removable(dead) ==
    {dead[i] : i \in {i \in DOMAIN dead : \A j \in 1..i : dead[j] \in OnList}}

RemoveDead(r) ==
    /\ pc[r] = "sending"
    /\ held[r].next > Len(sockets)
    /\ LET dead == held[r].dead
           removed == Removable(dead)
       IN  /\ sockets' = Without(sockets, removed)
           /\ gone' = gone \cup removed
           /\ disturbed' = disturbed \cup IF removed = {} THEN {} ELSE SendingOnSockets \ {r}
           /\ End(r, "sending", IF \A i \in DOMAIN dead : dead[i] \in OnList
                                THEN "done" ELSE "failed")
    /\ UNCHANGED <<queues, broken, backlog, received, audience>>

-----------------------------------------------------------------------------
(* SSEManager.broadcast_to_local.                                          *)

BeginBroadcast(r) ==
    /\ \E order \in Bijection(1..Cardinality(queues), queues) :
          Start(r, "putting", [left |-> order, dead |-> {}])
    /\ audience' = [audience EXCEPT ![r] = queues]
    /\ UNCHANGED <<sockets, queues, gone, broken, backlog, received, disturbed>>

\* Mutant: the walk is over the live set, as the websockets' is.
NextOnLiveSet(left) == SelectSeq(Tail(left), LAMBDA c : c \in queues)

NextOnCopy(left) == Tail(left)

\* put waits while the queue is full; a queue that is shut down raises.
PutNext(r) ==
    /\ pc[r] = "putting"
    /\ held[r].left # <<>>
    /\ LET c == Head(held[r].left)
       IN  /\ c \in broken \/ Cardinality(backlog[c]) < QueueCapacity
           /\ Step(r, "putting", "putting",
                   [left |-> NextOnCopy(held[r].left), dead |-> held[r].dead \cup ({c} \cap broken)])
           /\ IF c \in broken
              THEN UNCHANGED <<received, backlog>>
              ELSE /\ received' = received \cup {<<r, c>>}
                   /\ backlog' = [backlog EXCEPT ![c] = @ \cup {r}]
    /\ UNCHANGED <<sockets, queues, gone, broken, audience, disturbed>>

\* The dead queues are discarded under the lock; one that has left is not missed.
DiscardDead(r) ==
    /\ pc[r] = "putting"
    /\ held[r].left = <<>>
    /\ queues' = queues \ held[r].dead
    /\ gone' = gone \cup held[r].dead
    /\ End(r, "putting", "done")
    /\ UNCHANGED <<sockets, broken, backlog, received, audience, disturbed>>

ConnectionsNext ==
    \/ \E c \in Channels :
        \/ ConnectSocket(c) \/ DisconnectSocket(c)
        \/ ConnectQueue(c) \/ DisconnectQueue(c)
        \/ Break(c)
        \/ \E m \in Requests : Take(c, m)
    \/ \E r \in Requests :
        \/ BeginSend(r) \/ SendNext(r) \/ RemoveDead(r)
        \/ BeginBroadcast(r) \/ PutNext(r) \/ DiscardDead(r)
        \/ Abandon(r) /\ UNCHANGED connectionVars

ConnectionsSpec == DeskInit /\ ConnectionsInit /\ [][ConnectionsNext]_<<deskVars, connectionVars>>

-----------------------------------------------------------------------------
\* A broadcast that ran to its end reached every channel that was open when it
\* began and did not break: over queues whoever leaves meanwhile, over websockets
\* unless the list lost a connection while it was walked.  (send_to_user and
\* broadcast_to_local, across their awaits.)
BroadcastReachesAll ==
    \A r \in Requests :
        pc[r] = "done" /\ r \notin disturbed =>
            \A c \in audience[r] \ broken : <<r, c>> \in received
=============================================================================
