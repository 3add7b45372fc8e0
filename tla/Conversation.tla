---------------------------- MODULE Conversation ----------------------------
(***************************************************************************)
(* The test client and the server talking: the sender threads of           *)
(* tcp_client/main.cpp on one side, the worker threads of CellServer on    *)
(* the other, and between them the buffers of every connection, one for    *)
(* each direction.  Both sides call a blocking send(), so each can come    *)
(* to wait for the other; the question is when they all do.                *)
(*                                                                         *)
(* Buffers hold whole messages.  What the sender's end holds has not       *)
(* arrived: select() may report a socket writable, and no more, although   *)
(* messages are on their way to it, and a recv() may complete none.        *)
(* Descriptors, connecting and leaving are in EasyTcpServer and TcpClient: *)
(* here the clients are connected and stay.                                *)
(***************************************************************************)
EXTENDS Integers

CONSTANTS
  Senders,    \* the sender threads
  Workers,    \* the worker threads of the server
  Clients,    \* the client objects, which stand for their connections too
  senderOf,   \* senderOf[c]: the thread that uses client c
  cellOf,     \* cellOf[c]: the worker that serves it
  firstOf,    \* firstOf[t]: the client thread t begins a round with
  nextOf,     \* nextOf[c]: the client that is visited after c
  ReqCap,     \* requests the buffers of a connection hold
  RepCap,     \* replies the buffers of a connection hold
  ReqOut,     \* requests of these that may be at the client's end or on their way
  RepOut,     \* replies of these that may be at the server's end or on their way
  RecvReqs,   \* the requests one recv() of the worker completes at most
  RecvReps    \* the replies one recv() of the client completes at most

ASSUME ConversationAssumption ==
  /\ senderOf \in [Clients -> Senders]
  /\ cellOf \in [Clients -> Workers]
  /\ firstOf \in [Senders -> Clients]
  /\ nextOf \in [Clients -> Clients]
  /\ \A t \in Senders : senderOf[firstOf[t]] = t
  /\ \A c \in Clients : senderOf[nextOf[c]] = senderOf[c]
  /\ {ReqCap, RepCap, RecvReqs, RecvReps} \subseteq Nat \ {0}
  /\ ReqOut \in 0..ReqCap /\ RepOut \in 0..RepCap

VARIABLES
  req,    \* req[c]: requests sent on c that the worker has not received
  hand,   \* hand[c]: requests the worker has received and not yet answered
  rep,    \* rep[c]: replies sent on c that the client has not received
  cur,    \* cur[t]: the client thread t is at
  call,   \* call[t]: what t calls there, "on_run" or "send_data"
  ready   \* ready[w]: the clients in read_fds that w has not visited yet

vars == <<req, hand, rep, cur, call, ready>>

TypeOK ==
  /\ req \in [Clients -> 0..ReqCap]
  /\ hand \in [Clients -> 0..RecvReqs]
  /\ rep \in [Clients -> 0..RepCap]
  /\ cur \in [Senders -> Clients]
  /\ call \in [Senders -> {"on_run", "send_data"}]
  /\ ready \in [Workers -> SUBSET Clients]

Init ==
  /\ req = [c \in Clients |-> 0]
  /\ hand = [c \in Clients |-> 0]
  /\ rep = [c \in Clients |-> 0]
  /\ cur = firstOf
  /\ call = [t \in Senders |-> "on_run"]
  /\ ready = [w \in Workers |-> {}]

\* Mutant: a message handed over before its last byte.
TakenEarly(n, out, most) == {k \in 0..most : k <= n + 1 /\ (n > out => k > 0)}

\* How many messages one call of recv_data completes, of n that were sent: those
\* that have arrived whole, at most 4096 bytes of them.  There may be none, or half
\* of one, as long as the sender's end and the network can hold all n.
Taken(n, out, most) == {k \in 0..most : k <= n /\ (n > out => k > 0)}

-----------------------------------------------------------------------------
(* A sender thread: on_run, then send_data, for each of its clients.       *)

\* Mutant: a client that only sends.
OnRunUnread(t) ==
  /\ call[t] = "on_run"
  /\ call' = [call EXCEPT ![t] = "send_data"]
  /\ UNCHANGED <<req, hand, rep, cur, ready>>

\* select() returns as the socket is writable or the second is over, whether or
\* not there is a reply to read.
OnRun(t) ==
  LET c == cur[t] IN
  /\ call[t] = "on_run"
  /\ \E n \in Taken(rep[c], RepOut, RecvReps) : rep' = [rep EXCEPT ![c] = @ - n]
  /\ call' = [call EXCEPT ![t] = "send_data"]
  /\ UNCHANGED <<req, hand, cur, ready>>

\* send() returns once there is room for the request.
SendData(t) ==
  LET c == cur[t] IN
  /\ call[t] = "send_data"
  /\ req[c] < ReqCap
  /\ req' = [req EXCEPT ![c] = @ + 1]
  /\ call' = [call EXCEPT ![t] = "on_run"]
  /\ cur' = [cur EXCEPT ![t] = nextOf[c]]
  /\ UNCHANGED <<hand, rep, ready>>

-----------------------------------------------------------------------------
(* A worker thread: select(), then the readable clients in some order.     *)

Answering(w) == \E c \in Clients : cellOf[c] = w /\ hand[c] > 0

\* What select() may report readable: every client of w a request of which has
\* arrived, and perhaps those with requests on their way.
Readable(w) ==
  {R \in SUBSET {c \in Clients : cellOf[c] = w /\ req[c] > 0} :
     \A c \in Clients : cellOf[c] = w /\ req[c] > ReqOut => c \in R}

\* Mutant: select(max_sock, ...) for select(max_sock + 1, ...).
SelectBelowHighest(w) ==
  /\ ~Answering(w)
  /\ ready[w] = {}
  /\ \E R \in Readable(w) :
       ready' = [ready EXCEPT ![w] = {c \in R : \E d \in Clients : cellOf[d] = w /\ d > c}]
  /\ UNCHANGED <<req, hand, rep, cur, call>>

SelectClients(w) ==
  /\ ~Answering(w)
  /\ ready[w] = {}
  /\ \E R \in Readable(w) : ready' = [ready EXCEPT ![w] = R]
  /\ UNCHANGED <<req, hand, rep, cur, call>>

\* Mutant: a request that has been received stays in the buffer.
RecvDataKept(w, c) ==
  /\ ~Answering(w)
  /\ c \in ready[w]
  /\ \E n \in Taken(req[c], ReqOut, RecvReqs) : hand' = [hand EXCEPT ![c] = n]
  /\ ready' = [ready EXCEPT ![w] = @ \ {c}]
  /\ UNCHANGED <<req, rep, cur, call>>

RecvData(w, c) ==
  /\ ~Answering(w)
  /\ c \in ready[w]
  /\ \E n \in Taken(req[c], ReqOut, RecvReqs) :
       /\ req' = [req EXCEPT ![c] = @ - n]
       /\ hand' = [hand EXCEPT ![c] = n]
  /\ ready' = [ready EXCEPT ![w] = @ \ {c}]
  /\ UNCHANGED <<rep, cur, call>>

\* on_net_msg answers a request: send() returns once there is room.
OnNetMsg(w, c) ==
  /\ cellOf[c] = w
  /\ hand[c] > 0
  /\ rep[c] < RepCap
  /\ rep' = [rep EXCEPT ![c] = @ + 1]
  /\ hand' = [hand EXCEPT ![c] = @ - 1]
  /\ UNCHANGED <<req, cur, call, ready>>

-----------------------------------------------------------------------------
Sender(t) == OnRun(t) \/ SendData(t)

Worker(w) ==
  \/ SelectClients(w)
  \/ \E c \in Clients : RecvData(w, c) \/ OnNetMsg(w, c)

Next == (\E t \in Senders : Sender(t)) \/ (\E w \in Workers : Worker(w))

Spec == Init /\ [][Next]_vars

FairSpec ==
  /\ Spec
  /\ \A t \in Senders : WF_vars(Sender(t))
  /\ \A w \in Workers : WF_vars(Worker(w))

-----------------------------------------------------------------------------
(* Properties.                                                             *)

SenderWaits(t) == call[t] = "send_data" /\ req[cur[t]] = ReqCap

WorkerWaits(w, c) == cellOf[c] = w /\ hand[c] > 0 /\ rep[c] = RepCap

\* The senders S are blocked in send() each to one of the workers W, and these
\* are blocked in send() each to a client of one of S.
Circle(S, W) ==
  /\ \A t \in S : SenderWaits(t) /\ cellOf[cur[t]] \in W
  /\ \A w \in W : \E c \in Clients : WorkerWaits(w, c) /\ senderOf[c] \in S

\* No threads wait for one another in a circle, where nobody would ever run again
\* (easy_tcp_client.hpp:100, tcp_client/main.cpp:40, CellServer::on_net_msg).
NoStandstill ==
  \A S \in (SUBSET Senders) \ {{}}, W \in (SUBSET Workers) \ {{}} : ~Circle(S, W)

\* As a client reads before it sends, though it may find nothing, its messages
\* under way, requests and replies together, exceed by one at most what the request
\* buffers, one recv() of the worker and the server's end of the connection hold: the
\* client's own end never fills, if it has room for so many (on_run before send_data,
\* tcp_client/main.cpp:39-44; the reply of CellServer::on_net_msg).
BoundedUnderWay ==
  \A c \in Clients : req[c] + hand[c] + rep[c] <= ReqCap + RecvReqs + RepOut + 1

\* Every client object gets its turn again and again: no on_run or send_data of
\* a thread's round (tcp_client/main.cpp:39-44) is the last one.
EveryClientServed ==
  \A c \in Clients : []<>(cur[senderOf[c]] = c /\ call[senderOf[c]] = "on_run")
=============================================================================
