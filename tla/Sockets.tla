------------------------------ MODULE Sockets ------------------------------
(***************************************************************************)
(* The kernel's stream sockets and the remote peers, as far as the server  *)
(* in depends/include uses them.  Nothing here is code of the repository:  *)
(* each operator is the effect of one system call the code makes (accept,  *)
(* recv, send, select, close), or a step of a peer on the other end of a   *)
(* connection.                                                             *)
(*                                                                         *)
(* Data is abstracted to counts.  A message is MsgLen fragments, TCP may   *)
(* deliver any number of them at a time, and a reply is one unit of the    *)
(* send buffer.                                                            *)
(***************************************************************************)
EXTENDS Integers, FiniteSets

CONSTANTS
  Conns,      \* the connections that may ever be made
  Fds,        \* the descriptors the process may have open for connections
  None,       \* "no connection" and "no descriptor" (INVALID_SOCKET)
  MsgLen,     \* fragments of a complete message
  MaxFrags,   \* bound: the fragments one peer sends in its life
  SendCap,    \* replies the send and receive buffers of a connection hold
  Quitters    \* the peers that may close their connection

ASSUME SocketsAssumption ==
  /\ IsFiniteSet(Conns)
  /\ None \notin Conns \cup Fds
  /\ MsgLen \in Nat \ {0}
  /\ MaxFrags \in Nat
  /\ SendCap \in Nat \ {0}
  /\ Quitters \subseteq Conns

VARIABLES
  listening,  \* the listening socket is bound and in the listen state
  peer,       \* peer[k]: the state of connection k
  backlog,    \* completed connections nobody has accepted yet
  owner,      \* owner[f]: the connection descriptor f is open for, or None
  inq,        \* inq[k]: fragments in the receive buffer of k
  outq,       \* outq[k]: replies sent on k that its peer has not read
  sent        \* sent[k]: fragments the peer of k has sent so far

socketVars == <<listening, peer, backlog, owner, inq, outq, sent>>

(***************************************************************************)
(* "open": both ends are up.  "closed": the peer has closed and its end of *)
(* file has arrived.  "reset": a reset has arrived.  "gone": this process  *)
(* has closed its descriptor.                                              *)
(***************************************************************************)
PeerStates == {"idle", "open", "closed", "reset", "gone"}

SocketsTypeOK ==
  /\ listening \in BOOLEAN
  /\ peer \in [Conns -> PeerStates]
  /\ backlog \subseteq Conns
  /\ owner \in [Fds -> Conns \cup {None}]
  /\ inq \in [Conns -> Nat]
  /\ outq \in [Conns -> Nat]
  /\ sent \in [Conns -> 0..MaxFrags]

SocketsInit ==
  /\ listening = FALSE
  /\ peer = [k \in Conns |-> "idle"]
  /\ backlog = {}
  /\ owner = [f \in Fds |-> None]
  /\ inq = [k \in Conns |-> 0]
  /\ outq = [k \in Conns |-> 0]
  /\ sent = [k \in Conns |-> 0]

-----------------------------------------------------------------------------
(* System calls.                                                           *)

\* select() reports k readable: there is data, an end of file or an error.
Readable(k) == inq[k] > 0 \/ peer[k] \in {"closed", "reset"}

\* accept() gives the waiting connection k some free descriptor f.
KAccept(k, f) ==
  /\ k \in backlog
  /\ owner[f] = None
  /\ backlog' = backlog \ {k}
  /\ owner' = [owner EXCEPT ![f] = k]
  /\ UNCHANGED <<listening, peer, inq, outq, sent>>

\* recv() takes n fragments out of the receive buffer.
KRecv(k, n) ==
  /\ inq' = [inq EXCEPT ![k] = @ - n]
  /\ UNCHANGED <<listening, peer, backlog, owner, outq, sent>>

\* A blocking send() returns: the reply is buffered, or there is an error
\* (k = None: the descriptor is not open).  A peer that has closed answers the
\* data with a reset, which may come at once or later.
KSend(k) ==
  /\ UNCHANGED <<listening, backlog, owner, inq, sent>>
  /\ \/ /\ k \in Conns
        /\ peer[k] = "open"
        /\ outq[k] < SendCap
        /\ outq' = [outq EXCEPT ![k] = @ + 1]
        /\ UNCHANGED peer
     \/ /\ k \in Conns
        /\ peer[k] = "closed"
        /\ \E s \in {"closed", "reset"} : peer' = [peer EXCEPT ![k] = s]
        /\ UNCHANGED outq
     \/ /\ k = None \/ peer[k] = "reset"
        /\ UNCHANGED <<peer, outq>>

\* close() frees the descriptor f; what its connection had buffered is dropped.
KClose(f) ==
  LET k == owner[f] IN
  /\ owner' = [owner EXCEPT ![f] = None]
  /\ peer' = [i \in Conns |-> IF i = k THEN "gone" ELSE peer[i]]
  /\ inq' = [i \in Conns |-> IF i = k THEN 0 ELSE inq[i]]
  /\ outq' = [i \in Conns |-> IF i = k THEN 0 ELSE outq[i]]
  /\ UNCHANGED <<listening, backlog, sent>>

-----------------------------------------------------------------------------
(* Steps of the peers.                                                     *)

PeerConnect(k) ==
  /\ listening
  /\ peer[k] = "idle"
  /\ peer' = [peer EXCEPT ![k] = "open"]
  /\ backlog' = backlog \cup {k}
  /\ UNCHANGED <<listening, owner, inq, outq, sent>>

PeerSend(k) ==
  /\ peer[k] = "open"
  /\ sent[k] < MaxFrags
  /\ sent' = [sent EXCEPT ![k] = @ + 1]
  /\ inq' = [inq EXCEPT ![k] = @ + 1]
  /\ UNCHANGED <<listening, peer, backlog, owner, outq>>

PeerRead(k) ==
  /\ peer[k] = "open"
  /\ outq[k] > 0
  /\ outq' = [outq EXCEPT ![k] = @ - 1]
  /\ UNCHANGED <<listening, peer, backlog, owner, inq, sent>>

\* A peer that closes with replies unread resets the connection at once.
PeerClose(k) ==
  /\ k \in Quitters
  /\ peer[k] = "open"
  /\ peer' = [peer EXCEPT ![k] = IF outq[k] > 0 THEN "reset" ELSE "closed"]
  /\ outq' = [outq EXCEPT ![k] = 0]
  /\ UNCHANGED <<listening, backlog, owner, inq, sent>>

PeerStep(k) == PeerConnect(k) \/ PeerSend(k) \/ PeerRead(k) \/ PeerClose(k)
=============================================================================
