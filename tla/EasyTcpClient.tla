--------------------------- MODULE EasyTcpClient ---------------------------
(***************************************************************************)
(* EasyTcpClient (easy_tcp_client.hpp): client objects of one process,     *)
(* each used by one thread at a time, and the part of the process they     *)
(* share: the descriptor table and, on Windows, the count of WSAStartup    *)
(* calls.  In ClientSpec the application makes the calls in any order but  *)
(* does not use a client again that it has closed, unless CallsAgain: the  *)
(* destructor of a closed client, for one, calls close() again.            *)
(*                                                                         *)
(* The socket a client opens is named by the client.  What is received is  *)
(* left out: recv_data is in RecvBuffer, the traffic in Conversation.      *)
(***************************************************************************)
EXTENDS Integers, FiniteSets

CONSTANTS
  Clients,     \* the client objects
  Fds,         \* the descriptors the process may have open
  None,        \* no descriptor (INVALID_SOCKET), no client
  SendCap,     \* requests the buffers of a connection hold
  Windows,     \* the platform: Winsock, or POSIX with its SIGPIPE
  NetEnvHeld,  \* an EasyTcpServer of the process holds its static NetEnv
  CallsAgain,  \* clients are used again after their close()
  MaxWsa       \* bound: WSAStartup calls not undone

ASSUME EasyTcpClientAssumption ==
  /\ IsFiniteSet(Clients)
  /\ None \notin Clients \cup Fds
  /\ SendCap \in Nat \ {0}
  /\ {Windows, NetEnvHeld, CallsAgain} \subseteq BOOLEAN
  /\ MaxWsa \in Nat

VARIABLES
  sock,      \* sock[i]: _sock
  phase,     \* phase[i]: where the calls of client i stand
  owner,     \* owner[f]: the client whose socket descriptor f is, or None
  conn,      \* conn[i]: the state of i's socket
  unread,    \* unread[i]: requests i has sent and the server has not read
  wsa,       \* Windows: WSAStartup calls not undone by WSACleanup
  alive,     \* the process has not been killed by SIGPIPE
  closedBy,  \* history: the client whose call closed i's socket, or None
  noticed    \* history: on_run of i has returned false

clientVars == <<sock, phase, owner, conn, unread, wsa, alive, closedBy, noticed>>

(***************************************************************************)
(* phase: "idle" between calls; "startup", "socket", "connect": the places *)
(* in connect() before WSAStartup, socket and ::connect; "cleanup",        *)
(* "close": those in close(); "closed" after close() has returned.         *)
(* conn: "none" before socket(); "fresh" not connected; "up"; "eof": the   *)
(* server has closed; "reset": its reset has arrived; "gone": closed here. *)
(***************************************************************************)
ClientTypeOK ==
  /\ sock \in [Clients -> Fds \cup {None}]
  /\ phase \in [Clients -> {"idle", "startup", "socket", "connect",
                            "cleanup", "close", "closed"}]
  /\ owner \in [Fds -> Clients \cup {None}]
  /\ conn \in [Clients -> {"none", "fresh", "up", "eof", "reset", "gone"}]
  /\ unread \in [Clients -> 0..SendCap]
  /\ wsa \in Nat
  /\ alive \in BOOLEAN
  /\ closedBy \in [Clients -> Clients \cup {None}]
  /\ noticed \in [Clients -> BOOLEAN]

ClientInit ==
  /\ sock = [i \in Clients |-> None]
  /\ phase = [i \in Clients |-> "idle"]
  /\ owner = [f \in Fds |-> None]
  /\ conn = [i \in Clients |-> "none"]
  /\ unread = [i \in Clients |-> 0]
  /\ wsa = IF Windows /\ NetEnvHeld THEN 1 ELSE 0
  /\ alive = TRUE
  /\ closedBy = [i \in Clients |-> None]
  /\ noticed = [i \in Clients |-> FALSE]

\* Whose socket a system call on _sock of i reaches.
Wire(i) == IF sock[i] = None THEN None ELSE owner[sock[i]]

\* Client i goes on inside a call; a call begins.
At(i, from, to) ==
  /\ alive
  /\ phase[i] = from
  /\ phase' = [phase EXCEPT ![i] = to]

Begin(i, to) == \E from \in {"idle", "closed"} : At(i, from, to)

-----------------------------------------------------------------------------
(* connect(): init_socket unless there is a _sock already, then ::connect. *)

\* Mutant: connect() without its test for a _sock there is already.
ConnectAnew(i) ==
  /\ Begin(i, IF Windows THEN "startup" ELSE "socket")
  /\ UNCHANGED <<sock, owner, conn, unread, wsa, alive, closedBy, noticed>>

Connect(i) ==
  /\ Begin(i, IF sock[i] # None THEN "connect"
              ELSE IF Windows THEN "startup" ELSE "socket")
  /\ UNCHANGED <<sock, owner, conn, unread, wsa, alive, closedBy, noticed>>

\* Mutant: init_socket() without its WSAStartup.
WsaStartupForgotten(i) ==
  /\ At(i, "startup", "socket")
  /\ UNCHANGED <<sock, owner, conn, unread, wsa, alive, closedBy, noticed>>

WsaStartup(i) ==
  /\ At(i, "startup", "socket")
  /\ wsa < MaxWsa
  /\ wsa' = wsa + 1
  /\ UNCHANGED <<sock, owner, conn, unread, alive, closedBy, noticed>>

\* socket() gives some free descriptor; with none left it fails.
OpenSocket(i) ==
  /\ At(i, "socket", "connect")
  /\ IF \A f \in Fds : owner[f] # None
     THEN UNCHANGED <<sock, owner, conn>>
     ELSE \E f \in Fds :
            /\ owner[f] = None
            /\ sock' = [sock EXCEPT ![i] = f]
            /\ owner' = [owner EXCEPT ![f] = i]
            /\ conn' = [conn EXCEPT ![i] = "fresh"]
  /\ UNCHANGED <<unread, wsa, alive, closedBy, noticed>>

\* ::connect succeeds or fails; without a new socket it can only fail.
ConnectSucceeds(i) ==
  /\ At(i, "connect", "idle")
  /\ Wire(i) # None
  /\ conn[Wire(i)] = "fresh"
  /\ conn' = [conn EXCEPT ![Wire(i)] = "up"]
  /\ UNCHANGED <<sock, owner, unread, wsa, alive, closedBy, noticed>>

ConnectFails(i) ==
  /\ At(i, "connect", "idle")
  /\ UNCHANGED <<sock, owner, conn, unread, wsa, alive, closedBy, noticed>>

-----------------------------------------------------------------------------
(* close(), with close_socket(_sock): _sock keeps its value.               *)

\* Mutant: close() without its test for INVALID_SOCKET.
CloseUnguarded(i) ==
  /\ Begin(i, IF Windows THEN "cleanup" ELSE "close")
  /\ UNCHANGED <<sock, owner, conn, unread, wsa, alive, closedBy, noticed>>

Close(i) ==
  /\ Begin(i, IF sock[i] = None THEN "closed"
              ELSE IF Windows THEN "cleanup" ELSE "close")
  /\ UNCHANGED <<sock, owner, conn, unread, wsa, alive, closedBy, noticed>>

\* The call of client i ends the sockets of the clients in K.
Shut(i, K) ==
  /\ owner' = [f \in Fds |-> IF owner[f] \in K THEN None ELSE owner[f]]
  /\ conn' = [k \in Clients |-> IF k \in K THEN "gone" ELSE conn[k]]
  /\ unread' = [k \in Clients |-> IF k \in K THEN 0 ELSE unread[k]]
  /\ closedBy' = [k \in Clients |-> IF k \in K THEN i ELSE closedBy[k]]

\* The last WSACleanup ends every socket of the process.
WsaCleanup(i) ==
  /\ At(i, "cleanup", "close")
  /\ wsa' = IF wsa = 0 THEN 0 ELSE wsa - 1
  /\ Shut(i, IF wsa = 1 THEN {k \in Clients : \E f \in Fds : owner[f] = k} ELSE {})
  /\ UNCHANGED <<sock, alive, noticed>>

CloseSocket(i) ==
  /\ At(i, "close", "closed")
  /\ Shut(i, {Wire(i)} \ {None})
  /\ UNCHANGED <<sock, wsa, alive, noticed>>

-----------------------------------------------------------------------------
(* on_run() and send_data().                                               *)

\* Mutant: recv_data < 0 taken for success as well.
ResetIgnored(i) ==
  IF Wire(i) = None THEN {FALSE}
  ELSE IF conn[Wire(i)] = "fresh" THEN BOOLEAN
  ELSE {TRUE}

\* Mutant: a select() that times out taken for one that fails.
TimeoutFails(i) ==
  IF Wire(i) = None THEN {FALSE}
  ELSE IF conn[Wire(i)] = "reset" THEN {FALSE}
  ELSE IF conn[Wire(i)] \in {"fresh", "up"} THEN BOOLEAN
  ELSE {TRUE}

\* recv_data is < 0 on a reset, and 0 at the end of the stream, which passes
\* for success; select() fails on a descriptor that is not open.  What it says
\* of a socket that is not connected depends on the platform.
RunResults(i) ==
  IF Wire(i) = None THEN {FALSE}
  ELSE IF conn[Wire(i)] = "reset" THEN {FALSE}
  ELSE IF conn[Wire(i)] = "fresh" THEN BOOLEAN
  ELSE {TRUE}

OnRun(i) ==
  /\ Begin(i, phase[i])
  /\ \E ok \in RunResults(i) : noticed' = [noticed EXCEPT ![i] = @ \/ ~ok]
  /\ UNCHANGED <<sock, owner, conn, unread, wsa, alive, closedBy>>

\* send() waits for room.  On POSIX it raises SIGPIPE when a reset has arrived, and
\* may do so on a socket that is not connected.
SendData(i) ==
  /\ Begin(i, phase[i])
  /\ LET k == Wire(i) IN
     \/ /\ k # None /\ conn[k] \in {"up", "eof"} /\ unread[k] < SendCap
        /\ unread' = [unread EXCEPT ![k] = @ + 1]
        /\ UNCHANGED alive
     \/ /\ k # None /\ conn[k] = "reset"
        /\ alive' = Windows
        /\ UNCHANGED unread
     \/ /\ k # None /\ conn[k] = "fresh"
        /\ alive' \in {TRUE, Windows}
        /\ UNCHANGED unread
     \/ k = None /\ UNCHANGED <<unread, alive>>
  /\ UNCHANGED <<sock, owner, conn, wsa, closedBy, noticed>>

-----------------------------------------------------------------------------
(* The server (external).                                                  *)

ServerReads(i) ==
  /\ conn[i] = "up"
  /\ unread[i] > 0
  /\ unread' = [unread EXCEPT ![i] = @ - 1]
  /\ UNCHANGED <<sock, phase, owner, conn, wsa, alive, closedBy, noticed>>

\* A server that closes with requests unread resets the connection at once.
ServerCloses(i) ==
  /\ conn[i] = "up"
  /\ conn' = [conn EXCEPT ![i] = IF unread[i] > 0 THEN "reset" ELSE "eof"]
  /\ unread' = [unread EXCEPT ![i] = 0]
  /\ UNCHANGED <<sock, phase, owner, wsa, alive, closedBy, noticed>>

\* Data for a server that has closed are answered with a reset.
ResetArrives(i) ==
  /\ conn[i] = "eof"
  /\ unread[i] > 0
  /\ conn' = [conn EXCEPT ![i] = "reset"]
  /\ unread' = [unread EXCEPT ![i] = 0]
  /\ UNCHANGED <<sock, phase, owner, wsa, alive, closedBy, noticed>>

Server(i) == ServerReads(i) \/ ServerCloses(i) \/ ResetArrives(i)

-----------------------------------------------------------------------------
ClientStep(i) ==
  \/ Connect(i) \/ WsaStartup(i) \/ OpenSocket(i)
  \/ ConnectSucceeds(i) \/ ConnectFails(i)
  \/ Close(i) \/ WsaCleanup(i) \/ CloseSocket(i)
  \/ OnRun(i) \/ SendData(i)

ClientNext ==
  \E i \in Clients :
    \/ (phase[i] = "closed" => CallsAgain) /\ ClientStep(i)
    \/ Server(i)

ClientSpec == ClientInit /\ [][ClientNext]_clientVars

-----------------------------------------------------------------------------
(* Properties.                                                             *)

\* A connection is ended by its own client and by no other one, so that clients
\* of one process do not disturb each other (close, easy_tcp_client.hpp:42, and
\* close_socket, cell_net_utils.hpp:41).
ClosedByItself == \A k \in Clients : closedBy[k] \in {None, k}

\* A client that has not been closed still holds the socket it has opened: the
\* number in _sock is not yet, or no longer, another client's.
OwnSocket ==
  \A i \in Clients :
    phase[i] # "closed" /\ sock[i] # None => owner[sock[i]] = i

\* Every descriptor open for a client is the one in its _sock, and the client can
\* still close it: connect() called again, by a client that is connected or one
\* whose connect() failed, opens no second socket over the first, and close()
\* gives the descriptor back even if WSACleanup has ended the socket before it
\* (connect, easy_tcp_client.hpp:23, and close, easy_tcp_client.hpp:44).
NoLeakedSocket ==
  \A f \in Fds : owner[f] # None => sock[owner[f]] = f /\ phase[owner[f]] # "closed"
=============================================================================
