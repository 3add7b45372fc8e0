------------------------ MODULE EasyTcpClientProofs ------------------------
(***************************************************************************)
(* Clients of one process do not disturb each other, for any number of     *)
(* clients, descriptors and WSAStartup calls, provided that each client is *)
(* closed once and that, on Windows, the process holds a NetEnv.           *)
(***************************************************************************)
EXTENDS EasyTcpClient, FiniteSetTheorems, TLAPS

USE DEF clientVars

Proviso == (~Windows \/ NetEnvHeld) /\ ~CallsAgain

\* The clients whose WSAStartup has not been undone by their WSACleanup.
Started ==
  {i \in Clients : \/ phase[i] = "socket"
                   \/ sock[i] # None /\ phase[i] \notin {"close", "closed"}}

\* Where a call stands, and what the client has then.
Phases ==
  \A i \in Clients :
    /\ phase[i] \in {"startup", "socket"} => sock[i] = None
    /\ phase[i] \in {"cleanup", "close"} => sock[i] # None
    /\ ~Windows => phase[i] \notin {"startup", "cleanup"}

\* Besides the calls of the clients, there is the one of NetEnv.
Counted == Windows => wsa >= 1 + Cardinality(Started)

CInv ==
  /\ ClientTypeOK
  /\ Phases
  /\ Counted
  /\ OwnSocket
  /\ ClosedByItself

LEMMA StartedFinite ==
  IsFiniteSet(Started) /\ Cardinality(Started) \in Nat
<1>1. Started \in SUBSET Clients
  BY DEF Started
<1> QED BY <1>1, FS_Subset, FS_CardinalityType, EasyTcpClientAssumption

LEMMA ClientInitInv == Proviso /\ ClientInit => CInv
<1> SUFFICES ASSUME Proviso, ClientInit PROVE CInv
  OBVIOUS
<1>1. Started = {}
  BY DEF ClientInit, Started
<1>2. Counted
  BY <1>1, FS_EmptySet DEF ClientInit, Counted, Proviso
<1>3. ClientTypeOK
  BY EasyTcpClientAssumption DEF ClientInit, ClientTypeOK
<1>4. Phases /\ OwnSocket /\ ClosedByItself
  BY DEF ClientInit, Phases, OwnSocket, ClosedByItself
<1> QED BY <1>2, <1>3, <1>4 DEF CInv

-----------------------------------------------------------------------------
(* The steps of connect().                                                 *)

LEMMA ConnectInv ==
  ASSUME CInv, NEW i \in Clients, phase[i] # "closed", Connect(i)
  PROVE  CInv'
<1>1. Counted'
  <2>1. CASE Windows
    <3>1. phase[i] = "idle" /\ UNCHANGED <<sock, wsa>>
      BY DEF Connect, Begin, At
    <3>2. /\ phase' = [phase EXCEPT ![i] = phase'[i]]
          /\ phase'[i] \in {"connect", "startup"}
          /\ (phase'[i] = "connect" <=> sock[i] # None)
      BY <2>1 DEF Connect, Begin, At, CInv, ClientTypeOK
    <3>3. Started' = Started
      <4> SUFFICES ASSUME NEW j \in Clients
                   PROVE  \/ phase'[j] = phase[j]
                          \/ /\ phase[j] = "idle"
                             /\ phase'[j] = IF sock[j] # None THEN "connect" ELSE "startup"
        BY <3>1 DEF Started
      <4>1. phase'[i] = IF sock[i] # None THEN "connect" ELSE "startup"
        BY <3>2
      <4> QED BY <3>1, <3>2, <4>1 DEF CInv, ClientTypeOK
    <3> QED BY <3>1, <3>3 DEF CInv, Counted
  <2>2. CASE ~Windows
    BY <2>2 DEF Counted
  <2> QED BY <2>1, <2>2
<1> QED BY <1>1, EasyTcpClientAssumption
        DEF Connect, Begin, At, CInv, ClientTypeOK, Phases, OwnSocket, ClosedByItself

LEMMA WsaStartupInv ==
  ASSUME CInv, NEW i \in Clients, WsaStartup(i)
  PROVE  CInv'
<1>1. Started' = Started \cup {i}
  BY DEF WsaStartup, At, Started, CInv, ClientTypeOK
<1>2. i \notin Started
  BY DEF WsaStartup, At, Started, CInv, Phases
<1>3. Cardinality(Started') = Cardinality(Started) + 1
  BY <1>1, <1>2, StartedFinite, FS_AddElement
<1>4. Counted'
  BY <1>3, StartedFinite DEF WsaStartup, CInv, Counted, ClientTypeOK
<1> QED BY <1>4
        DEF WsaStartup, At, CInv, ClientTypeOK, Phases, OwnSocket, ClosedByItself

\* A descriptor is free only when every client that has held it is closed.
LEMMA OpenSocketInv ==
  ASSUME CInv, NEW i \in Clients, OpenSocket(i)
  PROVE  CInv'
<1>a. phase[i] = "socket" /\ sock[i] = None
  BY DEF OpenSocket, At, CInv, Phases
<1>1. CASE \A f \in Fds : owner[f] # None
  <2>1. UNCHANGED <<sock, owner, conn>>
    BY <1>1 DEF OpenSocket
  <2>2. Started' = Started \ {i}
    <3>1. phase' = [phase EXCEPT ![i] = "connect"]
      BY DEF OpenSocket, At
    <3>2. phase \in [Clients -> {"idle", "startup", "socket", "connect",
                                "cleanup", "close", "closed"}]
      BY DEF CInv, ClientTypeOK
    <3> QED BY <1>a, <2>1, <3>1, <3>2 DEF Started
  <2>3. Cardinality(Started') <= Cardinality(Started) /\ Cardinality(Started') \in Nat
    <3>1. Started \ {i} \in SUBSET Started
      OBVIOUS
    <3>2. IsFiniteSet(Started \ {i}) /\ Cardinality(Started \ {i}) <= Cardinality(Started)
      BY <3>1, StartedFinite, FS_Subset
    <3> QED BY <2>2, <3>2, FS_CardinalityType
  <2>4. Counted'
    BY <2>3, StartedFinite DEF OpenSocket, CInv, Counted, ClientTypeOK
  <2> QED BY <2>1, <2>4
          DEF OpenSocket, At, CInv, ClientTypeOK, Phases, OwnSocket, ClosedByItself
<1>2. CASE ~ \A f \in Fds : owner[f] # None
  <2>1. PICK f \in Fds : /\ owner[f] = None
                         /\ sock' = [sock EXCEPT ![i] = f]
                         /\ owner' = [owner EXCEPT ![f] = i]
                         /\ conn' = [conn EXCEPT ![i] = "fresh"]
    BY <1>2 DEF OpenSocket
  <2>2. Started' = Started
    BY <1>a, <2>1, EasyTcpClientAssumption
       DEF OpenSocket, At, Started, CInv, ClientTypeOK
  <2>3. Counted'
    BY <2>2 DEF OpenSocket, CInv, Counted
  <2>4. OwnSocket'
    <3> SUFFICES ASSUME NEW j \in Clients, (phase[j] # "closed" /\ sock[j] # None)'
                 PROVE  owner'[sock'[j]] = j
      BY DEF OwnSocket
    <3>1. CASE j = i
      BY <2>1, <3>1 DEF CInv, ClientTypeOK
    <3>2. CASE j # i
      <4>1. sock'[j] = sock[j] /\ phase'[j] = phase[j] /\ sock[j] \in Fds
        BY <2>1, <3>2 DEF OpenSocket, At, CInv, ClientTypeOK
      <4>2. owner[sock[j]] = j
        BY <4>1 DEF CInv, OwnSocket
      <4>3. sock[j] # f
        BY <2>1, <4>2, EasyTcpClientAssumption
      <4> QED BY <2>1, <4>1, <4>2, <4>3 DEF CInv, ClientTypeOK
    <3> QED BY <3>1, <3>2
  <2>5. ClientTypeOK'
    BY <2>1 DEF OpenSocket, At, CInv, ClientTypeOK
  <2>6. Phases'
    BY <2>1, EasyTcpClientAssumption DEF OpenSocket, At, CInv, ClientTypeOK, Phases
  <2>7. ClosedByItself'
    BY DEF OpenSocket, CInv, ClosedByItself
  <2> QED BY <2>3, <2>4, <2>5, <2>6, <2>7 DEF CInv
<1> QED BY <1>1, <1>2

\* Steps that leave descriptors and the WSAStartup count alone.
LEMMA QuietInv ==
  ASSUME CInv, ClientTypeOK', UNCHANGED <<sock, owner, wsa, closedBy>>,
         \/ UNCHANGED phase
         \/ \E i \in Clients : At(i, "connect", "idle")
  PROVE  CInv'
<1>1. Started' = Started
  BY DEF At, Started, CInv, ClientTypeOK
<1> QED BY <1>1 DEF At, CInv, ClientTypeOK, Phases, Counted, OwnSocket, ClosedByItself

-----------------------------------------------------------------------------
(* The steps of close().                                                   *)

LEMMA CloseInv ==
  ASSUME CInv, NEW i \in Clients, phase[i] # "closed", Close(i)
  PROVE  CInv'
<1>1. At(i, "idle", IF sock[i] = None THEN "closed"
                    ELSE IF Windows THEN "cleanup" ELSE "close")
  BY DEF Close, Begin, At
<1>2. UNCHANGED <<sock, owner, conn, unread, wsa, alive, closedBy, noticed>>
  BY DEF Close
<1>3. Counted'
  <2>1. CASE Windows
    <3>1. Started' = Started
      BY <1>1, <1>2, <2>1 DEF At, Started, CInv, ClientTypeOK
    <3> QED BY <1>2, <3>1 DEF CInv, Counted
  <2>2. CASE ~Windows
    BY <2>2 DEF Counted
  <2> QED BY <2>1, <2>2
<1> QED BY <1>1, <1>2, <1>3, EasyTcpClientAssumption
        DEF At, CInv, ClientTypeOK, Phases, OwnSocket, ClosedByItself

\* While NetEnv is held, no client's WSACleanup is the last one.
LEMMA WsaCleanupInv ==
  ASSUME Proviso, CInv, NEW i \in Clients, WsaCleanup(i)
  PROVE  CInv'
<1>a. Windows /\ sock[i] # None /\ phase[i] = "cleanup"
  BY EasyTcpClientAssumption DEF WsaCleanup, At, CInv, Phases
<1>1. i \in Started
  BY <1>a DEF Started
<1>2. Started' = Started \ {i}
  BY <1>a DEF WsaCleanup, At, Started, CInv, ClientTypeOK
<1>3. Cardinality(Started') = Cardinality(Started) - 1
  BY <1>1, <1>2, StartedFinite, FS_RemoveElement
<1>4. Cardinality(Started) >= 1
  <2>1. Cardinality(Started) # 0
    BY <1>1, StartedFinite, FS_EmptySet
  <2> QED BY <2>1, StartedFinite
<1>5. wsa \in Nat /\ wsa >= 2 /\ wsa' = wsa - 1
  BY <1>a, <1>4, StartedFinite DEF WsaCleanup, CInv, Counted, ClientTypeOK
<1>6. Counted'
  BY <1>a, <1>3, <1>5, StartedFinite DEF CInv, Counted
<1>7. UNCHANGED <<owner, conn, unread, closedBy>>
  <2>1. Shut(i, {})
    BY <1>5 DEF WsaCleanup
  <2> QED BY <2>1 DEF Shut, CInv, ClientTypeOK
<1> QED BY <1>a, <1>5, <1>6, <1>7, EasyTcpClientAssumption
        DEF WsaCleanup, At, CInv, ClientTypeOK, Phases, OwnSocket, ClosedByItself

LEMMA CloseSocketInv ==
  ASSUME CInv, NEW i \in Clients, CloseSocket(i)
  PROVE  CInv'
<1>a. sock[i] # None /\ phase[i] = "close" /\ phase' = [phase EXCEPT ![i] = "closed"]
  BY DEF CloseSocket, At, CInv, Phases
<1>1. Wire(i) = i
  BY <1>a DEF CInv, OwnSocket, Wire
<1>2. Shut(i, {i})
  <2>1. {Wire(i)} \ {None} = {i}
    BY <1>1, EasyTcpClientAssumption
  <2> QED BY <2>1 DEF CloseSocket
<1>3. UNCHANGED <<sock, wsa, alive, noticed>>
  BY DEF CloseSocket
<1>4. Started' = Started
  BY <1>a, <1>3 DEF Started, CInv, ClientTypeOK
<1>5. Counted'
  BY <1>3, <1>4 DEF CInv, Counted
<1>6. OwnSocket'
  <2> SUFFICES ASSUME NEW j \in Clients, (phase[j] # "closed" /\ sock[j] # None)'
               PROVE  owner'[sock'[j]] = j
    BY DEF OwnSocket
  <2>1. j # i /\ phase'[j] = phase[j] /\ sock'[j] = sock[j] /\ sock[j] \in Fds
    BY <1>a, <1>3 DEF CInv, ClientTypeOK
  <2>2. owner[sock[j]] = j
    BY <2>1 DEF CInv, OwnSocket
  <2> QED BY <1>2, <2>1, <2>2 DEF Shut
<1>7. ClosedByItself'
  BY <1>2 DEF Shut, CInv, ClosedByItself
<1>8. ClientTypeOK'
  BY <1>a, <1>2, <1>3, EasyTcpClientAssumption DEF Shut, CInv, ClientTypeOK
<1>9. Phases'
  BY <1>a, <1>3 DEF CInv, ClientTypeOK, Phases
<1> QED BY <1>5, <1>6, <1>7, <1>8, <1>9 DEF CInv

-----------------------------------------------------------------------------
LEMMA OtherStepsInv ==
  ASSUME CInv, NEW i \in Clients,
         \/ ConnectSucceeds(i) \/ ConnectFails(i) \/ OnRun(i) \/ SendData(i)
         \/ ServerReads(i) \/ ServerCloses(i) \/ ResetArrives(i)
  PROVE  CInv'
<1> USE EasyTcpClientAssumption
<1>1. CASE ConnectSucceeds(i)
  <2>1. ClientTypeOK'
    BY <1>1 DEF ConnectSucceeds, At, CInv, ClientTypeOK
  <2> QED BY <1>1, <2>1, QuietInv DEF ConnectSucceeds
<1>2. CASE ConnectFails(i)
  <2>1. ClientTypeOK'
    BY <1>2 DEF ConnectFails, At, CInv, ClientTypeOK
  <2> QED BY <1>2, <2>1, QuietInv DEF ConnectFails
<1>3. CASE OnRun(i)
  <2>1. UNCHANGED phase /\ noticed' \in [Clients -> BOOLEAN]
    BY <1>3 DEF OnRun, Begin, At, CInv, ClientTypeOK
  <2>2. ClientTypeOK'
    BY <1>3, <2>1 DEF OnRun, CInv, ClientTypeOK
  <2> QED BY <1>3, <2>1, <2>2, QuietInv DEF OnRun
<1>4. CASE SendData(i)
  <2>1. UNCHANGED phase
    BY <1>4 DEF SendData, Begin, At, CInv, ClientTypeOK
  <2>2. alive' \in BOOLEAN
    <3>1. alive \in BOOLEAN /\ {TRUE, Windows} \subseteq BOOLEAN
      BY DEF CInv, ClientTypeOK
    <3>2. alive' = alive \/ alive' \in {TRUE, Windows}
      BY <1>4 DEF SendData
    <3> QED BY <3>1, <3>2
  <2>3. unread' \in [Clients -> 0..SendCap]
    <3>1. unread \in [Clients -> 0..SendCap] /\ SendCap \in Nat
      BY DEF CInv, ClientTypeOK
    <3>2. \/ UNCHANGED unread
          \/ unread[Wire(i)] < SendCap /\ unread' = [unread EXCEPT ![Wire(i)] = @ + 1]
      BY <1>4 DEF SendData
    <3>3. Wire(i) \in Clients \cup {None}
      BY DEF Wire, CInv, ClientTypeOK
    <3>4. \A k \in Clients : unread[k] < SendCap => unread[k] + 1 \in 0..SendCap
      BY <3>1
    <3>5. [unread EXCEPT ![None] = unread[None] + 1] = unread
      BY <3>1
    <3> QED BY <3>1, <3>2, <3>3, <3>4, <3>5
  <2>4. ClientTypeOK'
    BY <1>4, <2>1, <2>2, <2>3 DEF SendData, CInv, ClientTypeOK
  <2> QED BY <1>4, <2>1, <2>4, QuietInv DEF SendData
<1>5. CASE ServerReads(i)
  <2>1. ClientTypeOK'
    BY <1>5 DEF ServerReads, CInv, ClientTypeOK
  <2> QED BY <1>5, <2>1, QuietInv DEF ServerReads
<1>6. CASE ServerCloses(i)
  <2>1. ClientTypeOK'
    BY <1>6 DEF ServerCloses, CInv, ClientTypeOK
  <2> QED BY <1>6, <2>1, QuietInv DEF ServerCloses
<1>7. CASE ResetArrives(i)
  <2>1. ClientTypeOK'
    BY <1>7 DEF ResetArrives, CInv, ClientTypeOK
  <2> QED BY <1>7, <2>1, QuietInv DEF ResetArrives
<1> QED BY <1>1, <1>2, <1>3, <1>4, <1>5, <1>6, <1>7

LEMMA ClientNextInv == Proviso /\ CInv /\ [ClientNext]_clientVars => CInv'
<1> SUFFICES ASSUME Proviso, CInv, [ClientNext]_clientVars PROVE CInv'
  OBVIOUS
<1>1. CASE UNCHANGED clientVars
  BY <1>1 DEF CInv, ClientTypeOK, Phases, Counted, Started, OwnSocket, ClosedByItself
<1>2. ASSUME NEW i \in Clients, phase[i] # "closed", ClientStep(i) PROVE CInv'
  BY <1>2, ConnectInv, WsaStartupInv, OpenSocketInv, CloseInv, WsaCleanupInv,
     CloseSocketInv, OtherStepsInv DEF ClientStep
<1>3. ASSUME NEW i \in Clients, Server(i) PROVE CInv'
  BY <1>3, OtherStepsInv DEF Server
<1> QED BY <1>1, <1>2, <1>3 DEF ClientNext, Proviso

THEOREM ClientInvariance == Proviso => (ClientSpec => []CInv)
<1> SUFFICES ASSUME Proviso PROVE ClientSpec => []CInv
  OBVIOUS
<1>1. ClientInit => CInv
  BY ClientInitInv
<1>2. CInv /\ [ClientNext]_clientVars => CInv'
  BY ClientNextInv
<1> QED BY <1>1, <1>2, PTL DEF ClientSpec

\* No client ends another one's connection: neither by a number that has been
\* given anew, nor by the last WSACleanup.
THEOREM ClosedByItselfHolds == Proviso => (ClientSpec => []ClosedByItself)
<1> SUFFICES ASSUME Proviso PROVE ClientSpec => []ClosedByItself
  OBVIOUS
<1>1. CInv => ClosedByItself
  BY DEF CInv
<1> QED BY ClientInvariance, <1>1, PTL

\* The number in the _sock of a client that is not closed is its own.
THEOREM OwnSocketHolds == Proviso => (ClientSpec => []OwnSocket)
<1> SUFFICES ASSUME Proviso PROVE ClientSpec => []OwnSocket
  OBVIOUS
<1>1. CInv => OwnSocket
  BY DEF CInv
<1> QED BY ClientInvariance, <1>1, PTL

-----------------------------------------------------------------------------
(* The descriptor table and _sock, whatever calls are made, on any platform. *)

Open == {"fresh", "up", "eof", "reset"}

\* An open socket is in the descriptor table under the number in _sock, and the
\* other way round; _sock is set once and for ever when the socket is opened.
Held ==
  /\ \A i \in Clients :
       /\ conn[i] \in Open => sock[i] # None /\ owner[sock[i]] = i /\ phase[i] # "closed"
       /\ sock[i] # None <=> conn[i] # "none"
  /\ \A f \in Fds : owner[f] # None => sock[owner[f]] = f /\ conn[owner[f]] \in Open

HInv == ClientTypeOK /\ Phases /\ Held

LEMMA HeldInit == ClientInit => HInv
BY EasyTcpClientAssumption DEF ClientInit, HInv, ClientTypeOK, Phases, Held, Open

\* Steps that open or end no socket.
LEMMA HeldQuiet ==
  ASSUME HInv, ClientTypeOK', Phases', UNCHANGED <<sock, owner>>,
         \A i \in Clients :
           /\ conn'[i] \in Open <=> conn[i] \in Open
           /\ conn'[i] = "none" <=> conn[i] = "none"
           /\ conn[i] \in Open /\ phase[i] # "closed" => phase'[i] # "closed"
  PROVE  HInv'
<1>1. \A f \in Fds : owner[f] # None => owner[f] \in Clients
  BY DEF HInv, ClientTypeOK
<1> QED BY <1>1 DEF HInv, Held

\* Whichever sockets a call ends, they leave the table too.
LEMMA HeldShut ==
  ASSUME HInv, NEW i \in Clients, NEW K \in SUBSET Clients, Shut(i, K), UNCHANGED sock,
         ClientTypeOK', Phases',
         \A k \in K : conn[k] \in Open,
         \A j \in Clients \ K : conn[j] \in Open /\ phase[j] # "closed" => phase'[j] # "closed"
  PROVE  HInv'
<1> USE EasyTcpClientAssumption
<1>1. \A j \in Clients : conn'[j] = IF j \in K THEN "gone" ELSE conn[j]
  BY DEF Shut
<1>2. \A f \in Fds : owner'[f] = IF owner[f] \in K THEN None ELSE owner[f]
  BY DEF Shut
<1>3. ASSUME NEW j \in Clients
      PROVE  /\ conn'[j] \in Open => sock'[j] # None /\ owner'[sock'[j]] = j /\ phase'[j] # "closed"
             /\ sock'[j] # None <=> conn'[j] # "none"
  BY <1>1, <1>2 DEF HInv, Held, Open, ClientTypeOK
<1>4. ASSUME NEW f \in Fds, owner'[f] # None
      PROVE  sock'[owner'[f]] = f /\ conn'[owner'[f]] \in Open
  <2>1. owner'[f] = owner[f] /\ owner[f] \notin K /\ owner[f] \in Clients
    BY <1>2, <1>4 DEF HInv, ClientTypeOK
  <2>2. conn'[owner[f]] = conn[owner[f]]
    BY <1>1, <2>1
  <2> QED BY <1>4, <2>1, <2>2 DEF HInv, Held, Open
<1> QED BY <1>3, <1>4 DEF HInv, Held

LEMMA HeldConnect ==
  ASSUME HInv, NEW i \in Clients,
         Connect(i) \/ WsaStartup(i) \/ ConnectFails(i) \/ ConnectSucceeds(i)
  PROVE  HInv'
<1> USE EasyTcpClientAssumption
<1>1. CASE Connect(i)
  <2>1. ClientTypeOK' /\ Phases'
    BY <1>1 DEF Connect, Begin, At, HInv, ClientTypeOK, Phases
  <2>2. \A j \in Clients : phase[j] # "closed" => phase'[j] # "closed"
    BY <1>1 DEF Connect, Begin, At, HInv, ClientTypeOK
  <2> QED BY <1>1, <2>1, <2>2, HeldQuiet DEF Connect, Open
<1>2. CASE WsaStartup(i) \/ ConnectFails(i)
  <2>1. ClientTypeOK' /\ Phases'
    BY <1>2 DEF WsaStartup, ConnectFails, At, HInv, ClientTypeOK, Phases
  <2>2. \A j \in Clients : phase[j] # "closed" => phase'[j] # "closed"
    BY <1>2 DEF WsaStartup, ConnectFails, At, HInv, ClientTypeOK
  <2> QED BY <1>2, <2>1, <2>2, HeldQuiet DEF WsaStartup, ConnectFails, Open
<1>3. CASE ConnectSucceeds(i)
  <2>1. ClientTypeOK' /\ Phases'
    BY <1>3 DEF ConnectSucceeds, At, HInv, ClientTypeOK, Phases
  <2>2. \A j \in Clients : phase[j] # "closed" => phase'[j] # "closed"
    BY <1>3 DEF ConnectSucceeds, At, HInv, ClientTypeOK
  <2>3. \A j \in Clients : conn'[j] = conn[j] \/ (conn[j] = "fresh" /\ conn'[j] = "up")
    BY <1>3 DEF ConnectSucceeds, HInv, ClientTypeOK
  <2> QED BY <1>3, <2>1, <2>2, <2>3, HeldQuiet DEF ConnectSucceeds, Open
<1> QED BY <1>1, <1>2, <1>3

LEMMA HeldOpenSocket ==
  ASSUME HInv, NEW i \in Clients, OpenSocket(i)
  PROVE  HInv'
<1> USE EasyTcpClientAssumption
<1>a. phase[i] = "socket" /\ sock[i] = None /\ phase' = [phase EXCEPT ![i] = "connect"]
  BY DEF OpenSocket, At, HInv, Phases
<1>1. CASE \A f \in Fds : owner[f] # None
  <2>1. UNCHANGED <<sock, owner, conn>>
    BY <1>1 DEF OpenSocket
  <2>2. ClientTypeOK' /\ Phases'
    BY <1>a, <2>1 DEF OpenSocket, HInv, ClientTypeOK, Phases
  <2>3. \A j \in Clients : phase[j] # "closed" => phase'[j] # "closed"
    BY <1>a DEF HInv, ClientTypeOK
  <2> QED BY <2>1, <2>2, <2>3, HeldQuiet DEF Open
<1>2. CASE ~ \A f \in Fds : owner[f] # None
  <2>1. PICK f \in Fds : /\ owner[f] = None
                         /\ sock' = [sock EXCEPT ![i] = f]
                         /\ owner' = [owner EXCEPT ![f] = i]
                         /\ conn' = [conn EXCEPT ![i] = "fresh"]
    BY <1>2 DEF OpenSocket
  <2>2. ClientTypeOK'
    BY <1>a, <2>1 DEF OpenSocket, HInv, ClientTypeOK
  <2>3. Phases'
    BY <1>a, <2>1 DEF HInv, ClientTypeOK, Phases
  <2>4. /\ sock'[i] = f /\ owner'[f] = i /\ conn'[i] = "fresh" /\ phase'[i] = "connect"
        /\ f # None /\ i # None
        /\ \A j \in Clients \ {i} :
             sock'[j] = sock[j] /\ conn'[j] = conn[j] /\ phase'[j] = phase[j]
        /\ \A g \in Fds \ {f} : owner'[g] = owner[g]
    BY <1>a, <2>1 DEF HInv, ClientTypeOK
  <2>5. ASSUME NEW j \in Clients
        PROVE  /\ conn'[j] \in Open => sock'[j] # None /\ owner'[sock'[j]] = j /\ phase'[j] # "closed"
               /\ sock'[j] # None <=> conn'[j] # "none"
    <3>1. CASE j = i
      BY <2>4, <3>1
    <3>2. CASE j # i
      <4>1. sock'[j] = sock[j] /\ conn'[j] = conn[j] /\ phase'[j] = phase[j]
        BY <2>4, <3>2
      <4>2. conn[j] \in Open => owner[sock[j]] = j /\ sock[j] \in Fds \ {f}
        BY <2>1 DEF HInv, Held, ClientTypeOK
      <4> QED BY <2>4, <4>1, <4>2 DEF HInv, Held, Open
    <3> QED BY <3>1, <3>2
  <2>6. ASSUME NEW g \in Fds, owner'[g] # None
        PROVE  sock'[owner'[g]] = g /\ conn'[owner'[g]] \in Open
    <3>1. CASE g = f
      BY <2>4, <3>1 DEF Open
    <3>2. CASE g # f
      <4>1. owner'[g] = owner[g] /\ owner[g] \in Clients
        BY <2>4, <2>6, <3>2 DEF HInv, ClientTypeOK
      <4>2. sock[owner[g]] = g /\ conn[owner[g]] \in Open
        BY <2>6, <4>1 DEF HInv, Held
      <4>3. owner[g] # i
        BY <1>a, <4>2
      <4> QED BY <2>4, <4>1, <4>2, <4>3 DEF Open
    <3> QED BY <3>1, <3>2
  <2> QED BY <2>2, <2>3, <2>5, <2>6 DEF HInv, Held
<1> QED BY <1>1, <1>2

\* A close() that has no _sock ends nothing, and one that has still reaches it if
\* the socket is open.
LEMMA HeldClose ==
  ASSUME HInv, NEW i \in Clients, Close(i) \/ WsaCleanup(i) \/ CloseSocket(i)
  PROVE  HInv'
<1> USE EasyTcpClientAssumption
<1>1. CASE Close(i)
  <2>1. ClientTypeOK' /\ Phases'
    BY <1>1 DEF Close, Begin, At, HInv, ClientTypeOK, Phases
  <2>2. ASSUME NEW j \in Clients, conn[j] \in Open, phase[j] # "closed" PROVE phase'[j] # "closed"
    BY <1>1, <2>2 DEF Close, Begin, At, HInv, ClientTypeOK, Held
  <2> QED BY <1>1, <2>1, <2>2, HeldQuiet DEF Close, Open
<1>2. CASE WsaCleanup(i)
  <2> DEFINE K == IF wsa = 1 THEN {k \in Clients : \E f \in Fds : owner[f] = k} ELSE {}
  <2>1. Shut(i, K) /\ UNCHANGED <<sock, alive, noticed>> /\ K \in SUBSET Clients
    BY <1>2 DEF WsaCleanup
  <2>2. \A k \in K : conn[k] \in Open
    BY DEF HInv, Held
  <2>3. phase[i] = "cleanup" /\ phase' = [phase EXCEPT ![i] = "close"]
    BY <1>2 DEF WsaCleanup, At
  <2>4. wsa' \in Nat
    BY <1>2 DEF WsaCleanup, HInv, ClientTypeOK
  <2> HIDE DEF K
  <2>5. ClientTypeOK'
    <3>1. 0 \in 0..SendCap
      OBVIOUS
    <3> QED BY <2>1, <2>3, <2>4, <3>1 DEF Shut, HInv, ClientTypeOK
  <2>6. Phases'
    BY <2>1, <2>3 DEF HInv, ClientTypeOK, Phases
  <2>7. \A j \in Clients : phase[j] # "closed" => phase'[j] # "closed"
    BY <2>3 DEF HInv, ClientTypeOK
  <2> QED BY <2>1, <2>2, <2>5, <2>6, <2>7, HeldShut
<1>3. CASE CloseSocket(i)
  <2> DEFINE K == {Wire(i)} \ {None}
  <2>1. sock[i] # None /\ phase[i] = "close" /\ phase' = [phase EXCEPT ![i] = "closed"]
    BY <1>3 DEF CloseSocket, At, HInv, Phases
  <2>2. Shut(i, K) /\ UNCHANGED <<sock, wsa, alive, noticed>>
    BY <1>3 DEF CloseSocket
  <2>3. K \in SUBSET Clients /\ \A k \in K : conn[k] \in Open
    BY <2>1 DEF Wire, HInv, ClientTypeOK, Held
  <2>4. conn[i] \in Open => i \in K
    BY <2>1 DEF Wire, HInv, Held
  <2> HIDE DEF K
  <2>5. ClientTypeOK'
    BY <2>1, <2>2, <2>3 DEF Shut, HInv, ClientTypeOK
  <2>6. Phases'
    BY <2>1, <2>2 DEF HInv, ClientTypeOK, Phases
  <2>7. \A j \in Clients \ K : conn[j] \in Open /\ phase[j] # "closed" => phase'[j] # "closed"
    BY <2>1, <2>4 DEF HInv, ClientTypeOK
  <2> QED BY <2>2, <2>3, <2>5, <2>6, <2>7, HeldShut
<1> QED BY <1>1, <1>2, <1>3

LEMMA HeldTraffic ==
  ASSUME HInv, NEW i \in Clients, OnRun(i) \/ SendData(i) \/ Server(i)
  PROVE  HInv'
<1> USE EasyTcpClientAssumption
<1>1. UNCHANGED <<sock, phase, owner, wsa, closedBy>>
  BY DEF OnRun, SendData, Begin, At, Server, ServerReads, ServerCloses, ResetArrives,
     HInv, ClientTypeOK
<1>2. noticed' \in [Clients -> BOOLEAN]
  BY DEF OnRun, SendData, Server, ServerReads, ServerCloses, ResetArrives, HInv, ClientTypeOK
<1>3. alive' \in BOOLEAN
  <2>1. alive' = alive \/ alive' \in {TRUE, Windows}
    BY DEF OnRun, SendData, Server, ServerReads, ServerCloses, ResetArrives
  <2> QED BY <2>1 DEF HInv, ClientTypeOK
<1>4. unread' \in [Clients -> 0..SendCap]
  <2>1. unread \in [Clients -> 0..SendCap] /\ SendCap \in Nat
    BY DEF HInv, ClientTypeOK
  <2>2. \/ UNCHANGED unread
        \/ \E k : unread[k] < SendCap /\ unread' = [unread EXCEPT ![k] = @ + 1]
        \/ unread[i] > 0 /\ unread' = [unread EXCEPT ![i] = @ - 1]
        \/ unread' = [unread EXCEPT ![i] = 0]
    BY DEF OnRun, SendData, Server, ServerReads, ServerCloses, ResetArrives
  <2>3. CASE \E k : unread[k] < SendCap /\ unread' = [unread EXCEPT ![k] = @ + 1]
    <3>1. PICK k : unread[k] < SendCap /\ unread' = [unread EXCEPT ![k] = @ + 1]
      BY <2>3
    <3>2. CASE k \in Clients
      BY <2>1, <3>1, <3>2
    <3>3. CASE k \notin Clients
      BY <2>1, <3>1, <3>3
    <3> QED BY <3>2, <3>3
  <2> QED BY <2>1, <2>2, <2>3
<1>5. /\ conn' \in [Clients -> {"none", "fresh", "up", "eof", "reset", "gone"}]
      /\ \A j \in Clients : conn'[j] = conn[j] \/ (conn[j] \in {"up", "eof"} /\ conn'[j] \in {"eof", "reset"})
  BY DEF OnRun, SendData, Server, ServerReads, ServerCloses, ResetArrives, HInv, ClientTypeOK
<1>6. ClientTypeOK'
  BY <1>1, <1>2, <1>3, <1>4, <1>5 DEF HInv, ClientTypeOK
<1>7. Phases'
  BY <1>1 DEF HInv, Phases
<1> QED BY <1>1, <1>5, <1>6, <1>7, HeldQuiet DEF Open

LEMMA HeldNext == HInv /\ [ClientNext]_clientVars => HInv'
<1> SUFFICES ASSUME HInv, [ClientNext]_clientVars PROVE HInv'
  OBVIOUS
<1>1. CASE UNCHANGED clientVars
  BY <1>1 DEF HInv, ClientTypeOK, Phases, Held, Open
<1>2. ASSUME NEW i \in Clients, ClientStep(i) PROVE HInv'
  BY <1>2, HeldConnect, HeldOpenSocket, HeldClose, HeldTraffic DEF ClientStep
<1>3. ASSUME NEW i \in Clients, Server(i) PROVE HInv'
  BY <1>3, HeldTraffic
<1> QED BY <1>1, <1>2, <1>3 DEF ClientNext

\* The table and the clients agree, on every platform and in any order of calls.
THEOREM HeldInvariance == ClientSpec => []HInv
BY HeldInit, HeldNext, PTL DEF ClientSpec

\* No descriptor is lost: neither by connect() called again nor by close() of a
\* client whose socket has been ended, or its number given to another one, before.
THEOREM NoLeakedSocketHolds == ClientSpec => []NoLeakedSocket
<1>1. HInv => NoLeakedSocket
  BY DEF HInv, ClientTypeOK, Held, NoLeakedSocket
<1> QED BY <1>1, HeldInvariance, PTL

-----------------------------------------------------------------------------
\* A connection that has been made is not unmade, and one that is lost stays lost.
LEMMA ConnGoesOn ==
  ASSUME HInv, [ClientNext]_clientVars, NEW k \in Clients
  PROVE  /\ conn[k] \notin {"none", "fresh"} => conn'[k] \notin {"none", "fresh"}
         /\ conn[k] \in {"reset", "gone"} => conn'[k] \in {"reset", "gone"}
<1>1. CASE UNCHANGED clientVars
  BY <1>1
<1>2. ASSUME NEW i \in Clients, OpenSocket(i)
      PROVE  conn'[k] = conn[k] \/ conn[k] = "none"
  <2>1. conn[i] = "none"
    BY <1>2 DEF OpenSocket, At, HInv, Phases, Held
  <2>2. UNCHANGED conn \/ conn' = [conn EXCEPT ![i] = "fresh"]
    BY <1>2 DEF OpenSocket
  <2> QED BY <2>1, <2>2 DEF HInv, ClientTypeOK
<1>3. ASSUME NEW i \in Clients, WsaCleanup(i) \/ CloseSocket(i)
      PROVE  conn'[k] \in {conn[k], "gone"}
  BY <1>3 DEF WsaCleanup, CloseSocket, Shut
<1>4. ASSUME NEW i \in Clients, ConnectSucceeds(i)
      PROVE  conn'[k] = conn[k] \/ (conn[k] = "fresh" /\ conn'[k] = "up")
  BY <1>4 DEF ConnectSucceeds, HInv, ClientTypeOK
<1>5. ASSUME NEW i \in Clients, \/ Connect(i) \/ WsaStartup(i) \/ ConnectFails(i)
                                \/ Close(i) \/ OnRun(i) \/ SendData(i)
      PROVE  UNCHANGED conn
  BY <1>5 DEF Connect, WsaStartup, ConnectFails, Close, OnRun, SendData
<1>6. ASSUME NEW i \in Clients, Server(i)
      PROVE  \/ conn'[k] = conn[k]
             \/ conn[k] \in {"up", "eof"} /\ conn'[k] \in {"eof", "reset"}
  BY <1>6 DEF Server, ServerReads, ServerCloses, ResetArrives, HInv, ClientTypeOK
<1> QED BY <1>1, <1>2, <1>3, <1>4, <1>5, <1>6 DEF ClientNext, ClientStep
=============================================================================
