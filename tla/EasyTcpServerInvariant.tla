----------------------- MODULE EasyTcpServerInvariant -----------------------
(***************************************************************************)
(* The inductive invariant of EasyTcpServer, for any number of             *)
(* connections, descriptors and cells, messages of any length, and any     *)
(* bounds on faults and ticks.  EasyTcpServerProofs draws the conclusions. *)
(*                                                                         *)
(* None of the server's properties is inductive by itself: that a session  *)
(* is in one place needs to know who is inside a mutex, that a descriptor  *)
(* is its session's own needs to know where the sessions are, and so on.   *)
(* IInv is; its parts:                                                     *)
(*   LockOf    who holds the mutex of c stands where it is held;           *)
(*   ListOf    a session of c is in one of its two vectors;                *)
(*   Apart     a session is in one cell, or in the main thread's hand;     *)
(*   PassOf    handle_recv stands at, and has ahead, sessions of its cell; *)
(*   FdInv     sessions and open descriptors match one to one;             *)
(*   PeerOf    what the connections of the sessions of c can be;           *)
(*   Pending   the backlog and the hand hold connections never yet closed; *)
(*   ReadOf    what select() reported of a session still holds;            *)
(*   BufOf     between passes a buffer holds less than a message;          *)
(*   Fresh     a session outside the cells has an empty buffer.            *)
(***************************************************************************)
EXTENDS EasyTcpServer, FiniteSetTheorems, TLAPS

\* handle_recv is at a session, cur[c].
Busy == {"recv", "dispatch", "send", "consume", "leave", "close", "erase"}
InPass == Busy \cup {"visit"}

Linked == {"open", "closed", "reset"}

\* The session of k has been closed, and not yet erased.
Closed(c, k) == cpc[c] = "erase" /\ cur[c] = k

LockOf(c) ==
  /\ mutex[c] = "cell" <=> cpc[c] = "drain"
  /\ mutex[c] = "acceptor" <=> apc = "push" /\ minCell = c

ListOf(c) ==
  /\ cpc[c] = "drain" => /\ todo[c] \subseteq clientsBuff[c]
                         /\ clients[c] \cap clientsBuff[c] = clientsBuff[c] \ todo[c]
  /\ cpc[c] # "drain" => clients[c] \cap clientsBuff[c] = {}
  /\ hand \notin Held(c)

Apart ==
  /\ \A c, d \in Cells : \A k \in Conns : k \in Held(c) /\ k \in Held(d) => c = d
  /\ hand \in Conns <=> apc \in {"scan", "add", "push"}

PassOf(c) ==
  /\ cpc[c] \in Busy => cur[c] \in clients[c] /\ cur[c] \notin todo[c]
  /\ cpc[c] \notin Busy => cur[c] = None
  /\ cpc[c] \in InPass => todo[c] \subseteq clients[c]

FdInv ==
  /\ \A f \in Fds : owner[f] # None =>
       /\ sockFd[owner[f]] = f
       /\ owner[f] = hand \/ \E c \in Cells : owner[f] \in Held(c)
  /\ \A c \in Cells : \A k \in Held(c) :
       /\ sockFd[k] \in Fds
       /\ IF Closed(c, k) THEN \A f \in Fds : owner[f] # k ELSE owner[sockFd[k]] = k
  /\ hand \in Conns => sockFd[hand] \in Fds /\ owner[sockFd[hand]] = hand

PeerOf(c) ==
  /\ \A k \in Held(c) :
       /\ k \notin backlog
       /\ IF Closed(c, k) THEN peer[k] = "gone" ELSE peer[k] \in Linked
  /\ cpc[c] \in {"leave", "close"} => peer[cur[c]] # "open"

Pending ==
  /\ \A k \in backlog : peer[k] \in Linked /\ k # hand
  /\ hand \in Conns => peer[hand] \in Linked

ReadOf(c) ==
  /\ cpc[c] \in InPass =>
       \A k \in todo[c] : sockFd[k] \in readFds[c] => Readable(k)
  /\ cpc[c] = "recv" => Readable(cur[c])

BufOf(c) ==
  /\ \A k \in Held(c) :
       ~(cur[c] = k /\ cpc[c] \in {"dispatch", "send", "consume"}) => lastRecvPos[k] < MsgLen
  /\ cpc[c] \in {"send", "consume"} => lastRecvPos[cur[c]] >= MsgLen

Fresh == \A k \in Conns : lastRecvPos[k] # 0 => \E c \in Cells : k \in Held(c)

IInv ==
  /\ ServerTypeOK
  /\ \A c \in Cells : LockOf(c)
  /\ \A c \in Cells : ListOf(c)
  /\ Apart
  /\ \A c \in Cells : PassOf(c)
  /\ FdInv
  /\ \A c \in Cells : PeerOf(c)
  /\ Pending
  /\ \A c \in Cells : ReadOf(c)
  /\ \A c \in Cells : BufOf(c)
  /\ Fresh

USE DEF lists, locals, session, counters, process, cellVars, socketVars,
        acceptorVars, scanVars, statVars

\* A step of cell c leaves what is the other cells' alone.
Others(c) ==
  \A d \in Cells : d # c =>
    /\ cpc'[d] = cpc[d] /\ todo'[d] = todo[d] /\ readFds'[d] = readFds[d]
    /\ cur'[d] = cur[d] /\ mutex'[d] = mutex[d]
    /\ clients'[d] = clients[d] /\ clientsBuff'[d] = clientsBuff[d]

\* A step of cell c that moves no session and closes none.
Quiet(c) ==
  /\ Others(c)
  /\ cpc[c] \notin {"drain", "erase"} /\ cpc'[c] \notin {"drain", "erase"}
  /\ UNCHANGED <<lists, sockFd, owner, backlog, apc, minCell, hand>>

LEMMA QuietHeld ==
  ASSUME NEW c \in Cells, Quiet(c)
  PROVE  /\ \A d \in Cells : Held(d)' = Held(d)
         /\ \A d \in Cells, k \in Conns : Closed(d, k)' = Closed(d, k)
BY DEF Quiet, Others, Held, Closed

LEMMA HeldConns == ServerTypeOK => \A c \in Cells : Held(c) \subseteq Conns
BY DEF ServerTypeOK, CellTypeOK, Held

\* The session handle_recv is at is a connection, in its cell, and its own.
LEMMA CurFacts ==
  ASSUME IInv, NEW c \in Cells, cpc[c] \in Busy
  PROVE  /\ cur[c] \in Conns /\ cur[c] \in Held(c) /\ cur[c] \in clients[c]
         /\ \A d \in Cells : d # c => cur[c] \notin Held(d)
         /\ sockFd[cur[c]] \in Fds
         /\ cpc[c] # "erase" => owner[sockFd[cur[c]]] = cur[c] /\ Wire(cur[c]) = cur[c]
<1>1. cur[c] \in clients[c] /\ cur[c] \in Held(c)
  BY DEF IInv, PassOf, Held
<1>2. cur[c] \in Conns
  BY <1>1, HeldConns DEF IInv
<1>3. \A d \in Cells : d # c => cur[c] \notin Held(d)
  BY <1>1, <1>2 DEF IInv, Apart
<1>4. sockFd[cur[c]] \in Fds
  BY <1>1 DEF IInv, FdInv
<1>5. cpc[c] # "erase" => owner[sockFd[cur[c]]] = cur[c]
  BY <1>1 DEF IInv, FdInv, Closed
<1>6. sockFd[cur[c]] # None
  BY <1>4, SocketsAssumption
<1> QED BY <1>1, <1>2, <1>3, <1>4, <1>5, <1>6 DEF Wire

\* A quiet step keeps the invariant if it keeps the parts that are about c, if
\* the sessions other than cur[c] are as readable and their buffers as full as
\* before, and if no peer goes but one that has closed.
LEMMA QuietInv ==
  ASSUME IInv, NEW c \in Cells, Quiet(c), ServerTypeOK',
         PassOf(c)', ReadOf(c)', BufOf(c)',
         \A k \in Conns : peer'[k] = peer[k] \/ {peer[k], peer'[k]} \subseteq {"closed", "reset"},
         cpc'[c] \in {"leave", "close"} => peer'[cur'[c]] # "open",
         \A k \in Conns : \/ Readable(k) => Readable(k)'
                          \/ cpc[c] \in Busy /\ k = cur[c],
         \A k \in Conns : \/ lastRecvPos'[k] = lastRecvPos[k]
                          \/ cpc[c] \in Busy /\ k = cur[c]
  PROVE  IInv'
<1>a. \A d \in Cells : Held(d) \subseteq Conns
  BY HeldConns DEF IInv
<1>1. \A d \in Cells : LockOf(d)'
  BY DEF IInv, LockOf, Quiet, Others
<1>2. \A d \in Cells : ListOf(d)'
  BY DEF IInv, ListOf, Quiet, Others, Held
<1>3. Apart'
  BY QuietHeld DEF IInv, Apart, Quiet
<1>4. \A d \in Cells : PassOf(d)'
  BY DEF IInv, PassOf, Quiet, Others
<1>5. FdInv'
  BY <1>a, QuietHeld DEF IInv, FdInv, Quiet
<1>6. ASSUME NEW d \in Cells PROVE PeerOf(d)'
  <2>1. ASSUME NEW k \in Held(d)
        PROVE k \notin backlog' /\ IF Closed(d, k)' THEN peer'[k] = "gone" ELSE peer'[k] \in Linked
    BY <2>1, <1>a, QuietHeld DEF IInv, PeerOf, Linked, Quiet
  <2>2. cpc'[d] \in {"leave", "close"} => peer'[cur'[d]] # "open"
    <3>1. CASE d = c
      BY <3>1
    <3>2. CASE d # c
      <4> HAVE cpc'[d] \in {"leave", "close"}
      <4>1. cpc[d] \in {"leave", "close"} /\ cur'[d] = cur[d]
        BY <3>2 DEF Quiet, Others
      <4>2. cur[d] \in Conns
        BY <4>1, <1>a DEF IInv, PassOf, Busy, Held
      <4> QED BY <4>1, <4>2 DEF IInv, PeerOf
    <3> QED BY <3>1, <3>2
  <2> QED BY <2>1, <2>2, QuietHeld DEF PeerOf
<1>7. Pending'
  <2>1. backlog \subseteq Conns
    BY DEF IInv, ServerTypeOK, SocketsTypeOK
  <2> QED BY <2>1 DEF IInv, Pending, Quiet, Linked
<1>8. ASSUME NEW d \in Cells, d # c PROVE ReadOf(d)' /\ BufOf(d)'
  <2>1. ASSUME NEW k \in Held(d) PROVE ~(cpc[c] \in Busy /\ k = cur[c])
    BY <2>1, <1>8, CurFacts
  <2>2. /\ cpc'[d] = cpc[d] /\ todo'[d] = todo[d] /\ readFds'[d] = readFds[d]
        /\ cur'[d] = cur[d] /\ sockFd' = sockFd
    BY <1>8 DEF Quiet, Others
  <2>3. cpc[d] \in InPass => todo[d] \subseteq Held(d)
    BY DEF IInv, PassOf, Held
  <2>4. cpc[d] \in Busy => cur[d] \in Held(d)
    BY CurFacts
  <2>5. ReadOf(d)'
    BY <2>1, <2>2, <2>3, <2>4, <1>a DEF IInv, ReadOf, Busy
  <2>6. BufOf(d)'
    BY <2>1, <2>2, <2>4, <1>a, QuietHeld DEF IInv, BufOf, Busy
  <2> QED BY <2>5, <2>6
<1>9. Fresh'
  <2>1. ASSUME NEW k \in Conns, lastRecvPos'[k] # 0 PROVE \E d \in Cells : k \in Held(d)
    <3>1. CASE lastRecvPos'[k] = lastRecvPos[k]
      BY <2>1, <3>1 DEF IInv, Fresh
    <3>2. CASE cpc[c] \in Busy /\ k = cur[c]
      BY <3>2, CurFacts
    <3> QED BY <3>1, <3>2
  <2> QED BY <2>1, QuietHeld DEF Fresh
<1> QED BY <1>1, <1>2, <1>3, <1>4, <1>5, <1>6, <1>7, <1>8, <1>9 DEF IInv

LEMMA PeekBuffInv ==
  ASSUME IInv, NEW c \in Cells, PeekBuff(c), UNCHANGED acceptorVars
  PROVE  IInv'
<1>1. ServerTypeOK'
  BY DEF IInv, ServerTypeOK, SocketsTypeOK, CellTypeOK, PeekBuff, Goto, CellStates
<1>2. cpc[c] = "top" /\ cpc'[c] \in {"lock", "select"}
  BY DEF IInv, ServerTypeOK, CellTypeOK, PeekBuff, Goto
<1>3. Quiet(c)
  BY <1>2 DEF IInv, ServerTypeOK, CellTypeOK, PeekBuff, Goto, Quiet, Others
<1>4. PassOf(c)' /\ ReadOf(c)' /\ BufOf(c)'
  BY <1>2, QuietHeld, <1>3 DEF IInv, PeekBuff, PassOf, ReadOf, BufOf, Busy, InPass
<1> QED BY <1>1, <1>2, <1>3, <1>4, QuietInv DEF PeekBuff, Readable

LEMMA SelectClientsInv ==
  ASSUME IInv, NEW c \in Cells, SelectClients(c), UNCHANGED acceptorVars
  PROVE  IInv'
<1>0. \A k \in clients[c] : k \in Held(c) /\ sockFd[k] \in Fds /\ owner[sockFd[k]] = k /\ Wire(k) = k
  BY SocketsAssumption DEF IInv, FdInv, Closed, Held, Wire, SelectClients, Goto
<1>1. ServerTypeOK'
  BY <1>0 DEF IInv, ServerTypeOK, SocketsTypeOK, CellTypeOK, SelectClients, Goto, CellStates
<1>2. /\ cpc[c] = "select" /\ cpc'[c] = "visit" /\ todo'[c] = clients[c]
      /\ readFds'[c] = {sockFd[k] : k \in {i \in clients[c] : Readable(Wire(i))}}
  BY DEF IInv, ServerTypeOK, CellTypeOK, SelectClients, Goto
<1>3. Quiet(c)
  BY <1>2 DEF IInv, ServerTypeOK, CellTypeOK, SelectClients, Goto, Quiet, Others
<1>4. PassOf(c)' /\ BufOf(c)'
  BY <1>2, QuietHeld, <1>3 DEF IInv, SelectClients, PassOf, ReadOf, BufOf, Busy, InPass
<1>5. ReadOf(c)'
  BY <1>0, <1>2 DEF ReadOf, SelectClients, Readable
<1> QED BY <1>1, <1>2, <1>3, <1>4, <1>5, QuietInv DEF SelectClients, Readable

LEMMA SleepInv ==
  ASSUME IInv, NEW c \in Cells, Sleep(c), UNCHANGED acceptorVars
  PROVE  IInv'
<1>1. ServerTypeOK'
  BY DEF IInv, ServerTypeOK, SocketsTypeOK, CellTypeOK, Sleep, Goto, CellStates
<1>2. cpc[c] = "select" /\ cpc'[c] = "top"
  BY DEF IInv, ServerTypeOK, CellTypeOK, Sleep, Goto
<1>3. Quiet(c)
  BY <1>2 DEF IInv, ServerTypeOK, CellTypeOK, Sleep, Goto, Quiet, Others
<1>4. PassOf(c)' /\ ReadOf(c)' /\ BufOf(c)'
  BY <1>2, <1>3, QuietHeld DEF IInv, Sleep, PassOf, ReadOf, BufOf, Busy, InPass
<1> QED BY <1>1, <1>2, <1>3, <1>4, QuietInv DEF Sleep, Readable

LEMMA SelectFailsInv ==
  ASSUME IInv, NEW c \in Cells, SelectFails(c), UNCHANGED acceptorVars
  PROVE  IInv'
<1>1. ServerTypeOK'
  <2>1. faults' \in 0..MaxFaults
    BY CellServerAssumption DEF IInv, ServerTypeOK, CellTypeOK, SelectFails, Fault
  <2> QED BY <2>1 DEF IInv, ServerTypeOK, SocketsTypeOK, CellTypeOK, SelectFails, Goto, CellStates
<1>2. cpc[c] = "select" /\ cpc'[c] = "stopped"
  BY DEF IInv, ServerTypeOK, CellTypeOK, SelectFails, Goto
<1>3. Quiet(c)
  BY <1>2 DEF IInv, ServerTypeOK, CellTypeOK, SelectFails, Goto, Quiet, Others
<1>4. PassOf(c)' /\ ReadOf(c)' /\ BufOf(c)'
  BY <1>2, <1>3, QuietHeld DEF IInv, SelectFails, PassOf, ReadOf, BufOf, Busy, InPass
<1> QED BY <1>1, <1>2, <1>3, <1>4, QuietInv DEF SelectFails, Readable

LEMMA VisitReadableInv ==
  ASSUME IInv, NEW c \in Cells, VisitReadable(c), UNCHANGED acceptorVars
  PROVE  IInv'
<1>0. PICK k \in todo[c] : /\ sockFd[k] \in readFds[c]
                           /\ cur' = [cur EXCEPT ![c] = k]
                           /\ todo' = [todo EXCEPT ![c] = @ \ {k}]
                           /\ readFds' = [readFds EXCEPT ![c] = @ \ {sockFd[k]}]
  BY DEF VisitReadable
<1>a. k \in clients[c] /\ k \in Conns /\ todo[c] \subseteq clients[c]
  BY HeldConns DEF IInv, PassOf, InPass, VisitReadable, Goto, Held
<1>1. ServerTypeOK'
  BY <1>0, <1>a DEF IInv, ServerTypeOK, SocketsTypeOK, CellTypeOK, VisitReadable, Goto, CellStates
<1>2. /\ cpc[c] = "visit" /\ cpc'[c] = "recv" /\ cur'[c] = k
      /\ todo'[c] = todo[c] \ {k} /\ readFds'[c] \subseteq readFds[c]
  BY <1>0 DEF IInv, ServerTypeOK, CellTypeOK, VisitReadable, Goto
<1>3. Quiet(c)
  BY <1>0, <1>2 DEF IInv, ServerTypeOK, CellTypeOK, VisitReadable, Goto, Quiet, Others
<1>4. PassOf(c)' /\ BufOf(c)'
  BY <1>2, <1>a, <1>3, QuietHeld DEF IInv, VisitReadable, PassOf, BufOf, Busy, InPass
<1>5. ReadOf(c)'
  BY <1>0, <1>2 DEF IInv, VisitReadable, ReadOf, InPass, Readable
<1> QED BY <1>1, <1>2, <1>3, <1>4, <1>5, QuietInv DEF VisitReadable, Readable

LEMMA VisitDoneInv ==
  ASSUME IInv, NEW c \in Cells, VisitDone(c), UNCHANGED acceptorVars
  PROVE  IInv'
<1>1. ServerTypeOK'
  BY DEF IInv, ServerTypeOK, SocketsTypeOK, CellTypeOK, VisitDone, Goto, CellStates
<1>2. cpc[c] = "visit" /\ cpc'[c] = "top"
  BY DEF IInv, ServerTypeOK, CellTypeOK, VisitDone, Goto
<1>3. Quiet(c)
  BY <1>2 DEF IInv, ServerTypeOK, CellTypeOK, VisitDone, Goto, Quiet, Others
<1>4. PassOf(c)' /\ ReadOf(c)' /\ BufOf(c)'
  BY <1>2, <1>3, QuietHeld DEF IInv, VisitDone, PassOf, ReadOf, BufOf, Busy, InPass
<1> QED BY <1>1, <1>2, <1>3, <1>4, QuietInv DEF VisitDone, Readable

LEMMA OnUserLeaveInv ==
  ASSUME IInv, NEW c \in Cells, OnUserLeave(c), UNCHANGED acceptorVars
  PROVE  IInv'
<1>1. ServerTypeOK'
  BY DEF IInv, ServerTypeOK, SocketsTypeOK, CellTypeOK, OnUserLeave, Goto, CellStates
<1>2. cpc[c] = "leave" /\ cpc'[c] = "close"
  BY DEF IInv, ServerTypeOK, CellTypeOK, OnUserLeave, Goto
<1>3. Quiet(c)
  BY <1>2 DEF IInv, ServerTypeOK, CellTypeOK, OnUserLeave, Goto, Quiet, Others
<1>4. PassOf(c)' /\ ReadOf(c)' /\ BufOf(c)'
  BY <1>2, <1>3, QuietHeld DEF IInv, OnUserLeave, PassOf, ReadOf, BufOf, Busy, InPass, Readable
<1>5. peer'[cur'[c]] # "open"
  BY <1>2 DEF IInv, OnUserLeave, PeerOf
<1> QED BY <1>1, <1>2, <1>3, <1>4, <1>5, QuietInv DEF OnUserLeave, Readable

\* What recv_data reads is at least a fragment, and fits behind what the buffer
\* holds: it held no complete message.
LEMMA RecvSomeFacts ==
  ASSUME IInv, NEW c \in Cells, RecvSome(c)
  PROVE  LET k == cur[c]
             n == IF inq[k] < Chunk THEN inq[k] ELSE Chunk
         IN  /\ cpc[c] = "recv" /\ k \in Conns /\ k \in Held(c) /\ Wire(k) = k
             /\ n \in 1..Chunk /\ n <= inq[k] /\ inq[k] \in Nat /\ KRecv(k, n)
             /\ lastRecvPos[k] + n \in 0..Capacity
             /\ cpc' = [cpc EXCEPT ![c] = "dispatch"]
             /\ lastRecvPos' = [lastRecvPos EXCEPT ![k] = lastRecvPos[k] + n]
             /\ inq' = [inq EXCEPT ![k] = inq[k] - n]
<1> DEFINE k == cur[c]
           n == IF inq[k] < Chunk THEN inq[k] ELSE Chunk
<1>1. cpc[c] = "recv" /\ k \in Conns /\ k \in Held(c) /\ Wire(k) = k
  BY CurFacts DEF RecvSome, Busy
<1>2. n \in 1..Chunk /\ n <= inq[k] /\ inq[k] \in Nat /\ KRecv(k, n)
  BY <1>1, CellServerAssumption DEF RecvSome, IInv, ServerTypeOK, SocketsTypeOK
<1>3. lastRecvPos[k] \in Nat /\ lastRecvPos[k] < MsgLen
  BY <1>1 DEF IInv, BufOf, ServerTypeOK, CellTypeOK
<1>4. Fits(k, n) /\ lastRecvPos[k] + n \in 0..Capacity
  BY <1>2, <1>3, SocketsAssumption, CellServerAssumption DEF Fits
<1>5. /\ cpc' = [cpc EXCEPT ![c] = "dispatch"]
      /\ lastRecvPos' = [lastRecvPos EXCEPT ![k] = lastRecvPos[k] + n]
      /\ inq' = [inq EXCEPT ![k] = inq[k] - n]
  BY <1>1, <1>2, <1>4 DEF RecvSome, Goto, KRecv
<1> QED BY <1>1, <1>2, <1>4, <1>5

LEMMA RecvSomeInv ==
  ASSUME IInv, NEW c \in Cells, RecvSome(c), UNCHANGED acceptorVars
  PROVE  IInv'
<1> DEFINE k == cur[c]
           n == IF inq[k] < Chunk THEN inq[k] ELSE Chunk
<1>0. cpc[c] = "recv" /\ k \in Conns /\ k \in Held(c) /\ Wire(k) = k
  BY RecvSomeFacts
<1>a. n \in 1..Chunk /\ n <= inq[k] /\ inq[k] \in Nat /\ KRecv(k, n)
  BY RecvSomeFacts
<1>c. lastRecvPos[k] + n \in 0..Capacity
  BY RecvSomeFacts
<1>2. /\ cpc' = [cpc EXCEPT ![c] = "dispatch"]
      /\ lastRecvPos' = [lastRecvPos EXCEPT ![k] = lastRecvPos[k] + n]
      /\ inq' = [inq EXCEPT ![k] = inq[k] - n]
  BY RecvSomeFacts
<1>1. ServerTypeOK'
  <2>1. lastRecvPos' \in [Conns -> 0..Capacity]
    BY <1>2, <1>c DEF IInv, ServerTypeOK, CellTypeOK
  <2>2. inq' \in [Conns -> Nat]
    <3>1. inq[k] - n \in Nat
      BY <1>a, CellServerAssumption
    <3> QED BY <3>1, <1>2 DEF IInv, ServerTypeOK, SocketsTypeOK
  <2>3. cpc' \in [Cells -> CellStates]
    BY <1>2 DEF IInv, ServerTypeOK, CellTypeOK, CellStates
  <2> QED BY <2>1, <2>2, <2>3, <1>a DEF IInv, ServerTypeOK, SocketsTypeOK, CellTypeOK, RecvSome, KRecv
<1>3. Quiet(c)
  BY <1>0, <1>2, <1>a DEF IInv, ServerTypeOK, CellTypeOK, RecvSome, KRecv, Quiet, Others
<1>d. cpc'[c] = "dispatch"
  BY <1>2 DEF IInv, ServerTypeOK, CellTypeOK
<1>4. PassOf(c)'
  BY <1>0, <1>d DEF IInv, RecvSome, PassOf, Busy, InPass
<1>5. \A i \in Conns : i # k => lastRecvPos'[i] = lastRecvPos[i] /\ inq'[i] = inq[i]
  BY <1>2 DEF IInv, ServerTypeOK, CellTypeOK, SocketsTypeOK
<1>6. BufOf(c)'
  <2>1. ASSUME NEW i \in Held(c), i # k PROVE lastRecvPos'[i] < MsgLen
    BY <2>1, <1>5, HeldConns DEF IInv, BufOf
  <2> QED BY <2>1, <1>3, <1>d, QuietHeld DEF BufOf, RecvSome
<1>7. \A i \in Conns : i # k => (Readable(i) => Readable(i)')
  BY <1>5, <1>a DEF Readable, KRecv
<1>8. ReadOf(c)'
  <2>1. \A i \in todo[c] : i \in Conns /\ i # k
    BY <1>0, HeldConns DEF IInv, PassOf, Busy, InPass, Held
  <2> QED BY <2>1, <1>0, <1>7, <1>d DEF IInv, RecvSome, ReadOf, InPass, Busy
<1> QED BY <1>0, <1>1, <1>a, <1>d, <1>3, <1>4, <1>5, <1>6, <1>7, <1>8, QuietInv DEF KRecv, Busy

LEMMA RecvFailsInv ==
  ASSUME IInv, NEW c \in Cells, RecvFails(c), UNCHANGED acceptorVars
  PROVE  IInv'
<1>0. cpc[c] = "recv" /\ cur[c] \in Conns /\ Wire(cur[c]) = cur[c] /\ cur[c] # None
  BY CurFacts, SocketsAssumption DEF RecvFails, Goto, Busy
<1>1. ServerTypeOK'
  BY DEF IInv, ServerTypeOK, SocketsTypeOK, CellTypeOK, RecvFails, Goto, CellStates
<1>2. cpc'[c] = "leave"
  BY DEF IInv, ServerTypeOK, CellTypeOK, RecvFails, Goto
<1>3. Quiet(c)
  BY <1>0, <1>2 DEF IInv, ServerTypeOK, CellTypeOK, RecvFails, Goto, Quiet, Others
<1>4. PassOf(c)' /\ ReadOf(c)' /\ BufOf(c)'
  BY <1>0, <1>2, <1>3, QuietHeld DEF IInv, RecvFails, PassOf, ReadOf, BufOf, Busy, InPass, Readable
<1>5. peer'[cur'[c]] # "open"
  BY <1>0 DEF RecvFails
<1> QED BY <1>1, <1>2, <1>3, <1>4, <1>5, QuietInv DEF RecvFails, Readable

LEMMA OnNetMsgInv ==
  ASSUME IInv, NEW c \in Cells, OnNetMsg(c), UNCHANGED acceptorVars
  PROVE  IInv'
<1>1. ServerTypeOK'
  <2>1. cur[c] \in Conns
    BY CurFacts DEF OnNetMsg, Goto, Busy
  <2> QED BY <2>1 DEF IInv, ServerTypeOK, SocketsTypeOK, CellTypeOK, OnNetMsg, Goto, CellStates
<1>2. cpc[c] = "dispatch" /\ cpc'[c] \in {"send", "consume"}
  BY DEF IInv, ServerTypeOK, CellTypeOK, OnNetMsg, Goto
<1>3. Quiet(c)
  BY <1>2 DEF IInv, ServerTypeOK, CellTypeOK, OnNetMsg, Goto, Quiet, Others
<1>4. PassOf(c)' /\ ReadOf(c)'
  BY <1>2 DEF IInv, OnNetMsg, PassOf, ReadOf, Busy, InPass, Readable
<1>5. BufOf(c)'
  <2>1. lastRecvPos[cur[c]] >= MsgLen
    BY DEF OnNetMsg, Complete
  <2> QED BY <1>2, <1>3, <2>1, QuietHeld DEF IInv, OnNetMsg, BufOf
<1> QED BY <1>1, <1>2, <1>3, <1>4, <1>5, QuietInv DEF OnNetMsg, Readable

LEMMA SendDataInv ==
  ASSUME IInv, NEW c \in Cells, SendData(c), UNCHANGED acceptorVars
  PROVE  IInv'
<1> DEFINE k == cur[c]
<1>0. cpc[c] = "send" /\ k \in Conns /\ Wire(k) = k
  BY CurFacts DEF SendData, Goto, Busy
<1>a. KSend(k) /\ k # None
  BY <1>0, SocketsAssumption DEF SendData
<1>1. ServerTypeOK'
  BY <1>0, <1>a DEF IInv, ServerTypeOK, SocketsTypeOK, CellTypeOK, SendData, Goto, CellStates, KSend, PeerStates
<1>2. cpc'[c] = "consume"
  BY DEF IInv, ServerTypeOK, CellTypeOK, SendData, Goto
<1>3. Quiet(c)
  BY <1>0, <1>a, <1>2 DEF IInv, ServerTypeOK, CellTypeOK, SendData, Goto, Quiet, Others, KSend
<1>4. PassOf(c)' /\ BufOf(c)'
  BY <1>0, <1>2, <1>3, QuietHeld DEF IInv, SendData, PassOf, BufOf, Busy, InPass
<1>5. \A i \in Conns : /\ peer'[i] = peer[i] \/ {peer[i], peer'[i]} \subseteq {"closed", "reset"}
                       /\ Readable(i) => Readable(i)'
  BY <1>0, <1>a DEF IInv, ServerTypeOK, SocketsTypeOK, KSend, Readable
<1>6. ReadOf(c)'
  <2>1. \A i \in todo[c] : i \in Conns
    BY <1>0, HeldConns DEF IInv, PassOf, Busy, InPass, Held
  <2> QED BY <2>1, <1>0, <1>2, <1>5 DEF IInv, SendData, ReadOf, InPass, Busy
<1> QED BY <1>1, <1>2, <1>3, <1>4, <1>5, <1>6, QuietInv DEF SendData

LEMMA ConsumeMsgInv ==
  ASSUME IInv, NEW c \in Cells, ConsumeMsg(c), UNCHANGED acceptorVars
  PROVE  IInv'
<1> DEFINE k == cur[c]
<1>0. cpc[c] = "consume" /\ k \in Conns /\ k \in Held(c)
  BY CurFacts DEF ConsumeMsg, Goto, Busy
<1>a. lastRecvPos[k] \in 0..Capacity /\ lastRecvPos[k] >= MsgLen /\ Capacity \in Nat /\ MsgLen \in Nat
  BY <1>0, SocketsAssumption, CellServerAssumption DEF IInv, BufOf, ServerTypeOK, CellTypeOK
<1>1. ServerTypeOK'
  <2>1. lastRecvPos' \in [Conns -> 0..Capacity]
    <3>1. lastRecvPos[k] - MsgLen \in 0..Capacity
      BY <1>a
    <3> QED BY <3>1 DEF IInv, ServerTypeOK, CellTypeOK, ConsumeMsg
  <2> QED BY <2>1 DEF IInv, ServerTypeOK, SocketsTypeOK, CellTypeOK, ConsumeMsg, Goto, CellStates
<1>2. cpc'[c] = "dispatch"
  BY DEF IInv, ServerTypeOK, CellTypeOK, ConsumeMsg, Goto
<1>3. Quiet(c)
  BY <1>0, <1>2 DEF IInv, ServerTypeOK, CellTypeOK, ConsumeMsg, Goto, Quiet, Others
<1>4. PassOf(c)' /\ ReadOf(c)'
  BY <1>0, <1>2 DEF IInv, ConsumeMsg, PassOf, ReadOf, Busy, InPass, Readable
<1>5. \A i \in Conns : i # k => lastRecvPos'[i] = lastRecvPos[i]
  BY DEF IInv, ServerTypeOK, CellTypeOK, ConsumeMsg
<1>6. BufOf(c)'
  <2>1. ASSUME NEW i \in Held(c), i # k PROVE lastRecvPos'[i] < MsgLen
    BY <2>1, <1>5, HeldConns DEF IInv, BufOf
  <2> QED BY <2>1, <1>3, <1>2, QuietHeld DEF BufOf, ConsumeMsg
<1> QED BY <1>0, <1>1, <1>2, <1>3, <1>4, <1>5, <1>6, QuietInv DEF ConsumeMsg, Readable, Busy

LEMMA RecvDataReturnsInv ==
  ASSUME IInv, NEW c \in Cells, RecvDataReturns(c), UNCHANGED acceptorVars
  PROVE  IInv'
<1>1. ServerTypeOK'
  BY DEF IInv, ServerTypeOK, SocketsTypeOK, CellTypeOK, RecvDataReturns, Goto, CellStates
<1>2. cpc[c] = "dispatch" /\ cpc'[c] = "visit" /\ cur'[c] = None
  BY DEF IInv, ServerTypeOK, CellTypeOK, RecvDataReturns, Goto
<1>3. Quiet(c)
  BY <1>2 DEF IInv, ServerTypeOK, CellTypeOK, RecvDataReturns, Goto, Quiet, Others
<1>4. PassOf(c)' /\ ReadOf(c)'
  BY <1>2 DEF IInv, RecvDataReturns, PassOf, ReadOf, Busy, InPass, Readable
<1>5. BufOf(c)'
  <2>1. lastRecvPos[cur[c]] < MsgLen
    BY SocketsAssumption, CurFacts, <1>2
       DEF RecvDataReturns, Complete, IInv, ServerTypeOK, CellTypeOK, Busy
  <2> QED BY <1>2, <1>3, <2>1, QuietHeld DEF IInv, RecvDataReturns, BufOf
<1> QED BY <1>1, <1>2, <1>3, <1>4, <1>5, QuietInv DEF RecvDataReturns, Readable

-----------------------------------------------------------------------------
(* The steps that move sessions between the lists of a cell.               *)

\* A step of cell c that moves sessions within the cell but opens, closes and
\* serves none.
Moves(c) ==
  /\ Others(c)
  /\ cpc[c] \in {"lock", "drain"} /\ cpc'[c] \in {"drain", "select"}
  /\ cur'[c] = cur[c]
  /\ UNCHANGED <<session, socketVars, apc, minCell, hand>>

LEMMA MovesInv ==
  ASSUME IInv, NEW c \in Cells, Moves(c), ServerTypeOK',
         Held(c)' = Held(c), LockOf(c)', ListOf(c)'
  PROVE  IInv'
<1>a. \A d \in Cells : Held(d)' = Held(d) /\ Held(d) \subseteq Conns
  BY HeldConns DEF IInv, Moves, Others, Held
<1>b. \A d \in Cells, k \in Conns : Closed(d, k)' = Closed(d, k)
  BY DEF Moves, Others, Closed
<1>1. \A d \in Cells : LockOf(d)'
  BY DEF IInv, LockOf, Moves, Others
<1>2. \A d \in Cells : ListOf(d)'
  BY <1>a DEF IInv, ListOf, Moves, Others
<1>3. Apart'
  BY <1>a DEF IInv, Apart, Moves
<1>4. \A d \in Cells : PassOf(d)'
  BY DEF IInv, PassOf, Moves, Others, Busy, InPass
<1>5. FdInv'
  BY <1>a, <1>b DEF IInv, FdInv, Moves
<1>6. \A d \in Cells : PeerOf(d)'
  BY <1>a, <1>b DEF IInv, PeerOf, Moves, Others
<1>7. Pending'
  BY DEF IInv, Pending, Moves
<1>8. \A d \in Cells : ReadOf(d)'
  BY DEF IInv, ReadOf, Moves, Others, Busy, InPass, Readable
<1>9. \A d \in Cells : BufOf(d)'
  BY <1>a DEF IInv, BufOf, Moves, Others
<1>10. Fresh'
  BY <1>a DEF IInv, Fresh, Moves
<1> QED BY <1>1, <1>2, <1>3, <1>4, <1>5, <1>6, <1>7, <1>8, <1>9, <1>10 DEF IInv

LEMMA LockBuffInv ==
  ASSUME IInv, NEW c \in Cells, LockBuff(c), UNCHANGED acceptorVars
  PROVE  IInv'
<1>1. ServerTypeOK'
  BY DEF IInv, ServerTypeOK, SocketsTypeOK, CellTypeOK, LockBuff, Goto, CellStates
<1>2. /\ cpc[c] = "lock" /\ cpc'[c] = "drain" /\ todo'[c] = clientsBuff[c]
      /\ mutex[c] = "free" /\ mutex'[c] = "cell"
  BY DEF IInv, ServerTypeOK, CellTypeOK, LockBuff, Goto
<1>3. Moves(c)
  BY <1>2 DEF IInv, ServerTypeOK, CellTypeOK, LockBuff, Goto, Moves, Others
<1>4. Held(c)' = Held(c)
  BY DEF LockBuff, Held
<1>5. LockOf(c)' /\ ListOf(c)'
  BY <1>2, <1>4 DEF IInv, LockBuff, LockOf, ListOf
<1> QED BY <1>1, <1>3, <1>4, <1>5, MovesInv

LEMMA MoveClientInv ==
  ASSUME IInv, NEW c \in Cells, MoveClient(c), UNCHANGED acceptorVars
  PROVE  IInv'
<1>0. PICK k \in todo[c] : /\ clients' = [clients EXCEPT ![c] = @ \cup {k}]
                           /\ todo' = [todo EXCEPT ![c] = @ \ {k}]
  BY DEF MoveClient
<1>1. ServerTypeOK'
  BY <1>0 DEF IInv, ServerTypeOK, SocketsTypeOK, CellTypeOK, MoveClient, Goto, CellStates
<1>2. /\ cpc[c] = "drain" /\ cpc'[c] = "drain"
      /\ todo'[c] = todo[c] \ {k} /\ clients'[c] = clients[c] \cup {k}
  BY <1>0 DEF IInv, ServerTypeOK, CellTypeOK, MoveClient, Goto
<1>3. Moves(c)
  BY <1>0, <1>2 DEF IInv, ServerTypeOK, CellTypeOK, MoveClient, Goto, Moves, Others
<1>4. Held(c)' = Held(c)
  BY <1>2 DEF IInv, ListOf, MoveClient, Held
<1>5. LockOf(c)'
  BY <1>2 DEF IInv, MoveClient, LockOf
<1>6. ListOf(c)'
  BY <1>2, <1>4 DEF IInv, MoveClient, ListOf
<1> QED BY <1>1, <1>3, <1>4, <1>5, <1>6, MovesInv

LEMMA ClearBuffInv ==
  ASSUME IInv, NEW c \in Cells, ClearBuff(c), UNCHANGED acceptorVars
  PROVE  IInv'
<1>1. ServerTypeOK'
  BY DEF IInv, ServerTypeOK, SocketsTypeOK, CellTypeOK, ClearBuff, Goto, CellStates
<1>2. /\ cpc[c] = "drain" /\ cpc'[c] = "select" /\ todo[c] = {}
      /\ clientsBuff'[c] = {} /\ clients' = clients /\ mutex'[c] = "free"
  BY DEF IInv, ServerTypeOK, CellTypeOK, ClearBuff, Goto
<1>3. Moves(c)
  BY <1>2 DEF IInv, ServerTypeOK, CellTypeOK, ClearBuff, Goto, Moves, Others
<1>4. Held(c)' = Held(c)
  BY <1>2 DEF IInv, ListOf, Held
<1>5. LockOf(c)' /\ ListOf(c)'
  BY <1>2, <1>4 DEF IInv, ClearBuff, LockOf, ListOf
<1> QED BY <1>1, <1>3, <1>4, <1>5, MovesInv

LEMMA CloseSocketInv ==
  ASSUME IInv, NEW c \in Cells, CloseSocket(c), UNCHANGED acceptorVars
  PROVE  IInv'
<1> DEFINE k == cur[c]
           f == sockFd[k]
<1>0. /\ cpc[c] = "close" /\ k \in Conns /\ k \in Held(c) /\ f \in Fds /\ owner[f] = k
      /\ \A d \in Cells : d # c => k \notin Held(d)
  BY CurFacts DEF CloseSocket, Goto, Busy
<1>a. /\ cpc'[c] = "erase"
      /\ owner' = [owner EXCEPT ![f] = None]
      /\ \A i \in Conns : peer'[i] = IF i = k THEN "gone" ELSE peer[i]
      /\ \A i \in Conns : inq'[i] = IF i = k THEN 0 ELSE inq[i]
      /\ UNCHANGED <<backlog, lists, locals, session>>
  BY <1>0 DEF CloseSocket, Goto, KClose, IInv, ServerTypeOK, CellTypeOK
<1>b. Others(c)
  BY DEF CloseSocket, Goto, Others, IInv, ServerTypeOK, CellTypeOK
<1>c. \A d \in Cells : Held(d)' = Held(d) /\ Held(d) \subseteq Conns
  BY <1>a, HeldConns DEF Held, IInv
<1>d. \A d \in Cells, i \in Conns : Closed(d, i)' <=> Closed(d, i) \/ (d = c /\ i = k)
  BY <1>0, <1>a, <1>b DEF Closed, Others
<1>1. ServerTypeOK'
  <2>1. cpc' \in [Cells -> CellStates]
    BY DEF CloseSocket, Goto, IInv, ServerTypeOK, CellTypeOK, CellStates
  <2>2. peer' \in [Conns -> PeerStates] /\ inq' \in [Conns -> Nat] /\ outq' \in [Conns -> Nat]
    BY DEF CloseSocket, KClose, IInv, ServerTypeOK, SocketsTypeOK, PeerStates
  <2>3. owner' \in [Fds -> Conns \cup {None}]
    BY <1>a DEF IInv, ServerTypeOK, SocketsTypeOK
  <2> QED BY <2>1, <2>2, <2>3 DEF IInv, ServerTypeOK, SocketsTypeOK, CellTypeOK, CloseSocket, KClose
<1>2. \A d \in Cells : LockOf(d)'
  BY <1>0, <1>a, <1>b DEF IInv, LockOf, Others
<1>3. \A d \in Cells : ListOf(d)'
  BY <1>0, <1>a, <1>b, <1>c DEF IInv, ListOf, Others
<1>4. Apart'
  BY <1>c DEF IInv, Apart
<1>5. \A d \in Cells : PassOf(d)'
  BY <1>0, <1>a, <1>b DEF IInv, PassOf, Others, Busy, InPass
<1>6. FdInv'
  <2>1. \A g \in Fds : owner'[g] = IF g = f THEN None ELSE owner[g]
    BY <1>a DEF IInv, ServerTypeOK, SocketsTypeOK
  <2>2. \A g \in Fds : owner[g] = k => g = f
    BY <1>0, SocketsAssumption DEF IInv, FdInv
  <2>3. \A g \in Fds : owner'[g] # None =>
          /\ sockFd'[owner'[g]] = g
          /\ owner'[g] = hand' \/ \E d \in Cells : owner'[g] \in Held(d)'
    BY <2>1, <1>a, <1>c DEF IInv, FdInv
  <2>4. ASSUME NEW d \in Cells, NEW i \in Held(d)
        PROVE  /\ sockFd'[i] \in Fds
               /\ IF Closed(d, i)' THEN \A g \in Fds : owner'[g] # i ELSE owner'[sockFd'[i]] = i
    <3>1. i \in Conns /\ i # None /\ (d # c => i # k)
      BY <2>4, <1>0, <1>c, SocketsAssumption
    <3>2. CASE i = k
      BY <3>1, <3>2, <2>1, <2>2, <2>4, <1>0, <1>a, <1>d, SocketsAssumption
    <3>3. CASE i # k
      BY <3>1, <3>3, <2>1, <2>4, <1>0, <1>a, <1>d DEF IInv, FdInv
    <3> QED BY <3>2, <3>3
  <2>5. hand \in Conns => sockFd[hand] \in Fds /\ owner'[sockFd[hand]] = hand
    <3>1. hand # k
      BY <1>0 DEF IInv, ListOf
    <3> QED BY <3>1, <2>1, <1>0 DEF IInv, FdInv
  <2> QED BY <2>3, <2>4, <2>5, <1>a, <1>c DEF FdInv
<1>7. ASSUME NEW d \in Cells PROVE PeerOf(d)'
  <2>1. ASSUME NEW i \in Held(d)
        PROVE i \notin backlog /\ IF Closed(d, i)' THEN peer'[i] = "gone" ELSE peer'[i] \in Linked
    BY <2>1, <1>0, <1>a, <1>c, <1>d DEF IInv, PeerOf
  <2>2. cpc'[d] \in {"leave", "close"} => peer'[cur'[d]] # "open"
    BY <1>a, <1>b, CurFacts DEF IInv, PeerOf, Others, Busy
  <2> QED BY <2>1, <2>2, <1>a, <1>c DEF PeerOf
<1>8. Pending'
  <2>1. \A i \in backlog : i \in Conns /\ i # k
    BY <1>0 DEF IInv, ServerTypeOK, SocketsTypeOK, PeerOf
  <2>2. hand # k
    BY <1>0 DEF IInv, ListOf
  <2> QED BY <2>1, <2>2, <1>a DEF IInv, Pending
<1>9. ASSUME NEW d \in Cells PROVE ReadOf(d)'
  <2>1. \A i \in Conns : i # k /\ Readable(i) => Readable(i)'
    BY <1>a DEF Readable
  <2>2. cpc'[d] \in InPass =>
          /\ cpc[d] \in InPass
          /\ \A i \in todo[d] : i \in Conns /\ i # k
    <3>1. cpc'[d] \in InPass => cpc[d] \in InPass
      BY <1>0, <1>b DEF Others, InPass, Busy
    <3>2. cpc[d] \in InPass => todo[d] \subseteq Held(d)
      BY DEF IInv, PassOf, Held
    <3>3. d = c => k \notin todo[d]
      BY <1>0 DEF IInv, PassOf, Busy
    <3> QED BY <3>1, <3>2, <3>3, <1>0, <1>c
  <2>3. cpc'[d] = "recv" => cpc[d] = "recv" /\ cur[d] \in Conns /\ cur[d] # k
    BY <1>0, <1>a, <1>b, CurFacts DEF Others, Busy
  <2> QED BY <2>1, <2>2, <2>3, <1>a DEF IInv, ReadOf
<1>10. \A d \in Cells : BufOf(d)'
  BY <1>0, <1>a, <1>b, <1>c DEF IInv, BufOf, Others
<1>11. Fresh'
  BY <1>a, <1>c DEF IInv, Fresh
<1> QED BY <1>1, <1>2, <1>3, <1>4, <1>5, <1>6, <1>7, <1>8, <1>9, <1>10, <1>11 DEF IInv

LEMMA EraseClientInv ==
  ASSUME IInv, NEW c \in Cells, EraseClient(c), UNCHANGED acceptorVars
  PROVE  IInv'
<1> DEFINE k == cur[c]
<1>0. /\ cpc[c] = "erase" /\ k \in Conns /\ k \in Held(c) /\ k \in clients[c]
      /\ \A d \in Cells : d # c => k \notin Held(d)
      /\ \A f \in Fds : owner[f] # k
  <2>1. cpc[c] = "erase"
    BY DEF EraseClient, Goto
  <2> QED BY <2>1, CurFacts DEF Busy, IInv, FdInv, Closed
<1>a. /\ cpc'[c] = "visit" /\ cur'[c] = None
      /\ clients'[c] = clients[c] \ {k}
      /\ \A i \in Conns : i # k => sockFd'[i] = sockFd[i] /\ lastRecvPos'[i] = lastRecvPos[i]
      /\ lastRecvPos'[k] = 0
      /\ UNCHANGED <<clientsBuff, mutex, todo, readFds, socketVars>>
  BY <1>0 DEF EraseClient, Goto, IInv, ServerTypeOK, CellTypeOK
<1>b. Others(c)
  BY DEF EraseClient, Goto, Others, IInv, ServerTypeOK, CellTypeOK
<1>e. k \notin clientsBuff[c]
  BY <1>0 DEF IInv, ListOf
<1>c. \A d \in Cells : Held(d)' = Held(d) \ {k} /\ Held(d) \subseteq Conns
  <2>1. Held(c)' = Held(c) \ {k}
    BY <1>a, <1>e DEF Held
  <2>2. \A d \in Cells : d # c => Held(d)' = Held(d)
    BY <1>b DEF Held, Others
  <2> QED BY <2>1, <2>2, <1>0, HeldConns DEF IInv
<1>d. \A d \in Cells, i \in Conns : i # k => Closed(d, i)' = Closed(d, i)
  BY <1>0, <1>a, <1>b DEF Closed, Others
<1>1. ServerTypeOK'
  BY <1>0, CellServerAssumption
     DEF IInv, ServerTypeOK, SocketsTypeOK, CellTypeOK, EraseClient, Goto, CellStates
<1>2. \A d \in Cells : LockOf(d)'
  BY <1>0, <1>a, <1>b DEF IInv, LockOf, Others
<1>3. \A d \in Cells : ListOf(d)'
  <2>1. ListOf(c)'
    BY <1>0, <1>a, <1>c DEF IInv, ListOf
  <2> QED BY <2>1, <1>b, <1>c DEF IInv, ListOf, Others
<1>4. Apart'
  BY <1>c DEF IInv, Apart
<1>5. \A d \in Cells : PassOf(d)'
  BY <1>0, <1>a, <1>b DEF IInv, PassOf, Others, Busy, InPass
<1>6. FdInv'
  <2>1. \A f \in Fds : owner[f] # None =>
          /\ owner[f] \in Conns \ {k}
          /\ sockFd'[owner[f]] = f
          /\ owner[f] = hand \/ \E d \in Cells : owner[f] \in Held(d)'
    BY <1>0, <1>a, <1>c DEF IInv, FdInv, ServerTypeOK, SocketsTypeOK
  <2>2. ASSUME NEW d \in Cells, NEW i \in Held(d)'
        PROVE  /\ sockFd'[i] \in Fds
               /\ IF Closed(d, i)' THEN \A g \in Fds : owner[g] # i ELSE owner[sockFd'[i]] = i
    BY <2>2, <1>a, <1>c, <1>d DEF IInv, FdInv
  <2>3. hand \in Conns => sockFd'[hand] \in Fds /\ owner[sockFd'[hand]] = hand
    <3>1. hand # k
      BY <1>0 DEF IInv, ListOf
    <3> QED BY <3>1, <1>a DEF IInv, FdInv
  <2> QED BY <2>1, <2>2, <2>3, <1>a DEF FdInv
<1>7. \A d \in Cells : PeerOf(d)'
  BY <1>0, <1>a, <1>b, <1>c, <1>d DEF IInv, PeerOf, Others
<1>8. Pending'
  BY <1>a DEF IInv, Pending
<1>9. ASSUME NEW d \in Cells PROVE ReadOf(d)'
  <2>1. cpc'[d] \in InPass =>
          /\ cpc[d] \in InPass
          /\ \A i \in todo[d] : i \in Conns /\ i # k
    <3>1. cpc'[d] \in InPass => cpc[d] \in InPass
      BY <1>0, <1>b DEF Others, InPass, Busy
    <3>2. cpc[d] \in InPass => todo[d] \subseteq Held(d)
      BY DEF IInv, PassOf, Held
    <3>3. d = c => k \notin todo[d]
      BY <1>0 DEF IInv, PassOf, Busy
    <3> QED BY <3>1, <3>2, <3>3, <1>0, <1>c
  <2>2. cpc'[d] = "recv" => cpc[d] = "recv" /\ cur'[d] = cur[d]
    BY <1>a, <1>b DEF Others
  <2>3. todo'[d] = todo[d] /\ readFds'[d] = readFds[d] /\ \A i : Readable(i)' = Readable(i)
    BY <1>a DEF Readable
  <2> QED BY <2>1, <2>2, <2>3, <1>a DEF IInv, ReadOf
<1>10. \A d \in Cells : BufOf(d)'
  <2>1. BufOf(c)'
    BY <1>0, <1>a, <1>c DEF IInv, BufOf
  <2>2. ASSUME NEW d \in Cells, d # c PROVE BufOf(d)'
    <3>1. cpc[d] \in {"send", "consume"} => cur[d] \in Conns /\ cur[d] # k
      BY <2>2, <1>0, CurFacts DEF Busy
    <3> QED BY <2>2, <3>1, <1>a, <1>b, <1>c DEF IInv, BufOf, Others
  <2> QED BY <2>1, <2>2
<1>11. Fresh'
  BY <1>a, <1>c DEF IInv, Fresh
<1> QED BY <1>1, <1>2, <1>3, <1>4, <1>5, <1>6, <1>7, <1>8, <1>9, <1>10, <1>11 DEF IInv

-----------------------------------------------------------------------------
(* The main thread.                                                        *)

Placing == {"scan", "add", "push"}

\* A step that touches no session and neither takes nor leaves a connection.
MainQuiet ==
  /\ UNCHANGED <<lists, cpc, locals, session, peer, backlog, owner, inq, hand>>
  /\ apc # "push" /\ apc' # "push"
  /\ apc \in Placing <=> apc' \in Placing

LEMMA MainQuietInv ==
  ASSUME IInv, MainQuiet, ServerTypeOK'
  PROVE  IInv'
<1>a. \A d \in Cells : Held(d)' = Held(d)
  BY DEF MainQuiet, Held
<1>b. \A d \in Cells : \A k : Closed(d, k)' = Closed(d, k)
  BY DEF MainQuiet, Closed
<1>1. \A d \in Cells : LockOf(d)'
  BY DEF IInv, LockOf, MainQuiet
<1>2. (\A d \in Cells : ListOf(d)') /\ Apart'
  BY <1>a DEF IInv, ListOf, Apart, MainQuiet, Placing
<1>3. \A d \in Cells : PassOf(d)'
  BY DEF IInv, PassOf, MainQuiet
<1>4. FdInv'
  BY <1>a, <1>b DEF IInv, FdInv, MainQuiet
<1>5. (\A d \in Cells : PeerOf(d)') /\ Pending'
  BY <1>a, <1>b DEF IInv, PeerOf, Pending, MainQuiet
<1>6. \A d \in Cells : ReadOf(d)'
  BY DEF IInv, ReadOf, MainQuiet, Readable
<1>7. (\A d \in Cells : BufOf(d)') /\ Fresh'
  BY <1>a DEF IInv, BufOf, Fresh, MainQuiet
<1> QED BY <1>1, <1>2, <1>3, <1>4, <1>5, <1>6, <1>7 DEF IInv

\* The loops of the main thread stay among the cells.
LEMMA NextCellType ==
  ASSUME idx \in Cells, NEW from, NEW again, NEW end, NextCell(from, again, end)
  PROVE  idx' \in Cells
BY CellServerAssumption DEF NextCell, Cells

LEMMA ListenInv == IInv /\ Listen => IInv'
<1> SUFFICES ASSUME IInv, Listen PROVE IInv'
  OBVIOUS
<1>1. ServerTypeOK'
  <2>1. faults' \in 0..MaxFaults
    BY CellServerAssumption DEF IInv, ServerTypeOK, CellTypeOK, Listen, Fault
  <2> QED BY <2>1 DEF IInv, ServerTypeOK, SocketsTypeOK, CellTypeOK, Listen, AGoto, AcceptorStates
<1>2. MainQuiet
  BY DEF Listen, AGoto, MainQuiet, Placing
<1> QED BY <1>1, <1>2, MainQuietInv

LEMMA NoTickInv == IInv /\ NoTick => IInv'
<1> SUFFICES ASSUME IInv, NoTick PROVE IInv'
  OBVIOUS
<1>1. ServerTypeOK'
  BY DEF IInv, ServerTypeOK, SocketsTypeOK, CellTypeOK, NoTick, AGoto, AcceptorStates
<1>2. MainQuiet
  BY DEF NoTick, AGoto, MainQuiet, Placing
<1> QED BY <1>1, <1>2, MainQuietInv

LEMMA TickInv == IInv /\ Tick => IInv'
<1> SUFFICES ASSUME IInv, Tick PROVE IInv'
  OBVIOUS
<1>1. ServerTypeOK'
  <2>1. ticks' \in 0..MaxTicks
    BY EasyTcpServerAssumption DEF IInv, ServerTypeOK, Tick
  <2> QED BY <2>1 DEF IInv, ServerTypeOK, SocketsTypeOK, CellTypeOK, Tick, AGoto, AcceptorStates
<1>2. MainQuiet
  BY DEF Tick, AGoto, MainQuiet, Placing
<1> QED BY <1>1, <1>2, MainQuietInv

LEMMA GetMsgCountInv == IInv /\ GetMsgCount => IInv'
<1> SUFFICES ASSUME IInv, GetMsgCount PROVE IInv'
  OBVIOUS
<1>1. ServerTypeOK'
  BY DEF IInv, ServerTypeOK, SocketsTypeOK, CellTypeOK, GetMsgCount, AGoto, AcceptorStates
<1>2. MainQuiet
  BY DEF GetMsgCount, AGoto, MainQuiet, Placing
<1> QED BY <1>1, <1>2, MainQuietInv

LEMMA ResetMsgCountInv == IInv /\ ResetMsgCount => IInv'
<1> SUFFICES ASSUME IInv, ResetMsgCount PROVE IInv'
  OBVIOUS
<1>1. ServerTypeOK'
  <2>1. idx' \in Cells
    BY NextCellType DEF IInv, ServerTypeOK, ResetMsgCount
  <2> QED BY <2>1 DEF IInv, ServerTypeOK, SocketsTypeOK, CellTypeOK, ResetMsgCount, NextCell, AGoto,
               AcceptorStates
<1>2. MainQuiet
  BY DEF ResetMsgCount, NextCell, AGoto, MainQuiet, Placing
<1> QED BY <1>1, <1>2, MainQuietInv

LEMMA SelectAcceptInv == IInv /\ SelectAccept => IInv'
<1> SUFFICES ASSUME IInv, SelectAccept PROVE IInv'
  OBVIOUS
<1>1. ServerTypeOK'
  BY DEF IInv, ServerTypeOK, SocketsTypeOK, CellTypeOK, SelectAccept, AGoto, AcceptorStates
<1>2. MainQuiet
  BY DEF SelectAccept, AGoto, MainQuiet, Placing
<1> QED BY <1>1, <1>2, MainQuietInv

LEMMA SelectNothingInv == IInv /\ SelectNothing => IInv'
<1> SUFFICES ASSUME IInv, SelectNothing PROVE IInv'
  OBVIOUS
<1>1. ServerTypeOK'
  <2>1. faults' \in 0..MaxFaults
    BY CellServerAssumption DEF IInv, ServerTypeOK, CellTypeOK, SelectNothing, Fault
  <2> QED BY <2>1 DEF IInv, ServerTypeOK, SocketsTypeOK, CellTypeOK, SelectNothing, AGoto, AcceptorStates
<1>2. MainQuiet
  BY DEF SelectNothing, AGoto, MainQuiet, Placing
<1> QED BY <1>1, <1>2, MainQuietInv

LEMMA AcceptFailsInv == IInv /\ AcceptFails => IInv'
<1> SUFFICES ASSUME IInv, AcceptFails PROVE IInv'
  OBVIOUS
<1>1. ServerTypeOK'
  BY DEF IInv, ServerTypeOK, SocketsTypeOK, CellTypeOK, AcceptFails, AGoto, AcceptorStates
<1>2. MainQuiet
  BY DEF AcceptFails, AGoto, MainQuiet, Placing
<1> QED BY <1>1, <1>2, MainQuietInv

LEMMA CompareCountsInv == IInv /\ CompareCounts => IInv'
<1> SUFFICES ASSUME IInv, CompareCounts PROVE IInv'
  OBVIOUS
<1>1. ServerTypeOK'
  <2>1. idx' \in Cells
    BY NextCellType DEF IInv, ServerTypeOK, CompareCounts
  <2> QED BY <2>1 DEF IInv, ServerTypeOK, SocketsTypeOK, CellTypeOK, CompareCounts, NextCell, AGoto, NothingRead,
               NotRead,
               AcceptorStates
<1>2. MainQuiet
  BY DEF CompareCounts, NextCell, AGoto, MainQuiet, Placing
<1> QED BY <1>1, <1>2, MainQuietInv

LEMMA CountClientInv == IInv /\ CountClient => IInv'
<1> SUFFICES ASSUME IInv, CountClient PROVE IInv'
  OBVIOUS
<1>1. ServerTypeOK'
  BY DEF IInv, ServerTypeOK, SocketsTypeOK, CellTypeOK, CountClient, AGoto, AcceptorStates
<1>2. MainQuiet
  BY DEF CountClient, AGoto, MainQuiet, Placing
<1> QED BY <1>1, <1>2, MainQuietInv

LEMMA ReadSizeInv == IInv /\ ReadSize => IInv'
<1> SUFFICES ASSUME IInv, ReadSize PROVE IInv'
  OBVIOUS
<1>1. PICK s \in Slots : \E n \in Sizes(s) : seen' = [seen EXCEPT ![s] = n]
  BY DEF ReadSize
<1> PICK n \in Sizes(s) : seen' = [seen EXCEPT ![s] = n]
  BY <1>1
<1>2. n \in Nat
  <2> DEFINE c == SlotCell(s)
  <2>1. c \in Cells
    BY DEF SlotCell, IInv, ServerTypeOK
  <2>2. IsFiniteSet(clients[c]) /\ IsFiniteSet(clientsBuff[c]) /\ IsFiniteSet(Conns)
    BY <2>1, FS_Subset, SocketsAssumption DEF IInv, ServerTypeOK, CellTypeOK
  <2>3. /\ Cardinality(clients[c]) \in Nat /\ Cardinality(clientsBuff[c]) \in Nat
        /\ Cardinality(Conns) \in Nat
    BY <2>2, FS_CardinalityType
  <2> QED BY <2>3 DEF Sizes
<1>3. ServerTypeOK'
  BY <1>1, <1>2 DEF IInv, ServerTypeOK, SocketsTypeOK, CellTypeOK, ReadSize, AGoto, AcceptorStates
<1>4. MainQuiet
  BY DEF ReadSize, AGoto, MainQuiet, Placing
<1> QED BY <1>3, <1>4, MainQuietInv

LEMMA StartCellInv == IInv /\ StartCell => IInv'
<1> SUFFICES ASSUME IInv, StartCell PROVE IInv'
  OBVIOUS
<1>1. ServerTypeOK'
  <2>1. idx' \in Cells
    BY NextCellType DEF IInv, ServerTypeOK, StartCell
  <2> QED BY <2>1 DEF IInv, ServerTypeOK, SocketsTypeOK, CellTypeOK, StartCell, NextCell, AGoto, Start, Goto,
               CellStates,
               AcceptorStates
<1>2. /\ idx \in Cells /\ cpc[idx] = "unborn" /\ cpc'[idx] = "top"
      /\ UNCHANGED <<lists, locals, session, counters, process, socketVars, hand, minCell>>
      /\ apc = "start" /\ apc' \in {"start", "run"}
  BY DEF IInv, ServerTypeOK, CellTypeOK, StartCell, Start, Goto, NextCell, AGoto
<1>3. \A d \in Cells : d # idx => cpc'[d] = cpc[d]
  BY DEF IInv, ServerTypeOK, CellTypeOK, StartCell, Start, Goto
<1>a. \A d \in Cells : Held(d)' = Held(d)
  BY <1>2 DEF Held
<1>b. \A d \in Cells : \A k : Closed(d, k)' = Closed(d, k)
  BY <1>2, <1>3 DEF Closed
<1>4. \A d \in Cells : LockOf(d)'
  BY <1>2, <1>3 DEF IInv, LockOf
<1>5. (\A d \in Cells : ListOf(d)') /\ Apart'
  BY <1>2, <1>3, <1>a DEF IInv, ListOf, Apart
<1>6. \A d \in Cells : PassOf(d)'
  BY <1>2, <1>3 DEF IInv, PassOf, Busy, InPass
<1>7. FdInv'
  BY <1>2, <1>a, <1>b DEF IInv, FdInv
<1>8. (\A d \in Cells : PeerOf(d)') /\ Pending'
  BY <1>2, <1>3, <1>a, <1>b DEF IInv, PeerOf, Pending
<1>9. \A d \in Cells : ReadOf(d)'
  BY <1>2, <1>3 DEF IInv, ReadOf, Busy, InPass, Readable
<1>10. (\A d \in Cells : BufOf(d)') /\ Fresh'
  BY <1>2, <1>3, <1>a DEF IInv, BufOf, Fresh
<1> QED BY <1>1, <1>4, <1>5, <1>6, <1>7, <1>8, <1>9, <1>10 DEF IInv

LEMMA AcceptInv == IInv /\ Accept => IInv'
<1> SUFFICES ASSUME IInv, Accept PROVE IInv'
  OBVIOUS
<1>0. PICK k \in Conns, f \in Fds :
        KAccept(k, f) /\ hand' = k /\ sockFd' = [sockFd EXCEPT ![k] = f]
  BY DEF Accept
<1>1. ServerTypeOK'
  <2>1. minCell' \in Cells /\ idx' \in Cells
    BY CellServerAssumption DEF Accept, Cells
  <2>2. owner' \in [Fds -> Conns \cup {None}] /\ backlog' \subseteq Conns
    BY <1>0 DEF IInv, ServerTypeOK, SocketsTypeOK, KAccept
  <2>3. sockFd' \in [Conns -> Fds \cup {None}] /\ hand' \in Conns \cup {None}
    BY <1>0 DEF IInv, ServerTypeOK, CellTypeOK
  <2> QED BY <1>0, <2>1, <2>2, <2>3 DEF IInv, ServerTypeOK, SocketsTypeOK, CellTypeOK, Accept,
               KAccept, AGoto, AcceptorStates
<1>2. /\ k \in backlog /\ owner[f] = None /\ backlog' = backlog \ {k}
      /\ owner'[f] = k /\ \A g \in Fds : g # f => owner'[g] = owner[g]
      /\ sockFd'[k] = f /\ \A i \in Conns : i # k => sockFd'[i] = sockFd[i]
      /\ UNCHANGED <<lists, cpc, locals, lastRecvPos, peer, inq>>
      /\ hand' = k /\ apc = "accept" /\ apc' \in {"scan", "add"}
  BY <1>0 DEF Accept, KAccept, AGoto, IInv, ServerTypeOK, SocketsTypeOK, CellTypeOK
<1>3. /\ hand \notin Conns
      /\ \A d \in Cells : k \notin Held(d) /\ Held(d) \subseteq Conns
  BY <1>2, HeldConns DEF IInv, Apart, PeerOf
<1>a. \A d \in Cells : Held(d)' = Held(d)
  BY <1>2 DEF Held
<1>b. \A d \in Cells : \A i : Closed(d, i)' = Closed(d, i)
  BY <1>2 DEF Closed
<1>4. \A d \in Cells : LockOf(d)'
  BY <1>2 DEF IInv, LockOf
<1>5. (\A d \in Cells : ListOf(d)') /\ Apart'
  BY <1>2, <1>3, <1>a DEF IInv, ListOf, Apart
<1>6. \A d \in Cells : PassOf(d)'
  BY <1>2 DEF IInv, PassOf
<1>7. FdInv'
  <2>1. ASSUME NEW g \in Fds, owner'[g] # None
        PROVE  /\ sockFd'[owner'[g]] = g
               /\ owner'[g] = hand' \/ \E c \in Cells : owner'[g] \in Held(c)'
    <3>1. CASE g = f
      BY <3>1, <1>2
    <3>2. CASE g # f
      <4>1. owner'[g] = owner[g] /\ owner[g] # None /\ owner[g] \in Conns
        BY <2>1, <3>2, <1>2 DEF IInv, ServerTypeOK, SocketsTypeOK
      <4>2. sockFd[owner[g]] = g /\ \E c \in Cells : owner[g] \in Held(c)
        BY <4>1, <1>3 DEF IInv, FdInv
      <4> QED BY <4>1, <4>2, <1>2, <1>3, <1>a
    <3> QED BY <3>1, <3>2
  <2>2. ASSUME NEW c \in Cells, NEW i \in Held(c)
        PROVE  /\ sockFd'[i] \in Fds
               /\ IF Closed(c, i) THEN \A g \in Fds : owner'[g] # i ELSE owner'[sockFd'[i]] = i
    <3>1. i \in Conns /\ i # k /\ i # None /\ sockFd'[i] = sockFd[i] /\ sockFd[i] \in Fds
      BY <1>2, <1>3, SocketsAssumption DEF IInv, FdInv
    <3>2. CASE Closed(c, i)
      BY <3>1, <3>2, <1>2 DEF IInv, FdInv
    <3>3. CASE ~Closed(c, i)
      <4>1. owner[sockFd[i]] = i
        BY <3>3 DEF IInv, FdInv
      <4> QED BY <4>1, <3>1, <3>3, <1>2
    <3> QED BY <3>2, <3>3
  <2> QED BY <2>1, <2>2, <1>2, <1>a, <1>b DEF FdInv
<1>8. (\A d \in Cells : PeerOf(d)') /\ Pending'
  BY <1>2, <1>a, <1>b DEF IInv, PeerOf, Pending
<1>9. \A d \in Cells : ReadOf(d)'
  <2>1. \A d \in Cells : cpc[d] \in InPass => \A i \in todo[d] : i \in Conns /\ i # k
    BY <1>3 DEF IInv, PassOf, Held
  <2> QED BY <2>1, <1>2 DEF IInv, ReadOf, Readable
<1>10. (\A d \in Cells : BufOf(d)') /\ Fresh'
  BY <1>2, <1>a DEF IInv, BufOf, Fresh
<1> QED BY <1>1, <1>4, <1>5, <1>6, <1>7, <1>8, <1>9, <1>10 DEF IInv

LEMMA AddClientInv == IInv /\ AddClient => IInv'
<1> SUFFICES ASSUME IInv, AddClient PROVE IInv'
  OBVIOUS
<1>1. ServerTypeOK'
  BY DEF IInv, ServerTypeOK, SocketsTypeOK, CellTypeOK, AddClient, AddClientLock, AGoto, AcceptorStates
<1>2. /\ minCell \in Cells /\ mutex[minCell] = "free" /\ mutex'[minCell] = "acceptor"
      /\ \A d \in Cells : d # minCell => mutex'[d] = mutex[d]
      /\ UNCHANGED <<clients, clientsBuff, cpc, locals, session, socketVars, hand, minCell>>
      /\ apc = "add" /\ apc' = "push"
  BY DEF IInv, ServerTypeOK, CellTypeOK, AddClient, AddClientLock, AGoto
<1>a. \A d \in Cells : Held(d)' = Held(d)
  BY <1>2 DEF Held
<1>b. \A d \in Cells : \A i : Closed(d, i)' = Closed(d, i)
  BY <1>2 DEF Closed
<1>3. \A d \in Cells : LockOf(d)'
  BY <1>2 DEF IInv, LockOf
<1>4. (\A d \in Cells : ListOf(d)') /\ Apart'
  BY <1>2, <1>a DEF IInv, ListOf, Apart
<1>5. \A d \in Cells : PassOf(d)'
  BY <1>2 DEF IInv, PassOf
<1>6. FdInv'
  BY <1>2, <1>a, <1>b DEF IInv, FdInv
<1>7. (\A d \in Cells : PeerOf(d)') /\ Pending'
  BY <1>2, <1>a, <1>b DEF IInv, PeerOf, Pending
<1>8. \A d \in Cells : ReadOf(d)'
  BY <1>2 DEF IInv, ReadOf, Readable
<1>9. (\A d \in Cells : BufOf(d)') /\ Fresh'
  BY <1>2, <1>a DEF IInv, BufOf, Fresh
<1> QED BY <1>1, <1>3, <1>4, <1>5, <1>6, <1>7, <1>8, <1>9 DEF IInv

\* What PushClient does, and where its connection was before.
LEMMA PushFacts ==
  ASSUME IInv, PushClient
  PROVE  /\ hand \in Conns /\ minCell \in Cells /\ hand' = None
         /\ mutex[minCell] = "acceptor" /\ mutex'[minCell] = "free"
         /\ \A d \in Cells : d # minCell => mutex'[d] = mutex[d]
         /\ clientsBuff'[minCell] = clientsBuff[minCell] \cup {hand}
         /\ \A d \in Cells : d # minCell => clientsBuff'[d] = clientsBuff[d]
         /\ UNCHANGED <<clients, cpc, locals, session, socketVars, minCell>>
         /\ apc = "push" /\ apc' = "count"
         /\ Held(minCell)' = Held(minCell) \cup {hand}
         /\ \A d \in Cells : d # minCell => Held(d)' = Held(d)
         /\ \A d \in Cells : hand \notin Held(d) /\ Held(d) \subseteq Conns
         /\ cpc[minCell] # "drain"
<1>1. /\ minCell \in Cells /\ hand' = None /\ mutex'[minCell] = "free"
      /\ \A d \in Cells : d # minCell => mutex'[d] = mutex[d]
      /\ clientsBuff'[minCell] = clientsBuff[minCell] \cup {hand}
      /\ \A d \in Cells : d # minCell => clientsBuff'[d] = clientsBuff[d]
      /\ UNCHANGED <<clients, cpc, locals, session, socketVars, minCell>>
      /\ apc = "push" /\ apc' = "count"
  BY DEF IInv, ServerTypeOK, CellTypeOK, PushClient, AddClientPush, AGoto
<1>2. mutex[minCell] = "acceptor" /\ cpc[minCell] # "drain"
  BY <1>1 DEF IInv, LockOf
<1>3. hand \in Conns /\ \A d \in Cells : hand \notin Held(d)
  BY <1>1 DEF IInv, Apart, ListOf
<1>4. Held(minCell)' = Held(minCell) \cup {hand}
  BY <1>1 DEF Held
<1>5. \A d \in Cells : d # minCell => Held(d)' = Held(d)
  BY <1>1 DEF Held
<1> QED BY <1>1, <1>2, <1>3, <1>4, <1>5, HeldConns DEF IInv

LEMMA PushClientInv == IInv /\ PushClient => IInv'
<1> SUFFICES ASSUME IInv, PushClient PROVE IInv'
  OBVIOUS
<1> DEFINE m == minCell
           k == hand
<1>0. k # None /\ None \notin Conns
  BY PushFacts, SocketsAssumption
<1>1. ServerTypeOK'
  BY PushFacts DEF IInv, ServerTypeOK, SocketsTypeOK, CellTypeOK, PushClient, AddClientPush, AGoto, AcceptorStates
<1>b. \A d \in Cells : \A i : Closed(d, i)' = Closed(d, i)
  BY PushFacts DEF Closed
<1>c. \A d \in Cells : ~Closed(d, k)
  <2>1. \A d \in Cells : cpc[d] = "erase" => cur[d] \in Held(d)
    BY DEF IInv, PassOf, Busy, Held
  <2> QED BY <2>1, PushFacts DEF Closed
<1>2. \A d \in Cells : LockOf(d)'
  BY PushFacts DEF IInv, LockOf
<1>3. \A d \in Cells : ListOf(d)'
  <2>1. ListOf(m)'
    <3>1. clients'[m] \cap clientsBuff'[m] = clients[m] \cap clientsBuff[m]
      BY PushFacts DEF Held
    <3> QED BY <3>1, <1>0, PushFacts DEF IInv, ListOf
  <2> QED BY <2>1, <1>0, PushFacts DEF IInv, ListOf
<1>4. Apart'
  BY <1>0, PushFacts DEF IInv, Apart
<1>5. \A d \in Cells : PassOf(d)'
  BY PushFacts DEF IInv, PassOf
<1>6. FdInv'
  <2>1. \A f \in Fds : owner[f] # None =>
          sockFd[owner[f]] = f /\ \E d \in Cells : owner[f] \in Held(d)'
    BY PushFacts DEF IInv, FdInv
  <2>2. ASSUME NEW d \in Cells, NEW i \in Held(d)'
        PROVE  /\ sockFd[i] \in Fds
               /\ IF Closed(d, i) THEN \A f \in Fds : owner[f] # i ELSE owner[sockFd[i]] = i
    BY <2>2, <1>c, PushFacts DEF IInv, FdInv
  <2> QED BY <2>1, <2>2, <1>0, <1>b, PushFacts DEF FdInv
<1>7. (\A d \in Cells : PeerOf(d)') /\ Pending'
  <2>1. k \notin backlog /\ peer[k] \in Linked
    BY PushFacts DEF IInv, Pending
  <2>2. \A d \in Cells : PeerOf(d)'
    BY <2>1, <1>b, <1>c, PushFacts DEF IInv, PeerOf
  <2>3. Pending'
    <3>1. backlog \subseteq Conns
      BY DEF IInv, ServerTypeOK, SocketsTypeOK
    <3> QED BY <3>1, <1>0, PushFacts DEF IInv, Pending
  <2> QED BY <2>2, <2>3
<1>8. \A d \in Cells : ReadOf(d)'
  BY PushFacts DEF IInv, ReadOf, Readable
<1>9. (\A d \in Cells : BufOf(d)') /\ Fresh'
  <2>1. lastRecvPos[k] = 0
    BY PushFacts DEF IInv, Fresh
  <2> QED BY <2>1, PushFacts, SocketsAssumption DEF IInv, BufOf, Fresh
<1> QED BY <1>1, <1>2, <1>3, <1>4, <1>5, <1>6, <1>7, <1>8, <1>9 DEF IInv

-----------------------------------------------------------------------------
(* The peers.                                                              *)

LEMMA PeerStepInv ==
  ASSUME IInv, NEW k \in Conns, PeerStep(k), UNCHANGED <<cellVars, acceptorVars>>
  PROVE  IInv'
<1>1. ServerTypeOK'
  <2>1. CASE PeerConnect(k)
    BY <2>1 DEF IInv, ServerTypeOK, SocketsTypeOK, CellTypeOK, PeerConnect, PeerStates
  <2>2. CASE PeerSend(k)
    BY <2>2, SocketsAssumption DEF IInv, ServerTypeOK, SocketsTypeOK, CellTypeOK, PeerSend
  <2>3. CASE PeerRead(k)
    BY <2>3 DEF IInv, ServerTypeOK, SocketsTypeOK, CellTypeOK, PeerRead
  <2>4. CASE PeerClose(k)
    BY <2>4 DEF IInv, ServerTypeOK, SocketsTypeOK, CellTypeOK, PeerClose, PeerStates
  <2> QED BY <2>1, <2>2, <2>3, <2>4 DEF PeerStep
<1>a. \A d \in Cells : Held(d)' = Held(d) /\ Held(d) \subseteq Conns
  BY HeldConns DEF IInv, Held
<1>b. \A d \in Cells : \A i : Closed(d, i)' = Closed(d, i)
  BY DEF Closed
<1>c. UNCHANGED owner
  BY DEF PeerStep, PeerConnect, PeerSend, PeerRead, PeerClose
<1>2. (\A d \in Cells : LockOf(d)') /\ (\A d \in Cells : ListOf(d)') /\ Apart'
  BY <1>a DEF IInv, LockOf, ListOf, Apart
<1>3. \A d \in Cells : PassOf(d)'
  BY DEF IInv, PassOf
<1>4. FdInv'
  BY <1>a, <1>b, <1>c DEF IInv, FdInv
<1>5. /\ \A i \in Conns : /\ peer[i] \in Linked => peer'[i] \in Linked
                          /\ peer[i] = "gone" => peer'[i] = "gone"
                          /\ peer[i] \notin {"idle", "open"} => peer'[i] # "open"
                          /\ Readable(i) => Readable(i)'
      /\ backlog' = backlog \/ (peer[k] = "idle" /\ peer'[k] = "open" /\ backlog' = backlog \cup {k})
  BY DEF PeerStep, PeerConnect, PeerSend, PeerRead, PeerClose, IInv, ServerTypeOK, SocketsTypeOK,
         Readable, Linked
<1>6. ASSUME NEW d \in Cells PROVE PeerOf(d)'
  <2>1. ASSUME NEW i \in Held(d)
        PROVE  i \notin backlog' /\ IF Closed(d, i) THEN peer'[i] = "gone" ELSE peer'[i] \in Linked
    <3>1. i \in Conns /\ peer[i] # "idle" /\ i \notin backlog
      BY <1>a DEF IInv, PeerOf, Linked
    <3> QED BY <3>1, <1>5 DEF IInv, PeerOf
  <2>2. cpc[d] \in {"leave", "close"} => peer'[cur[d]] # "open"
    <3> SUFFICES ASSUME cpc[d] \in {"leave", "close"} PROVE peer'[cur[d]] # "open"
      OBVIOUS
    <3>1. cur[d] \in Conns /\ cur[d] \in Held(d) /\ ~Closed(d, cur[d])
      BY CurFacts DEF Busy, Closed
    <3>2. peer[cur[d]] \in Linked /\ peer[cur[d]] # "open"
      BY <3>1 DEF IInv, PeerOf
    <3> QED BY <3>1, <3>2, <1>5 DEF Linked
  <2> QED BY <2>1, <2>2, <1>a, <1>b DEF PeerOf
<1>7. Pending'
  <2>1. backlog \subseteq Conns /\ hand' = hand
    BY DEF IInv, ServerTypeOK, SocketsTypeOK
  <2>2. hand \in Conns => peer[hand] # "idle"
    BY DEF IInv, Pending, Linked
  <2> QED BY <2>1, <2>2, <1>5, SocketsAssumption DEF IInv, Pending, Linked
<1>8. ASSUME NEW d \in Cells PROVE ReadOf(d)'
  <2>1. cpc[d] \in InPass => todo[d] \subseteq Conns
    BY <1>a DEF IInv, PassOf, Held
  <2>2. cpc[d] = "recv" => cur[d] \in Conns
    BY CurFacts DEF Busy
  <2> QED BY <2>1, <2>2, <1>5 DEF IInv, ReadOf
<1>9. (\A d \in Cells : BufOf(d)') /\ Fresh'
  BY <1>a DEF IInv, BufOf, Fresh
<1> QED BY <1>1, <1>2, <1>3, <1>4, <1>6, <1>7, <1>8, <1>9 DEF IInv

-----------------------------------------------------------------------------
(* The invariant holds in every reachable state.                           *)

LEMMA InitInv == Init => IInv
<1> SUFFICES ASSUME Init PROVE IInv
  OBVIOUS
<1>1. ServerTypeOK
  <2>1. idx \in Cells /\ minCell \in Cells
    BY CellServerAssumption DEF Init, Cells
  <2>2. faults \in 0..MaxFaults /\ ticks \in 0..MaxTicks
    BY CellServerAssumption, EasyTcpServerAssumption DEF Init, CellInit
  <2>3. SocketsTypeOK
    <3>1. peer \in [Conns -> PeerStates] /\ backlog \subseteq Conns /\ listening \in BOOLEAN
      BY DEF Init, SocketsInit, PeerStates
    <3>2. /\ owner \in [Fds -> Conns \cup {None}]
          /\ inq \in [Conns -> Nat] /\ outq \in [Conns -> Nat]
      BY DEF Init, SocketsInit
    <3>3. sent \in [Conns -> 0..MaxFrags]
      BY SocketsAssumption DEF Init, SocketsInit
    <3> QED BY <3>1, <3>2, <3>3 DEF SocketsTypeOK
  <2>4. CellTypeOK
    BY <2>2, CellServerAssumption DEF Init, CellInit, CellTypeOK, CellStates
  <2> QED BY <2>1, <2>2, <2>3, <2>4 DEF Init, ServerTypeOK, AcceptorStates, NothingRead, NotRead
<1>2. \A c \in Cells : Held(c) = {} /\ cpc[c] = "unborn" /\ cur[c] = None
  BY DEF Init, CellInit, Held
<1>3. hand \notin Conns
  BY SocketsAssumption DEF Init
<1>4. \A c \in Cells : LockOf(c) /\ ListOf(c) /\ PassOf(c) /\ PeerOf(c) /\ ReadOf(c) /\ BufOf(c)
  BY <1>2, <1>3 DEF Init, CellInit, LockOf, ListOf, PassOf, PeerOf, ReadOf, BufOf, Busy, InPass
<1>5. Apart /\ FdInv /\ Pending /\ Fresh
  BY <1>2, <1>3 DEF Init, CellInit, SocketsInit, Apart, FdInv, Pending, Fresh
<1> QED BY <1>1, <1>4, <1>5 DEF IInv

LEMMA NextInv == IInv /\ [Next]_vars => IInv'
<1> SUFFICES ASSUME IInv, [Next]_vars PROVE IInv'
  OBVIOUS
<1>1. CASE MainStep
  BY <1>1, ListenInv, StartCellInv, NoTickInv, TickInv, GetMsgCountInv, ResetMsgCountInv,
     SelectAcceptInv, SelectNothingInv, AcceptInv, AcceptFailsInv, ReadSizeInv,
     CompareCountsInv, AddClientInv, PushClientInv, CountClientInv DEF MainStep
<1>2. ASSUME NEW c \in Cells, CellStep(c), UNCHANGED acceptorVars PROVE IInv'
  <2>1. CASE OnRun(c)
    BY <1>2, <2>1, PeekBuffInv, LockBuffInv, MoveClientInv, ClearBuffInv, SleepInv,
       SelectClientsInv, SelectFailsInv DEF OnRun
  <2>2. CASE HandleRecv(c)
    BY <1>2, <2>2, VisitReadableInv, VisitDoneInv, OnUserLeaveInv, CloseSocketInv,
       EraseClientInv DEF HandleRecv
  <2>3. CASE RecvData(c)
    BY <1>2, <2>3, RecvSomeInv, RecvFailsInv, OnNetMsgInv, SendDataInv, ConsumeMsgInv,
       RecvDataReturnsInv DEF RecvData
  <2> QED BY <1>2, <2>1, <2>2, <2>3 DEF CellStep
<1>3. ASSUME NEW k \in Conns, PeerStep(k), UNCHANGED <<cellVars, acceptorVars>> PROVE IInv'
  BY <1>3, PeerStepInv
<1>4. CASE UNCHANGED vars
  <2>1. ServerTypeOK'
    BY <1>4 DEF vars, IInv, ServerTypeOK, SocketsTypeOK, CellTypeOK
  <2>a. \A d \in Cells : Held(d)' = Held(d)
    BY <1>4 DEF vars, Held
  <2>b. \A d \in Cells : \A i : Closed(d, i)' = Closed(d, i)
    BY <1>4 DEF vars, Closed
  <2>2. \A d \in Cells : LockOf(d)' /\ ListOf(d)' /\ PassOf(d)'
    BY <1>4, <2>a DEF vars, IInv, LockOf, ListOf, PassOf
  <2>3. \A d \in Cells : PeerOf(d)' /\ ReadOf(d)' /\ BufOf(d)'
    BY <1>4, <2>a, <2>b DEF vars, IInv, PeerOf, ReadOf, BufOf, Readable
  <2>4. Apart' /\ FdInv' /\ Pending' /\ Fresh'
    BY <1>4, <2>a, <2>b DEF vars, IInv, Apart, FdInv, Pending, Fresh
  <2> QED BY <2>1, <2>2, <2>3, <2>4 DEF IInv
<1> QED BY <1>1, <1>2, <1>3, <1>4 DEF Next

\* In every reachable state, all of IInv holds: the threads' locks, lists, passes,
\* descriptors and buffers are as the code of the others takes them to be.
THEOREM Invariance == Spec => []IInv
BY InitInv, NextInv, PTL DEF Spec
=============================================================================
