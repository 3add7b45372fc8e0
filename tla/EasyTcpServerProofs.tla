------------------------ MODULE EasyTcpServerProofs ------------------------
(***************************************************************************)
(* What holds of EasyTcpServer for all values of its constants: the        *)
(* invariants and action properties TLC checks on small instances, and     *)
(* that the server implements ClientRegistry.  All of it rests on IInv, of *)
(* EasyTcpServerInvariant.                                                 *)
(***************************************************************************)
EXTENDS EasyTcpServerInvariant

USE DEF lists, locals, session, counters, process, cellVars, socketVars,
        acceptorVars, scanVars, statVars

-----------------------------------------------------------------------------
(* What IInv says by itself.                                               *)

\* The hand-over of sessions from the main thread to the workers, with its
\* unlocked test, neither loses nor duplicates one.
THEOREM OneOwnerHolds == Spec => []OneOwner
<1>1. IInv => OneOwner
  <2> SUFFICES ASSUME IInv PROVE OneOwner
    OBVIOUS
  <2>1. \A c, d \in Cells : c # d => Held(c) \cap Held(d) = {}
    BY HeldConns DEF IInv, Apart
  <2>2. \A c \in Cells : clients[c] \cap clientsBuff[c] =
                           IF cpc[c] = "drain" THEN clientsBuff[c] \ todo[c] ELSE {}
    BY DEF IInv, ListOf
  <2>3. hand \notin InCells
    BY DEF IInv, ListOf, InCells
  <2> QED BY <2>1, <2>2, <2>3 DEF OneOwner
<1> QED BY Invariance, <1>1, PTL

\* No descriptor leaks, whatever fails and however clients come and go.
THEOREM NoLeakedDescriptorHolds == Spec => []NoLeakedDescriptor
<1>1. IInv => NoLeakedDescriptor
  BY DEF IInv, FdInv, NoLeakedDescriptor, InCells
<1> QED BY Invariance, <1>1, PTL

\* No session ever works on a descriptor that has become another client's.
THEOREM OwnDescriptorHolds == Spec => []OwnDescriptor
<1>1. IInv => OwnDescriptor
  BY SocketsAssumption DEF IInv, FdInv, OwnDescriptor, Closed, Wire
<1> QED BY Invariance, <1>1, PTL

\* A worker's recv never blocks: a silent client does not stop the others.
THEOREM RecvNeverBlocksHolds == Spec => []RecvNeverBlocks
<1>1. IInv => RecvNeverBlocks
  BY CurFacts, SocketsAssumption DEF IInv, ReadOf, RecvNeverBlocks, Busy
<1> QED BY Invariance, <1>1, PTL

-----------------------------------------------------------------------------
(* The statistics of time4msg.                                             *)

Stats == missed \in [Cells -> Nat] /\ StatsAccount

LEMMA StatsInit == Init => Stats
BY DEF Init, CellInit, Stats, StatsAccount, Resetting

\* A step that changes neither the counters nor where time4msg stands.
StatsQuiet ==
  /\ UNCHANGED <<msgCount, handled, reported, missed>>
  /\ apc = "reset" <=> apc' = "reset"
  /\ apc = "reset" => idx' = idx

\* A step of a worker that handles no message changes no counter.
LEMMA NothingMissed ==
  ASSUME handled \in [Cells -> Nat], missed \in [Cells -> Nat], NEW c \in Cells,
         NoteMissed(c), UNCHANGED handled
  PROVE  UNCHANGED missed
<1>1. CASE Resetting(c)
  <2>1. missed[c] + (handled'[c] - handled[c]) = missed[c]
    OBVIOUS
  <2>2. missed' = [missed EXCEPT ![c] = missed[c]]
    BY <1>1, <2>1 DEF NoteMissed
  <2> QED BY <2>2
<1>2. CASE ~Resetting(c)
  BY <1>2 DEF NoteMissed
<1> QED BY <1>1, <1>2

LEMMA StatsStep ==
  ASSUME IInv, Stats, [Next]_vars
  PROVE  Stats'
<1>0. /\ msgCount \in [Cells -> Nat] /\ handled \in [Cells -> Nat] /\ reported \in [Cells -> Nat]
      /\ missed \in [Cells -> Nat] /\ idx \in Cells
  BY DEF IInv, ServerTypeOK, CellTypeOK, Stats
<1>q. StatsQuiet => Stats'
  BY DEF StatsQuiet, Stats, StatsAccount, Resetting
<1>1. CASE MainStep /\ UNCHANGED missed
  <2>1. CASE GetMsgCount
    BY <1>0, <1>1, <2>1 DEF GetMsgCount, AGoto, Stats, StatsAccount, Resetting
  <2>2. CASE ResetMsgCount
    <3>1. /\ apc = "reset" /\ apc' # "reset" /\ UNCHANGED <<handled, reported, missed>>
          /\ msgCount' = [msgCount EXCEPT ![idx] = 0]
      BY <1>1, <2>2 DEF ResetMsgCount, NextCell, AGoto
    <3>2. SUFFICES ASSUME NEW c \in Cells
                   PROVE  handled[c] = reported[c] + missed[c] + msgCount'[c]
      BY <1>0, <3>1 DEF Stats, StatsAccount, Resetting
    <3> QED BY <1>0, <3>1 DEF Stats, StatsAccount, Resetting
  <2>3. CASE ~GetMsgCount /\ ~ResetMsgCount
    <3>1. StatsQuiet
      BY <1>1, <2>3 DEF MainStep, Listen, StartCell, Start, NoTick, Tick, SelectAccept,
         SelectNothing, Accept, AcceptFails, ReadSize, CompareCounts, AddClient, AddClientLock,
         PushClient, AddClientPush, CountClient, AGoto, NextCell, StatsQuiet
    <3> QED BY <3>1, <1>q
  <2> QED BY <1>1, <2>1, <2>2, <2>3
<1>2. ASSUME NEW c \in Cells, CellStep(c), NoteMissed(c), UNCHANGED acceptorVars PROVE Stats'
  <2>1. CASE OnNetMsg(c)
    <3>1. /\ msgCount' = [msgCount EXCEPT ![c] = @ + 1] /\ handled' = [handled EXCEPT ![c] = @ + 1]
          /\ UNCHANGED <<reported, apc, idx>>
      BY <1>2, <2>1 DEF OnNetMsg
    <3>2. handled'[c] - handled[c] = 1
      BY <1>0, <3>1
    <3>3. missed' = IF Resetting(c) THEN [missed EXCEPT ![c] = @ + 1] ELSE missed
      BY <1>2, <3>2 DEF NoteMissed
    <3>4. CASE Resetting(c)
      BY <1>0, <3>1, <3>3, <3>4 DEF Stats, StatsAccount, Resetting
    <3>5. CASE ~Resetting(c)
      BY <1>0, <3>1, <3>3, <3>5 DEF Stats, StatsAccount, Resetting
    <3> QED BY <3>4, <3>5
  <2>2. CASE ~OnNetMsg(c)
    <3>1. UNCHANGED <<msgCount, handled>>
      BY <1>2, <2>2 DEF CellStep, OnRun, HandleRecv, RecvData, PeekBuff, LockBuff, MoveClient,
         ClearBuff, Sleep, SelectClients, SelectFails, VisitReadable, VisitDone, OnUserLeave,
         CloseSocket, EraseClient, RecvSome, RecvFails, SendData, ConsumeMsg, RecvDataReturns
    <3>2. UNCHANGED missed
      BY <1>0, <1>2, <3>1, NothingMissed
    <3>3. StatsQuiet
      BY <1>2, <3>1, <3>2 DEF StatsQuiet
    <3> QED BY <3>3, <1>q
  <2> QED BY <2>1, <2>2
<1>3. ASSUME NEW k \in Conns, PeerStep(k), UNCHANGED <<cellVars, acceptorVars, missed>>
      PROVE  Stats'
  BY <1>3, <1>q DEF StatsQuiet
<1>4. CASE UNCHANGED vars
  BY <1>4, <1>q DEF vars, StatsQuiet
<1> QED BY <1>1, <1>2, <1>3, <1>4 DEF Next

LEMMA StatsInvariance == Spec => [](IInv /\ Stats)
<1>1. IInv /\ Stats /\ [Next]_vars => Stats'
  BY StatsStep
<1> QED BY Invariance, StatsInit, <1>1, PTL DEF Spec

\* Every handled message is in one report of time4msg, still counted, or was handled
\* between a get_msg_count and its reset_msg_count, however its reads and resets fall
\* between the workers' increments.
THEOREM StatsAccountHolds == Spec => []StatsAccount
<1>1. Stats => StatsAccount
  BY DEF Stats
<1> QED BY StatsInvariance, <1>1, PTL

\* Every variable keeps its type: in particular no message is taken out of a
\* buffer that does not hold all of it, and no buffer is overrun.
THEOREM TypeCorrect == Spec => []TypeOK
<1>1. IInv /\ Stats => TypeOK
  BY DEF IInv, Stats, TypeOK
<1> QED BY StatsInvariance, <1>1, PTL

-----------------------------------------------------------------------------
(* Connections are closed by their peers first.                            *)

LEMMA NoWrongfulCloseStep ==
  ASSUME IInv, [Next]_vars, NEW k \in Conns, peer[k] = "open"
  PROVE  peer'[k] # "gone"
<1>1. CASE MainStep
  <2>1. UNCHANGED peer
    BY <1>1 DEF MainStep, Listen, StartCell, NoTick, Tick, GetMsgCount, ResetMsgCount,
       SelectAccept, SelectNothing, Accept, KAccept, AcceptFails, ReadSize, CompareCounts,
       AddClient, PushClient, CountClient
  <2> QED BY <2>1
<1>2. ASSUME NEW c \in Cells, CellStep(c) PROVE peer'[k] # "gone"
  <2>1. CASE CloseSocket(c)
    <3>1. cpc[c] = "close"
      BY <2>1 DEF CloseSocket, Goto
    <3>2. owner[sockFd[cur[c]]] = cur[c] /\ peer[cur[c]] # "open"
      BY <3>1, CurFacts DEF IInv, PeerOf, Busy
    <3> QED BY <2>1, <3>2 DEF CloseSocket, KClose
  <2>2. CASE SendData(c)
    BY <2>2 DEF SendData, KSend, IInv, ServerTypeOK, SocketsTypeOK
  <2>3. CASE ~CloseSocket(c) /\ ~SendData(c)
    <3>1. UNCHANGED peer
      BY <1>2, <2>3 DEF CellStep, OnRun, HandleRecv, RecvData, PeekBuff, LockBuff, MoveClient,
         ClearBuff, Sleep, SelectClients, SelectFails, VisitReadable, VisitDone, OnUserLeave,
         EraseClient, RecvSome, KRecv, RecvFails, OnNetMsg, ConsumeMsg, RecvDataReturns
    <3> QED BY <3>1
  <2> QED BY <2>1, <2>2, <2>3
<1>3. ASSUME NEW j \in Conns, PeerStep(j) PROVE peer'[k] # "gone"
  BY <1>3 DEF PeerStep, PeerConnect, PeerSend, PeerRead, PeerClose, IInv, ServerTypeOK, SocketsTypeOK
<1>4. CASE UNCHANGED vars
  BY <1>4 DEF vars
<1> QED BY <1>1, <1>2, <1>3, <1>4 DEF Next

\* No step of the server closes a connection whose peer is still there.
THEOREM NoWrongfulCloseHolds == Spec => NoWrongfulClose
<1>1. IInv /\ [Next]_vars => [\A k \in Conns : peer[k] = "open" => peer'[k] # "gone"]_vars
  BY NoWrongfulCloseStep
<1> QED BY Invariance, <1>1, PTL DEF Spec, NoWrongfulClose

-----------------------------------------------------------------------------
(* Which steps give a cell a session, or take one from it.                 *)

\* What EraseClient does to the vectors.
LEMMA EraseFacts ==
  ASSUME IInv, NEW c \in Cells, EraseClient(c)
  PROVE  /\ cpc[c] = "erase" /\ cpc'[c] = "visit" /\ cur'[c] = None
         /\ cur[c] \in Conns /\ cur[c] \in Held(c) /\ peer[cur[c]] = "gone"
         /\ \A d \in Cells : d # c => /\ cpc'[d] = cpc[d] /\ cur'[d] = cur[d]
                                      /\ cur[c] \notin Held(d)
         /\ Held(c)' = Held(c) \ {cur[c]}
         /\ \A d \in Cells : d # c => Held(d)' = Held(d)
         /\ UNCHANGED <<counters, socketVars>>
<1>1. /\ cpc[c] = "erase" /\ cpc'[c] = "visit" /\ cur'[c] = None
      /\ \A d \in Cells : d # c => /\ cpc'[d] = cpc[d] /\ cur'[d] = cur[d]
                                   /\ clients'[d] = clients[d]
      /\ clients'[c] = clients[c] \ {cur[c]}
      /\ UNCHANGED <<clientsBuff, counters, socketVars>>
  BY DEF EraseClient, Goto, IInv, ServerTypeOK, CellTypeOK
<1>2. /\ cur[c] \in Conns /\ cur[c] \in Held(c) /\ cur[c] \in clients[c]
      /\ \A d \in Cells : d # c => cur[c] \notin Held(d)
  BY <1>1, CurFacts DEF Busy
<1>3. cur[c] \notin clientsBuff[c]
  BY <1>1, <1>2 DEF IInv, ListOf
<1>4. Held(c)' = Held(c) \ {cur[c]}
  BY <1>1, <1>3 DEF Held
<1>5. \A d \in Cells : d # c => Held(d)' = Held(d)
  BY <1>1 DEF Held
<1>6. peer[cur[c]] = "gone"
  BY <1>1, <1>2 DEF IInv, PeerOf, Closed
<1> QED BY <1>1, <1>2, <1>4, <1>5, <1>6

\* Only PushClient and EraseClient change what a cell holds.
LEMMA CellHeld ==
  ASSUME IInv, NEW c \in Cells, CellStep(c), ~EraseClient(c)
  PROVE  \A d \in Cells : Held(d)' = Held(d)
<1>1. CASE MoveClient(c)
  <2>1. PICK k \in todo[c] : clients' = [clients EXCEPT ![c] = @ \cup {k}]
    BY <1>1 DEF MoveClient
  <2>2. cpc[c] = "drain" /\ clientsBuff' = clientsBuff
    BY <1>1 DEF MoveClient, Goto
  <2>3. k \in clientsBuff[c]
    BY <2>2 DEF IInv, ListOf
  <2>4. /\ clients'[c] = clients[c] \cup {k}
        /\ \A d \in Cells : d # c => clients'[d] = clients[d]
    BY <2>1 DEF IInv, ServerTypeOK, CellTypeOK
  <2> QED BY <2>2, <2>3, <2>4 DEF Held
<1>2. CASE ClearBuff(c)
  <2>1. cpc[c] = "drain" /\ todo[c] = {} /\ clients' = clients
    BY <1>2 DEF ClearBuff, Goto
  <2>2. /\ clientsBuff'[c] = {}
        /\ \A d \in Cells : d # c => clientsBuff'[d] = clientsBuff[d]
    BY <1>2 DEF ClearBuff, IInv, ServerTypeOK, CellTypeOK
  <2>3. clientsBuff[c] \subseteq clients[c]
    BY <2>1 DEF IInv, ListOf
  <2> QED BY <2>1, <2>2, <2>3 DEF Held
<1>3. CASE ~MoveClient(c) /\ ~ClearBuff(c)
  <2>1. UNCHANGED <<clients, clientsBuff>>
    BY <1>3 DEF CellStep, OnRun, HandleRecv, RecvData, PeekBuff, LockBuff, Sleep,
       SelectClients, SelectFails, VisitReadable, VisitDone, OnUserLeave, CloseSocket,
       RecvSome, RecvFails, OnNetMsg, SendData, ConsumeMsg, RecvDataReturns
  <2> QED BY <2>1 DEF Held
<1> QED BY <1>1, <1>2, <1>3

LEMMA MainHeld ==
  ASSUME MainStep, ~PushClient
  PROVE  \A d \in Cells : Held(d)' = Held(d)
<1>1. UNCHANGED <<clients, clientsBuff>>
  BY DEF MainStep, Listen, StartCell, Start, NoTick, Tick, GetMsgCount, ResetMsgCount,
     SelectAccept, SelectNothing, Accept, AcceptFails, ReadSize, CompareCounts, AddClient,
     AddClientLock, CountClient
<1> QED BY <1>1 DEF Held

-----------------------------------------------------------------------------
(* Where the fragments are, and the replies.                               *)

\* What a step of cell c does to the places of workers, by where c was and is.
LEMMA StandingOf ==
  ASSUME IInv, NEW c \in Cells, NEW places \in SUBSET {"send", "consume"},
         cpc[c] \in Busy, cur'[c] = cur[c],
         \A d \in Cells : d # c => cpc'[d] = cpc[d] /\ cur'[d] = cur[d]
  PROVE  /\ Standing(cur[c], places) <=> cpc[c] \in places
         /\ Standing(cur[c], places)' <=> cpc'[c] \in places
         /\ \A k \in Conns : k # cur[c] => (Standing(k, places)' <=> Standing(k, places))
<1>1. \A d \in Cells : d # c /\ cpc[d] \in places => cur[d] # cur[c]
  BY CurFacts DEF Busy
<1> QED BY <1>1 DEF Standing

LEMMA StandingSame ==
  ASSUME NEW c \in Cells, NEW places \in SUBSET {"send", "consume"},
         cpc[c] \notin {"send", "consume"}, cpc'[c] \notin {"send", "consume"},
         \A d \in Cells : d # c => cpc'[d] = cpc[d] /\ cur'[d] = cur[d]
  PROVE  \A k \in Conns : Standing(k, places)' <=> Standing(k, places)
BY DEF Standing

\* A step that moves no fragment and no reply of a connection that lasts.
FlowQuiet ==
  /\ \A k \in Conns : peer'[k] # "gone" =>
       /\ peer[k] # "gone"
       /\ sent'[k] = sent[k] /\ inq'[k] = inq[k] /\ outq'[k] <= outq[k]
       /\ lastRecvPos'[k] = lastRecvPos[k] /\ served'[k] = served[k]
  /\ \A k \in Conns, places \in SUBSET {"send", "consume"} :
       Standing(k, places)' <=> Standing(k, places)

\* Both properties together.
Flow == EachFragmentOnce /\ RepliesAnswerRequests

FlowTypes ==
  /\ sent \in [Conns -> Nat] /\ inq \in [Conns -> Nat] /\ outq \in [Conns -> Nat]
  /\ lastRecvPos \in [Conns -> Nat] /\ served \in [Conns -> Nat]
  /\ MsgLen \in Nat

LEMMA FlowTypesHold == (IInv => FlowTypes) /\ (IInv' => FlowTypes')
<1>1. \A n : 0..n \subseteq Nat
  OBVIOUS
<1>2. IInv => FlowTypes
  BY <1>1, SocketsAssumption DEF FlowTypes, IInv, ServerTypeOK, SocketsTypeOK, CellTypeOK
<1>3. IInv' => FlowTypes'
  BY <1>1, SocketsAssumption DEF FlowTypes, IInv, ServerTypeOK, SocketsTypeOK, CellTypeOK
<1> QED BY <1>2, <1>3

LEMMA FlowQuietStep ==
  ASSUME FlowTypes, FlowTypes', Flow, FlowQuiet
  PROVE  Flow'
<1>1. EachFragmentOnce'
  BY DEF Flow, EachFragmentOnce, FlowQuiet, FlowTypes
<1>2. RepliesAnswerRequests'
  BY DEF Flow, RepliesAnswerRequests, FlowQuiet, FlowTypes
<1> QED BY <1>1, <1>2 DEF Flow

LEMMA FlowInit == Init => Flow
<1> SUFFICES ASSUME Init PROVE Flow
  OBVIOUS
<1>1. \A k \in Conns, places \in SUBSET {"send", "consume"} : ~Standing(k, places)
  BY SocketsAssumption DEF Init, CellInit, Standing
<1> QED BY <1>1, SocketsAssumption
        DEF Init, SocketsInit, CellInit, Flow, EachFragmentOnce, RepliesAnswerRequests

LEMMA FlowMain ==
  ASSUME IInv, FlowTypes', Flow, MainStep
  PROVE  Flow'
<1>1. UNCHANGED <<peer, sent, inq, outq, lastRecvPos, served, cur>>
  BY DEF MainStep, Listen, StartCell, Start, NoTick, Tick, GetMsgCount, ResetMsgCount,
     SelectAccept, SelectNothing, Accept, KAccept, AcceptFails, ReadSize, CompareCounts,
     AddClient, AddClientLock, PushClient, AddClientPush, CountClient
<1>2. CASE StartCell
  <2>1. cpc[idx] = "unborn" /\ cpc' = [cpc EXCEPT ![idx] = "top"] /\ idx \in Cells
    BY <1>2 DEF StartCell, Start, Goto, IInv, ServerTypeOK
  <2>2. cpc'[idx] = "top" /\ \A d \in Cells : d # idx => cpc'[d] = cpc[d]
    BY <2>1 DEF IInv, ServerTypeOK, CellTypeOK
  <2>3. \A k \in Conns, places \in SUBSET {"send", "consume"} :
          Standing(k, places)' <=> Standing(k, places)
    BY <1>1, <2>1, <2>2, StandingSame
  <2> QED BY <1>1, <2>3, FlowTypesHold, FlowQuietStep DEF FlowQuiet, FlowTypes
<1>3. CASE ~StartCell
  <2>1. UNCHANGED cpc
    BY <1>3 DEF MainStep, Listen, NoTick, Tick, GetMsgCount, ResetMsgCount, SelectAccept,
       SelectNothing, Accept, AcceptFails, ReadSize, CompareCounts, AddClient, AddClientLock,
       PushClient, AddClientPush, CountClient
  <2>2. FlowQuiet
    BY <1>1, <2>1, FlowTypesHold DEF FlowQuiet, Standing, FlowTypes
  <2> QED BY <2>2, FlowTypesHold, FlowQuietStep
<1> QED BY <1>2, <1>3

\* The steps of a worker outside recv_data move nothing; those that close or
\* erase a session do so to one whose connection is gone afterwards.
LEMMA FlowCellQuiet ==
  ASSUME IInv, FlowTypes', Flow, NEW c \in Cells, CellStep(c),
         ~RecvSome(c), ~OnNetMsg(c), ~SendData(c), ~ConsumeMsg(c)
  PROVE  Flow'
<1>1. \A d \in Cells : d # c => cpc'[d] = cpc[d] /\ cur'[d] = cur[d]
  BY DEF CellStep, OnRun, HandleRecv, RecvData, PeekBuff, LockBuff, MoveClient, ClearBuff,
     Sleep, SelectClients, SelectFails, VisitReadable, VisitDone, OnUserLeave, CloseSocket,
     EraseClient, RecvFails, RecvDataReturns, Goto, IInv, ServerTypeOK, CellTypeOK
<1>2. cpc[c] \notin {"send", "consume"} /\ cpc'[c] \notin {"send", "consume"}
  BY DEF CellStep, OnRun, HandleRecv, RecvData, PeekBuff, LockBuff, MoveClient, ClearBuff,
     Sleep, SelectClients, SelectFails, VisitReadable, VisitDone, OnUserLeave, CloseSocket,
     EraseClient, RecvFails, RecvDataReturns, Goto, IInv, ServerTypeOK, CellTypeOK
<1>3. \A k \in Conns, places \in SUBSET {"send", "consume"} :
        Standing(k, places)' <=> Standing(k, places)
  BY <1>1, <1>2, StandingSame
<1>4. CASE CloseSocket(c)
  <2>1. cpc[c] = "close"
    BY <1>4 DEF CloseSocket, Goto
  <2>2. owner[sockFd[cur[c]]] = cur[c]
    BY <2>1, CurFacts DEF Busy
  <2>3. UNCHANGED <<sent, lastRecvPos, served>> /\ KClose(sockFd[cur[c]])
    BY <1>4 DEF CloseSocket, KClose
  <2>4. \A k \in Conns : peer'[k] # "gone" =>
          /\ peer[k] # "gone" /\ inq'[k] = inq[k] /\ outq'[k] <= outq[k]
    BY <2>2, <2>3, FlowTypesHold DEF KClose, FlowTypes
  <2>5. FlowQuiet
    BY <1>3, <2>3, <2>4 DEF FlowQuiet
  <2> QED BY <2>5, FlowTypesHold, FlowQuietStep
<1>5. CASE EraseClient(c)
  <2>1. peer[cur[c]] = "gone" /\ UNCHANGED socketVars
    BY <1>5, EraseFacts
  <2>2. \A k \in Conns : k # cur[c] => lastRecvPos'[k] = lastRecvPos[k] /\ served'[k] = served[k]
    BY <1>5 DEF EraseClient, IInv, ServerTypeOK, CellTypeOK
  <2>3. \A k \in Conns : peer'[k] # "gone" =>
          /\ peer[k] # "gone" /\ k # cur[c]
          /\ sent'[k] = sent[k] /\ inq'[k] = inq[k] /\ outq'[k] <= outq[k]
    BY <2>1, FlowTypesHold DEF FlowTypes
  <2>4. FlowQuiet
    BY <1>3, <2>2, <2>3 DEF FlowQuiet
  <2> QED BY <2>4, FlowTypesHold, FlowQuietStep
<1>6. CASE ~CloseSocket(c) /\ ~EraseClient(c)
  <2>1. UNCHANGED <<peer, sent, inq, outq, lastRecvPos, served>>
    BY <1>6 DEF CellStep, OnRun, HandleRecv, RecvData, PeekBuff, LockBuff, MoveClient,
       ClearBuff, Sleep, SelectClients, SelectFails, VisitReadable, VisitDone, OnUserLeave,
       RecvFails, RecvDataReturns
  <2>2. FlowQuiet
    BY <1>3, <2>1, FlowTypesHold DEF FlowQuiet, FlowTypes
  <2> QED BY <2>2, FlowTypesHold, FlowQuietStep
<1> QED BY <1>4, <1>5, <1>6

\* The two properties for one connection, from what Standing amounts to: m and m1
\* are 1 while the message handled is in the buffer, a and a1 while its answer is
\* to be sent.
FlowOf(k, m, a) ==
  /\ sent[k] = inq[k] + lastRecvPos[k] + MsgLen * (served[k] - m)
  /\ outq[k] + a <= served[k]

LEMMA FlowOfDef ==
  /\ Flow <=> \A k \in Conns : peer[k] # "gone" =>
       FlowOf(k, IF Standing(k, {"send", "consume"}) THEN 1 ELSE 0,
                 IF Standing(k, {"send"}) THEN 1 ELSE 0)
  /\ Flow' <=> \A k \in Conns : peer'[k] # "gone" =>
       FlowOf(k, IF Standing(k, {"send", "consume"}) THEN 1 ELSE 0,
                 IF Standing(k, {"send"}) THEN 1 ELSE 0)'
BY DEF Flow, EachFragmentOnce, RepliesAnswerRequests, FlowOf

\* The steps of recv_data, at the session it is at.
LEMMA FlowData ==
  ASSUME IInv, FlowTypes', Flow, NEW c \in Cells,
         RecvSome(c) \/ OnNetMsg(c) \/ SendData(c) \/ ConsumeMsg(c)
  PROVE  Flow'
<1> DEFINE Handling == {"send", "consume"}
           Msg(j) == IF Standing(j, Handling) THEN 1 ELSE 0
           Ans(j) == IF Standing(j, {"send"}) THEN 1 ELSE 0
<1>a. FlowTypes
  BY FlowTypesHold
<1>b. /\ cpc[c] \in Busy /\ cur'[c] = cur[c]
      /\ \A d \in Cells : d # c => cpc'[d] = cpc[d] /\ cur'[d] = cur[d]
  BY DEF RecvSome, OnNetMsg, SendData, ConsumeMsg, Goto, IInv, ServerTypeOK, CellTypeOK, Busy
<1>c. PICK k \in Conns : k = cur[c]
  BY <1>b, CurFacts
<1>d. cur[c] = k /\ Wire(k) = k /\ k # None
  BY <1>b, <1>c, CurFacts, SocketsAssumption DEF RecvSome, OnNetMsg, SendData, ConsumeMsg, Goto
<1>e. /\ Msg(k) = IF cpc[c] \in Handling THEN 1 ELSE 0
      /\ Msg(k)' = IF cpc'[c] \in Handling THEN 1 ELSE 0
      /\ Ans(k) = IF cpc[c] = "send" THEN 1 ELSE 0
      /\ Ans(k)' = IF cpc'[c] = "send" THEN 1 ELSE 0
      /\ \A j \in Conns : j # k => Msg(j)' = Msg(j) /\ Ans(j)' = Ans(j)
  <2>1. Handling \in SUBSET {"send", "consume"} /\ {"send"} \in SUBSET {"send", "consume"}
    OBVIOUS
  <2> QED BY <1>b, <1>d, <2>1, StandingOf
<1>1. ASSUME NEW j \in Conns, j # k, peer'[j] # "gone"
      PROVE  FlowOf(j, Msg(j), Ans(j))'
  <2>1. /\ peer[j] # "gone" /\ sent'[j] = sent[j] /\ inq'[j] = inq[j] /\ outq'[j] = outq[j]
        /\ lastRecvPos'[j] = lastRecvPos[j] /\ served'[j] = served[j]
    <3>1. CASE RecvSome(c)
      BY <1>1, <1>d, <3>1, RecvSomeFacts DEF RecvSome, KRecv, IInv, ServerTypeOK, SocketsTypeOK, CellTypeOK
    <3>2. CASE OnNetMsg(c)
      BY <1>1, <3>2, <1>d DEF OnNetMsg, IInv, ServerTypeOK, CellTypeOK
    <3>3. CASE SendData(c)
      BY <1>1, <3>3, <1>d DEF SendData, KSend, IInv, ServerTypeOK, SocketsTypeOK
    <3>4. CASE ConsumeMsg(c)
      BY <1>1, <3>4, <1>d DEF ConsumeMsg, IInv, ServerTypeOK, CellTypeOK
    <3> QED BY <3>1, <3>2, <3>3, <3>4
  <2>2. FlowOf(j, Msg(j), Ans(j))
    BY <1>1, <2>1, FlowOfDef
  <2> QED BY <1>e, <1>1, <2>1, <2>2 DEF FlowOf
<1>2. ASSUME peer'[k] # "gone"
      PROVE  FlowOf(k, Msg(k), Ans(k))'
  <2>a. peer[k] # "gone"
    BY <1>2, <1>d DEF RecvSome, KRecv, OnNetMsg, SendData, KSend, ConsumeMsg, IInv, ServerTypeOK, SocketsTypeOK
  <2>b. FlowOf(k, Msg(k), Ans(k))
    BY <1>d, <2>a, FlowOfDef
  <2>c. /\ sent[k] \in Nat /\ inq[k] \in Nat /\ outq[k] \in Nat
        /\ lastRecvPos[k] \in Nat /\ served[k] \in Nat /\ MsgLen \in Nat
    BY <1>a, <1>d DEF FlowTypes
  <2>1. CASE RecvSome(c)
    <3> DEFINE n == IF inq[k] < Chunk THEN inq[k] ELSE Chunk
    <3>1. /\ inq'[k] = inq[k] - n /\ lastRecvPos'[k] = lastRecvPos[k] + n /\ n \in 1..Chunk
          /\ cpc[c] = "recv" /\ cpc'[c] = "dispatch"
      BY <1>d, <2>1, RecvSomeFacts DEF IInv, ServerTypeOK, SocketsTypeOK, CellTypeOK
    <3>2. UNCHANGED <<sent, outq, served>>
      BY <2>1, RecvSomeFacts DEF RecvSome, KRecv
    <3>3. Msg(k) = 0 /\ Msg(k)' = 0 /\ Ans(k) = 0 /\ Ans(k)' = 0
      BY <1>e, <3>1
    <3> HIDE DEF Msg, Ans, n
    <3>4. n \in Int
      BY <3>1
    <3> QED BY <2>b, <2>c, <3>1, <3>2, <3>3, <3>4 DEF FlowOf
  <2>2. CASE OnNetMsg(c)
    <3>1. /\ served'[k] = served[k] + 1 /\ UNCHANGED <<sent, inq, outq, lastRecvPos>>
          /\ cpc[c] = "dispatch" /\ cpc'[c] \in Handling
      BY <1>d, <2>2 DEF OnNetMsg, Goto, IInv, ServerTypeOK, CellTypeOK
    <3>2. Msg(k) = 0 /\ Msg(k)' = 1 /\ Ans(k) = 0 /\ Ans(k)' \in {0, 1}
      BY <1>e, <3>1
    <3> HIDE DEF Msg, Ans
    <3>3. served[k] + 1 - 1 = served[k] - 0
      BY <2>c
    <3> QED BY <2>b, <2>c, <3>1, <3>2, <3>3 DEF FlowOf
  <2>3. CASE SendData(c)
    <3>1. /\ outq'[k] = outq[k] \/ outq'[k] = outq[k] + 1
          /\ UNCHANGED <<sent, inq, lastRecvPos, served>>
          /\ cpc[c] = "send" /\ cpc'[c] = "consume"
      BY <1>d, <2>3 DEF SendData, KSend, Goto, IInv, ServerTypeOK, SocketsTypeOK, CellTypeOK
    <3>2. Msg(k) = 1 /\ Msg(k)' = 1 /\ Ans(k) = 1 /\ Ans(k)' = 0
      BY <1>e, <3>1
    <3> HIDE DEF Msg, Ans
    <3> QED BY <2>b, <2>c, <3>1, <3>2 DEF FlowOf
  <2>4. CASE ConsumeMsg(c)
    <3>1. /\ lastRecvPos'[k] = lastRecvPos[k] - MsgLen /\ UNCHANGED <<sent, inq, outq, served>>
          /\ cpc[c] = "consume" /\ cpc'[c] = "dispatch"
      BY <1>d, <2>4 DEF ConsumeMsg, Goto, IInv, ServerTypeOK, CellTypeOK
    <3>2. Msg(k) = 1 /\ Msg(k)' = 0 /\ Ans(k) = 0 /\ Ans(k)' = 0
      BY <1>e, <3>1
    <3> HIDE DEF Msg, Ans
    <3>3. MsgLen * (served[k] - 1) = MsgLen * served[k] - MsgLen /\ MsgLen * served[k] \in Nat
      BY <2>c
    <3>4. served[k] - 0 = served[k]
      BY <2>c
    <3> QED BY <2>b, <2>c, <3>1, <3>2, <3>3, <3>4 DEF FlowOf
  <2> QED BY <2>1, <2>2, <2>3, <2>4
<1> QED BY <1>1, <1>2, FlowOfDef

LEMMA FlowPeer ==
  ASSUME IInv, FlowTypes', Flow, NEW k \in Conns, PeerStep(k),
         UNCHANGED <<cellVars, acceptorVars>>
  PROVE  Flow'
<1>1. \A j \in Conns, places \in SUBSET {"send", "consume"} :
        Standing(j, places)' <=> Standing(j, places)
  BY DEF Standing
<1>2. CASE PeerSend(k)
  <2>1. UNCHANGED <<peer, outq, lastRecvPos, served>>
    BY <1>2 DEF PeerSend
  <2>2. \A j \in Conns : \/ sent'[j] = sent[j] /\ inq'[j] = inq[j]
                         \/ sent'[j] = sent[j] + 1 /\ inq'[j] = inq[j] + 1
    BY <1>2 DEF PeerSend, IInv, ServerTypeOK, SocketsTypeOK
  <2>3. ASSUME NEW j \in Conns, peer'[j] # "gone"
        PROVE  FlowOf(j, IF Standing(j, {"send", "consume"}) THEN 1 ELSE 0,
                         IF Standing(j, {"send"}) THEN 1 ELSE 0)'
    <3> DEFINE m == IF Standing(j, {"send", "consume"}) THEN 1 ELSE 0
               a == IF Standing(j, {"send"}) THEN 1 ELSE 0
    <3>1. FlowOf(j, m, a) /\ m' = m /\ a' = a /\ m \in Nat
      BY <1>1, <2>1, <2>3, FlowOfDef
    <3>2. /\ sent[j] \in Nat /\ inq[j] \in Nat /\ lastRecvPos[j] \in Nat
          /\ MsgLen * (served[j] - m) \in Int
      BY <3>1, FlowTypesHold DEF FlowTypes
    <3> HIDE DEF m, a
    <3>3. served'[j] = served[j] /\ lastRecvPos'[j] = lastRecvPos[j] /\ outq'[j] = outq[j]
      BY <2>1
    <3>4. sent[j] = inq[j] + lastRecvPos[j] + MsgLen * (served[j] - m) /\ outq[j] + a <= served[j]
      BY <3>1 DEF FlowOf
    <3>5. sent'[j] = inq'[j] + lastRecvPos[j] + MsgLen * (served[j] - m)
      BY <2>2, <3>2, <3>4
    <3>6. FlowOf(j, m, a)'
      BY <3>1, <3>3, <3>4, <3>5 DEF FlowOf
    <3> QED BY <3>6 DEF m, a
  <2> QED BY <2>3, FlowOfDef
<1>3. CASE PeerConnect(k) \/ PeerRead(k) \/ PeerClose(k)
  <2>1. UNCHANGED <<sent, inq, lastRecvPos, served>>
    BY <1>3 DEF PeerConnect, PeerRead, PeerClose
  <2>2. \A j \in Conns : peer'[j] # "gone" => peer[j] # "gone" /\ outq'[j] <= outq[j]
    BY <1>3, FlowTypesHold DEF PeerConnect, PeerRead, PeerClose, FlowTypes, IInv, ServerTypeOK, SocketsTypeOK
  <2>3. FlowQuiet
    BY <1>1, <2>1, <2>2 DEF FlowQuiet
  <2> QED BY <2>3, FlowTypesHold, FlowQuietStep
<1> QED BY <1>2, <1>3 DEF PeerStep

LEMMA FlowNext == IInv /\ Flow /\ [Next]_vars => Flow'
<1> SUFFICES ASSUME IInv, Flow, [Next]_vars PROVE Flow'
  OBVIOUS
<1>1. FlowTypes /\ FlowTypes'
  BY NextInv, FlowTypesHold
<1>2. CASE MainStep
  BY <1>1, <1>2, FlowMain
<1>3. ASSUME NEW c \in Cells, CellStep(c) PROVE Flow'
  BY <1>1, <1>3, FlowCellQuiet, FlowData
<1>4. ASSUME NEW k \in Conns, PeerStep(k), UNCHANGED <<cellVars, acceptorVars>> PROVE Flow'
  BY <1>1, <1>4, FlowPeer
<1>5. CASE UNCHANGED vars
  BY <1>5 DEF vars, Flow, EachFragmentOnce, RepliesAnswerRequests, Standing
<1> QED BY <1>2, <1>3, <1>4, <1>5 DEF Next

\* What a client sends is handled once, or still there to be handled.
THEOREM EachFragmentOnceHolds == Spec => []EachFragmentOnce
<1>1. Flow => EachFragmentOnce
  BY DEF Flow
<1> QED BY Invariance, FlowInit, FlowNext, <1>1, PTL DEF Spec

\* What a client is sent answers what it has sent.
THEOREM RepliesAnswerRequestsHolds == Spec => []RepliesAnswerRequests
<1>1. Flow => RepliesAnswerRequests
  BY DEF Flow
<1> QED BY Invariance, FlowInit, FlowNext, <1>1, PTL DEF Spec

-----------------------------------------------------------------------------
(* The number of clients.                                                  *)

\* The sessions _client_count is about.
Counted == InCells \ UNION {Leaving(c) : c \in Cells}

LEMMA CountedDef ==
  ASSUME NEW k
  PROVE  k \in Counted <=> /\ \E c \in Cells : k \in Held(c)
                           /\ \A c \in Cells : ~(cpc[c] \in {"close", "erase"} /\ cur[c] = k)
BY DEF Counted, InCells, Leaving

LEMMA CountedFinite == IInv => IsFiniteSet(Counted) /\ Cardinality(Counted) \in Nat
<1> SUFFICES ASSUME IInv PROVE IsFiniteSet(Counted) /\ Cardinality(Counted) \in Nat
  OBVIOUS
<1>1. Counted \subseteq Conns
  BY CountedDef, HeldConns DEF IInv
<1> QED BY <1>1, FS_Subset, FS_CardinalityType, SocketsAssumption

LEMMA CountInit == Init => CountExact
<1> SUFFICES ASSUME Init PROVE CountExact
  OBVIOUS
<1>1. InCells = {}
  BY DEF Init, CellInit, InCells, Held
<1> QED BY <1>1, FS_EmptySet DEF Init, CellInit, CountExact

\* A step that counts nobody, and after which the same sessions are to be counted.
CountQuiet ==
  /\ UNCHANGED clientCount
  /\ apc = "count" <=> apc' = "count"
  /\ Counted' = Counted

LEMMA CountQuietStep ==
  ASSUME CountExact, CountQuiet
  PROVE  CountExact'
BY DEF CountExact, CountQuiet, Counted

\* If no cell gains or loses a session and none passes on_user_leave.
LEMMA CountedSame ==
  ASSUME \A d \in Cells : Held(d)' = Held(d),
         \A d \in Cells : cpc[d] \in {"close", "erase"} \/ cpc'[d] \in {"close", "erase"}
                            => /\ {cpc[d], cpc'[d]} \subseteq {"close", "erase"}
                               /\ cur'[d] = cur[d]
  PROVE  Counted' = Counted
<1>1. InCells' = InCells
  BY DEF InCells
<1>2. \A d \in Cells : Leaving(d)' = Leaving(d)
  BY DEF Leaving
<1> QED BY <1>1, <1>2 DEF Counted

LEMMA CountMain ==
  ASSUME IInv, CountExact, MainStep
  PROVE  CountExact'
<1>0. clientCount \in Int
  BY DEF IInv, ServerTypeOK, CellTypeOK
<1>1. CASE PushClient
  <2>1. hand \notin Counted
    BY <1>1, PushFacts, CountedDef
  <2>2. Counted' = Counted \cup {hand}
    <3>1. InCells' = InCells \cup {hand}
      BY <1>1, PushFacts DEF InCells
    <3>2. \A d \in Cells : Leaving(d)' = Leaving(d)
      BY <1>1, PushFacts DEF Leaving
    <3>3. \A d \in Cells : hand \notin Leaving(d)
      <4>1. \A d \in Cells : cpc[d] \in Busy => cur[d] \in Held(d)
        BY CurFacts
      <4> QED BY <4>1, <1>1, PushFacts DEF Leaving, Busy
    <3> QED BY <3>1, <3>2, <3>3 DEF Counted
  <2>3. Cardinality(Counted') = Cardinality(Counted) + 1
    BY <2>1, <2>2, CountedFinite, FS_AddElement
  <2>4. clientCount' = clientCount /\ apc = "push" /\ apc' = "count"
    BY <1>1 DEF PushClient, AddClientPush, AGoto
  <2> QED BY <1>0, <2>3, <2>4, CountedFinite DEF CountExact, Counted
<1>2. CASE CountClient
  <2>1. Counted' = Counted
    BY <1>2 DEF CountClient, Counted, InCells, Held, Leaving
  <2>2. clientCount' = clientCount + 1 /\ apc = "count" /\ apc' = "run"
    BY <1>2 DEF CountClient, AGoto
  <2>3. Cardinality(Counted') = Cardinality(Counted)
    BY <2>1
  <2> QED BY <1>0, <2>2, <2>3, CountedFinite DEF CountExact, Counted
<1>3. CASE ~PushClient /\ ~CountClient
  <2>1. \A d \in Cells : Held(d)' = Held(d)
    BY <1>3, MainHeld
  <2>2. /\ UNCHANGED <<clientCount, cur>>
        /\ apc # "count" /\ apc' # "count"
    BY <1>3 DEF MainStep, Listen, StartCell, Start, NoTick, Tick, GetMsgCount,
       ResetMsgCount, SelectAccept, SelectNothing, Accept, AcceptFails, ReadSize,
       CompareCounts, AddClient, AddClientLock, AGoto, NextCell
  <2>3. UNCHANGED cpc \/ (cpc[idx] = "unborn" /\ cpc' = [cpc EXCEPT ![idx] = "top"])
    BY <1>3 DEF MainStep, Listen, StartCell, Start, Goto, NoTick, Tick, GetMsgCount,
       ResetMsgCount, SelectAccept, SelectNothing, Accept, AcceptFails, ReadSize,
       CompareCounts, AddClient, AddClientLock
  <2>4. Counted' = Counted
    <3>1. \A d \in Cells : cpc[d] \in {"close", "erase"} \/ cpc'[d] \in {"close", "erase"}
                             => cpc'[d] = cpc[d] /\ cur'[d] = cur[d]
      BY <2>2, <2>3 DEF IInv, ServerTypeOK, CellTypeOK
    <3> QED BY <3>1, <2>1, CountedSame
  <2> QED BY <2>2, <2>4, CountQuietStep DEF CountQuiet
<1> QED BY <1>1, <1>2, <1>3

LEMMA CountCell ==
  ASSUME IInv, CountExact, NEW c \in Cells, CellStep(c), UNCHANGED acceptorVars
  PROVE  CountExact'
<1>0. clientCount \in Int
  BY DEF IInv, ServerTypeOK, CellTypeOK
<1>1. CASE OnUserLeave(c)
  <2>1. /\ cpc[c] = "leave" /\ cpc'[c] = "close" /\ clientCount' = clientCount - 1
        /\ \A d \in Cells : d # c => cpc'[d] = cpc[d]
        /\ UNCHANGED <<clients, clientsBuff, cur>>
    BY <1>1 DEF OnUserLeave, Goto, IInv, ServerTypeOK, CellTypeOK
  <2>2. cur[c] \in Held(c) /\ \A d \in Cells : d # c => cur[c] \notin Held(d)
    BY <2>1, CurFacts DEF Busy
  <2>3. \A d \in Cells : cpc[d] \in {"close", "erase"} => cur[d] # cur[c]
    BY <2>1, <2>2, CurFacts DEF Busy
  <2>4. cur[c] \in Counted
    BY <2>2, <2>3, CountedDef
  <2>5. Counted' = Counted \ {cur[c]}
    <3>1. InCells' = InCells
      BY <2>1 DEF InCells, Held
    <3>2. /\ Leaving(c)' = {cur[c]} /\ Leaving(c) = {}
          /\ \A d \in Cells : d # c => Leaving(d)' = Leaving(d)
      BY <2>1 DEF Leaving
    <3> QED BY <3>1, <3>2 DEF Counted
  <2>6. Cardinality(Counted') = Cardinality(Counted) - 1
    BY <2>4, <2>5, CountedFinite, FS_RemoveElement
  <2> QED BY <1>0, <2>1, <2>6, CountedFinite DEF CountExact, Counted
<1>2. CASE EraseClient(c)
  <2>1. Counted' = Counted
    <3>1. InCells' = InCells \ {cur[c]}
      BY <1>2, EraseFacts DEF InCells
    <3>2. /\ Leaving(c) = {cur[c]} /\ Leaving(c)' = {}
          /\ \A d \in Cells : d # c => Leaving(d)' = Leaving(d)
      BY <1>2, EraseFacts DEF Leaving
    <3> QED BY <3>1, <3>2 DEF Counted
  <2> QED BY <1>2, <2>1, EraseFacts, CountQuietStep DEF CountQuiet
<1>3. CASE ~OnUserLeave(c) /\ ~EraseClient(c)
  <2>1. \A d \in Cells : Held(d)' = Held(d)
    BY <1>3, CellHeld
  <2>2. UNCHANGED clientCount
    BY <1>3 DEF CellStep, OnRun, HandleRecv, RecvData, PeekBuff, LockBuff, MoveClient,
       ClearBuff, Sleep, SelectClients, SelectFails, VisitReadable, VisitDone, CloseSocket,
       RecvSome, RecvFails, OnNetMsg, SendData, ConsumeMsg, RecvDataReturns
  <2>3. ASSUME NEW d \in Cells,
               cpc[d] \in {"close", "erase"} \/ cpc'[d] \in {"close", "erase"}
        PROVE  /\ {cpc[d], cpc'[d]} \subseteq {"close", "erase"}
               /\ cur'[d] = cur[d]
    <3>1. CASE CloseSocket(c)
      BY <2>3, <3>1 DEF CloseSocket, Goto, IInv, ServerTypeOK, CellTypeOK
    <3>2. CASE ~CloseSocket(c)
      <4>1. /\ cpc[c] \notin {"close", "erase"} /\ cpc'[c] \notin {"close", "erase"}
            /\ c # d => cpc'[d] = cpc[d] /\ cur'[d] = cur[d]
        <5>1. CASE OnRun(c)
          BY <5>1 DEF OnRun, PeekBuff, LockBuff, MoveClient, ClearBuff, Sleep, SelectClients,
             SelectFails, Goto, IInv, ServerTypeOK, CellTypeOK
        <5>2. CASE HandleRecv(c)
          BY <5>2, <1>3, <3>2 DEF HandleRecv, VisitReadable, VisitDone, Goto, IInv, ServerTypeOK,
             CellTypeOK
        <5>3. CASE RecvData(c)
          BY <5>3 DEF RecvData, RecvSome, RecvFails, OnNetMsg, SendData, ConsumeMsg,
             RecvDataReturns, Goto, IInv, ServerTypeOK, CellTypeOK
        <5> QED BY <5>1, <5>2, <5>3 DEF CellStep
      <4> QED BY <4>1, <2>3
    <3> QED BY <3>1, <3>2
  <2>4. Counted' = Counted
    BY <2>1, <2>3, CountedSame
  <2> QED BY <2>2, <2>4, CountQuietStep DEF CountQuiet
<1> QED BY <1>1, <1>2, <1>3

\* _client_count never drifts, however increments, decrements, arrivals and
\* departures interleave, and whatever system calls fail.
THEOREM CountExactHolds == Spec => []CountExact
<1>1. IInv /\ CountExact /\ [Next]_vars => CountExact'
  <2> SUFFICES ASSUME IInv, CountExact, [Next]_vars PROVE CountExact'
    OBVIOUS
  <2>1. ASSUME NEW k \in Conns, PeerStep(k), UNCHANGED <<cellVars, acceptorVars>>
        PROVE  CountExact'
    BY <2>1 DEF CountExact, InCells, Held, Leaving
  <2>2. CASE UNCHANGED vars
    BY <2>2 DEF vars, CountExact, InCells, Held, Leaving
  <2> QED BY <2>1, <2>2, CountMain, CountCell DEF Next
<1> QED BY Invariance, CountInit, <1>1, PTL DEF Spec

-----------------------------------------------------------------------------
(* The server implements ClientRegistry.                                   *)

LEMMA RegistryInitHolds == Init => Registry!RegistryInit
<1> SUFFICES ASSUME Init PROVE Registry!RegistryInit
  OBVIOUS
<1>1. linkOf = [k \in Conns |-> "none"]
  BY DEF Init, SocketsInit, linkOf
<1>2. heldBy = [c \in Cells |-> {}]
  BY DEF Init, CellInit, heldBy, Held
<1>3. erased = {}
  BY DEF Init, SocketsInit, erased
<1> QED BY <1>1, <1>2, <1>3 DEF Registry!RegistryInit

\* A step the registry does not see.
Unseen ==
  /\ \A d \in Cells : Held(d)' = Held(d)
  /\ \A k \in Conns : /\ peer[k] = "idle" <=> peer'[k] = "idle"
                      /\ peer[k] = "open" <=> peer'[k] = "open"
                      /\ peer[k] = "gone" \/ peer'[k] = "gone" =>
                           peer'[k] = peer[k] \/ k \in InCells

LEMMA UnseenStutters ==
  ASSUME Unseen
  PROVE  UNCHANGED <<linkOf, heldBy, erased>>
<1>1. UNCHANGED linkOf
  BY DEF Unseen, linkOf
<1>2. UNCHANGED heldBy /\ InCells' = InCells
  BY DEF Unseen, heldBy, InCells
<1>3. UNCHANGED erased
  BY <1>2 DEF Unseen, erased
<1> QED BY <1>1, <1>2, <1>3

LEMMA RegistryMain ==
  ASSUME IInv, MainStep
  PROVE  [Registry!RegistryNext]_(Registry!registryVars)
<1>1. CASE PushClient
  <2>1. /\ hand \in Conns /\ minCell \in Cells /\ peer' = peer /\ peer[hand] \in Linked
        /\ \A d \in Cells : hand \notin Held(d)
    BY <1>1, PushFacts DEF IInv, Pending
  <2>2. UNCHANGED linkOf
    BY <2>1 DEF linkOf
  <2>3. heldBy' = [heldBy EXCEPT ![minCell] = @ \cup {hand}]
    BY <1>1, PushFacts DEF heldBy
  <2>4. InCells' = InCells \cup {hand}
    BY <1>1, PushFacts DEF InCells
  <2>5. UNCHANGED erased /\ hand \notin erased
    BY <2>1, <2>4 DEF erased, Linked
  <2>6. linkOf[hand] # "none"
    BY <2>1 DEF linkOf, Linked
  <2>7. hand \notin UNION {heldBy[d] : d \in Cells}
    BY <2>1 DEF heldBy
  <2>8. Registry!Join(hand, minCell)
    BY <2>2, <2>3, <2>5, <2>6, <2>7 DEF Registry!Join, Registry!Waiting
  <2> QED BY <2>1, <2>8 DEF Registry!RegistryNext
<1>2. CASE ~PushClient
  <2>1. UNCHANGED peer
    BY <1>2 DEF MainStep, Listen, StartCell, NoTick, Tick, GetMsgCount, ResetMsgCount,
       SelectAccept, SelectNothing, Accept, KAccept, AcceptFails, ReadSize, CompareCounts,
       AddClient, CountClient
  <2>2. Unseen
    BY <1>2, <2>1, MainHeld DEF Unseen
  <2> QED BY <2>2, UnseenStutters DEF Registry!registryVars
<1> QED BY <1>1, <1>2

LEMMA RegistryCell ==
  ASSUME IInv, NEW c \in Cells, CellStep(c)
  PROVE  [Registry!RegistryNext]_(Registry!registryVars)
<1>1. CASE EraseClient(c)
  <2> DEFINE k == cur[c]
  <2>1. /\ k \in Conns /\ k \in Held(c) /\ peer' = peer /\ peer[k] = "gone"
        /\ \A d \in Cells : d # c => k \notin Held(d)
        /\ Held(c)' = Held(c) \ {k}
        /\ \A d \in Cells : d # c => Held(d)' = Held(d)
    BY <1>1, EraseFacts
  <2>2. UNCHANGED linkOf /\ linkOf[k] = "down"
    BY <2>1 DEF linkOf
  <2>3. heldBy' = [heldBy EXCEPT ![c] = @ \ {k}] /\ k \in heldBy[c]
    BY <2>1 DEF heldBy
  <2>4. InCells' = InCells \ {k} /\ k \in InCells
    BY <2>1 DEF InCells
  <2>5. erased' = erased \cup {k}
    BY <2>1, <2>4 DEF erased
  <2>6. Registry!Leave(k, c)
    BY <2>2, <2>3, <2>5 DEF Registry!Leave
  <2> QED BY <2>1, <2>6 DEF Registry!RegistryNext
<1>2. CASE CloseSocket(c)
  <2>1. cpc[c] = "close"
    BY <1>2 DEF CloseSocket, Goto
  <2>2. /\ cur[c] \in Conns /\ cur[c] \in Held(c) /\ owner[sockFd[cur[c]]] = cur[c]
        /\ peer[cur[c]] \in {"closed", "reset"}
    BY <2>1, CurFacts DEF IInv, PeerOf, Busy, Closed, Linked
  <2>3. peer' = [i \in Conns |-> IF i = cur[c] THEN "gone" ELSE peer[i]]
    BY <1>2, <2>2 DEF CloseSocket, KClose
  <2>4. \A d \in Cells : Held(d)' = Held(d)
    BY <1>2 DEF CloseSocket, Held
  <2>5. cur[c] \in InCells
    BY <2>2 DEF InCells
  <2>6. Unseen
    BY <2>2, <2>3, <2>4, <2>5 DEF Unseen
  <2> QED BY <2>6, UnseenStutters DEF Registry!registryVars
<1>3. CASE ~EraseClient(c) /\ ~CloseSocket(c)
  <2>1. \A k \in Conns : \/ peer'[k] = peer[k]
                         \/ {peer[k], peer'[k]} \subseteq {"closed", "reset"}
    <3>1. CASE SendData(c)
      BY <3>1 DEF SendData, KSend, IInv, ServerTypeOK, SocketsTypeOK
    <3>2. CASE ~SendData(c)
      <4>1. UNCHANGED peer
        BY <1>3, <3>2 DEF CellStep, OnRun, HandleRecv, RecvData, PeekBuff, LockBuff,
           MoveClient, ClearBuff, Sleep, SelectClients, SelectFails, VisitReadable,
           VisitDone, OnUserLeave, RecvSome, KRecv, RecvFails, OnNetMsg, ConsumeMsg,
           RecvDataReturns
      <4> QED BY <4>1
    <3> QED BY <3>1, <3>2
  <2>2. Unseen
    BY <1>3, <2>1, CellHeld DEF Unseen
  <2> QED BY <2>2, UnseenStutters DEF Registry!registryVars
<1> QED BY <1>1, <1>2, <1>3

LEMMA RegistryPeer ==
  ASSUME IInv, NEW k \in Conns, PeerStep(k), UNCHANGED <<cellVars, acceptorVars>>
  PROVE  [Registry!RegistryNext]_(Registry!registryVars)
<1>1. UNCHANGED heldBy /\ InCells' = InCells /\ \A d \in Cells : Held(d)' = Held(d)
  BY DEF heldBy, InCells, Held
<1>2. peer \in [Conns -> PeerStates]
  BY DEF IInv, ServerTypeOK, SocketsTypeOK
<1>3. CASE PeerConnect(k)
  <2>1. peer[k] = "idle" /\ peer' = [peer EXCEPT ![k] = "open"]
    BY <1>3 DEF PeerConnect
  <2>2. linkOf[k] = "none" /\ linkOf' = [linkOf EXCEPT ![k] = "up"]
    BY <1>2, <2>1 DEF linkOf
  <2>3. UNCHANGED erased
    BY <1>1, <1>2, <2>1 DEF erased
  <2> QED BY <1>1, <2>2, <2>3 DEF Registry!Connect, Registry!RegistryNext
<1>4. CASE PeerClose(k)
  <2>1. peer[k] = "open" /\ \E s \in {"reset", "closed"} : peer' = [peer EXCEPT ![k] = s]
    BY <1>4 DEF PeerClose
  <2>2. linkOf[k] = "up" /\ linkOf' = [linkOf EXCEPT ![k] = "down"]
    BY <1>2, <2>1 DEF linkOf
  <2>3. UNCHANGED erased
    BY <1>1, <1>2, <2>1 DEF erased
  <2> QED BY <1>1, <2>2, <2>3 DEF Registry!Disconnect, Registry!RegistryNext
<1>5. CASE PeerSend(k) \/ PeerRead(k)
  <2>1. Unseen
    BY <1>1, <1>5 DEF PeerSend, PeerRead, Unseen
  <2> QED BY <2>1, UnseenStutters DEF Registry!registryVars
<1> QED BY <1>3, <1>4, <1>5 DEF PeerStep

\* The whole server, with its threads, vectors and descriptors, implements the
\* registry: a client joins one cell, and leaves it once, after it is gone.
THEOREM RegistryRefinement == Spec => ImplementsRegistry
<1>1. IInv /\ [Next]_vars => [Registry!RegistryNext]_(Registry!registryVars)
  <2> SUFFICES ASSUME IInv, [Next]_vars
               PROVE  [Registry!RegistryNext]_(Registry!registryVars)
    OBVIOUS
  <2>1. CASE UNCHANGED vars
    <3>1. Unseen
      BY <2>1 DEF vars, Unseen, Held
    <3> QED BY <3>1, UnseenStutters DEF Registry!registryVars
  <2> QED BY <2>1, RegistryMain, RegistryCell, RegistryPeer DEF Next
<1> QED BY Invariance, RegistryInitHolds, <1>1, PTL
        DEF Spec, ImplementsRegistry, Registry!RegistrySpec
=============================================================================
