--------------------------- MODULE EasyTcpServer ---------------------------
(***************************************************************************)
(* EasyTcpServer (easy_tcp_server.hpp) as tcp_server/main.cpp drives it,   *)
(* together with its CellServer threads: the main thread opens the         *)
(* listening socket, starts the cells, and then, in a loop, prints the     *)
(* statistics and accepts one connection at a time, which it gives to the  *)
(* cell with the fewest clients.                                           *)
(***************************************************************************)
EXTENDS CellServer

CONSTANT MaxTicks   \* bound: how often time4msg finds a second elapsed

ASSUME EasyTcpServerAssumption == MaxTicks \in Nat

VARIABLES
  apc,       \* control state of the main thread
  idx,       \* the cell its running loop is at
  hand,      \* the connection just accepted and not yet in a cell, or None
  minCell,   \* min_cell_server
  seen,      \* the sizes add_client2cell_server has read, NotRead where not yet
  ticks,     \* seconds time4msg has counted
  reported,  \* history: messages of cell c that time4msg has added up
  missed     \* history: messages cell c has handled since time4msg read its
             \* counter and before it reset it

acceptorVars == <<apc, idx, hand, minCell, seen, ticks, reported>>
scanVars == <<idx, minCell, seen>>
statVars == <<ticks, reported>>
vars == <<socketVars, cellVars, acceptorVars, missed>>

AcceptorStates == {"listen", "start", "run", "get", "reset", "select",
                   "accept", "scan", "add", "push", "count", "exit"}

\* The four vector sizes that one comparison of two client counts reads.
Slots == {"minClients", "minBuff", "curClients", "curBuff"}
NotRead == -1
NothingRead == [s \in Slots |-> NotRead]

ServerTypeOK ==
  /\ SocketsTypeOK
  /\ CellTypeOK
  /\ apc \in AcceptorStates
  /\ idx \in Cells
  /\ hand \in Conns \cup {None}
  /\ minCell \in Cells
  /\ seen \in [Slots -> Nat \cup {NotRead}]
  /\ ticks \in 0..MaxTicks
  /\ reported \in [Cells -> Nat]

TypeOK == ServerTypeOK /\ missed \in [Cells -> Nat]

Init ==
  /\ SocketsInit
  /\ CellInit
  /\ apc = "listen"
  /\ idx = 1
  /\ hand = None
  /\ minCell = 1
  /\ seen = NothingRead
  /\ ticks = 0
  /\ reported = [c \in Cells |-> 0]
  /\ missed = [c \in Cells |-> 0]

AGoto(from, to) == apc = from /\ apc' = to

\* The running loop goes on to its next cell, or ends and control is at `end`.
NextCell(from, again, end) ==
  /\ AGoto(from, IF idx < CELL_THREAD_COUNT THEN again ELSE end)
  /\ idx' = IF idx < CELL_THREAD_COUNT THEN idx + 1 ELSE 1

-----------------------------------------------------------------------------
(* listen and start.                                                       *)

\* socket(), bind() and listen(), whose results main does not look at.  When
\* socket() fails there is nothing to start, and main comes to its end; when
\* bind() or listen() fails the server runs all the same.
Listen ==
  /\ \/ AGoto("listen", "start") /\ listening' = TRUE /\ UNCHANGED faults
     \/ AGoto("listen", "start") /\ Fault /\ UNCHANGED listening
     \/ AGoto("listen", "exit") /\ Fault /\ UNCHANGED listening
  /\ UNCHANGED <<peer, backlog, owner, inq, outq, sent>>
  /\ UNCHANGED <<lists, cpc, locals, session, counters, alive>>
  /\ UNCHANGED <<hand, scanVars, statVars>>

StartCell ==
  /\ NextCell("start", "start", "run")
  /\ Start(idx)
  /\ UNCHANGED <<socketVars, hand, minCell, seen, statVars>>

-----------------------------------------------------------------------------
(* on_run and time4msg.                                                    *)

\* Less than a second has passed.
NoTick ==
  /\ AGoto("run", "select")
  /\ UNCHANGED <<socketVars, cellVars, hand, scanVars, statVars>>

Tick ==
  /\ AGoto("run", "get")
  /\ ticks < MaxTicks
  /\ ticks' = ticks + 1
  /\ UNCHANGED <<socketVars, cellVars, hand, scanVars, reported>>

GetMsgCount ==
  /\ AGoto("get", "reset")
  /\ reported' = [reported EXCEPT ![idx] = @ + msgCount[idx]]
  /\ UNCHANGED <<socketVars, cellVars, hand, scanVars, ticks>>

\* Mutant: time4msg never resets the counters.
ResetForgotten ==
  /\ NextCell("reset", "get", "select")
  /\ UNCHANGED <<socketVars, cellVars, hand, minCell, seen, statVars>>

ResetMsgCount ==
  /\ NextCell("reset", "get", "select")
  /\ msgCount' = [msgCount EXCEPT ![idx] = 0]
  /\ UNCHANGED <<socketVars, lists, cpc, locals, session, process>>
  /\ UNCHANGED <<handled, clientCount, hand, minCell, seen, statVars>>

\* select() on the listening socket reports a waiting connection, or that the
\* socket does not listen.
SelectAccept ==
  /\ AGoto("select", "accept")
  /\ backlog # {} \/ ~listening
  /\ UNCHANGED <<socketVars, cellVars, hand, scanVars, statVars>>

\* It times out, or fails: main calls on_run again in either case.
SelectNothing ==
  /\ AGoto("select", "run")
  /\ IF backlog = {} THEN UNCHANGED faults ELSE Fault
  /\ UNCHANGED <<lists, cpc, locals, session, counters, alive>>
  /\ UNCHANGED <<socketVars, hand, scanVars, statVars>>

-----------------------------------------------------------------------------
(* accept and add_client2cell_server.                                      *)

\* The search starts at the second cell: comparing the first with itself
\* cannot change the choice.
Accept ==
  /\ AGoto("accept", IF CELL_THREAD_COUNT = 1 THEN "add" ELSE "scan")
  /\ \E k \in Conns, f \in Fds :
       /\ KAccept(k, f)
       /\ hand' = k
       /\ sockFd' = [sockFd EXCEPT ![k] = f]
  /\ minCell' = 1
  /\ idx' = IF CELL_THREAD_COUNT = 1 THEN 1 ELSE 2
  /\ UNCHANGED <<lists, cpc, locals, lastRecvPos, served, counters, process>>
  /\ UNCHANGED <<seen, statVars>>

\* No descriptor is left, or the socket does not listen; on_run ends.
AcceptFails ==
  /\ AGoto("accept", "run")
  /\ ~listening \/ \A f \in Fds : owner[f] # None
  /\ UNCHANGED <<socketVars, cellVars, hand, scanVars, statVars>>

\* The cell the slot s of a comparison is about.
SlotCell(s) == IF s \in {"minClients", "minBuff"} THEN minCell ELSE idx

\* What reading a vector's size without the mutex can give.  While the cell is
\* inside push_back on _clients, any number can be read.
Sizes(s) ==
  LET c == SlotCell(s) IN
  IF s \in {"minBuff", "curBuff"} THEN {Cardinality(clientsBuff[c])}
  ELSE IF cpc[c] = "drain" THEN 0..Cardinality(Conns)
  ELSE {Cardinality(clients[c])}

\* get_client_count() of two cells: the reads come in no particular order.
ReadSize ==
  /\ AGoto("scan", "scan")
  /\ \E s \in Slots :
       /\ seen[s] = NotRead
       /\ \E n \in Sizes(s) : seen' = [seen EXCEPT ![s] = n]
  /\ UNCHANGED <<socketVars, cellVars, hand, idx, minCell, statVars>>

CompareCounts ==
  /\ NextCell("scan", "scan", "add")
  /\ \A s \in Slots : seen[s] # NotRead
  /\ minCell' = IF seen["minClients"] + seen["minBuff"]
                     > seen["curClients"] + seen["curBuff"]
                  THEN idx ELSE minCell
  /\ seen' = NothingRead
  /\ UNCHANGED <<socketVars, cellVars, hand, statVars>>

AddClient ==
  /\ AGoto("add", "push")
  /\ AddClientLock(minCell)
  /\ UNCHANGED <<socketVars, hand, scanVars, statVars>>

PushClient ==
  /\ AGoto("push", "count")
  /\ AddClientPush(minCell, hand)
  /\ hand' = None
  /\ UNCHANGED <<socketVars, scanVars, statVars>>

\* _client_count++, after the cell can already have seen the client.
CountClient ==
  /\ AGoto("count", "run")
  /\ clientCount' = clientCount + 1
  /\ UNCHANGED <<socketVars, lists, cpc, locals, session, process>>
  /\ UNCHANGED <<msgCount, handled, hand, scanVars, statVars>>

MainStep ==
  \/ Listen \/ StartCell
  \/ NoTick \/ Tick \/ GetMsgCount \/ ResetMsgCount
  \/ SelectAccept \/ SelectNothing
  \/ Accept \/ AcceptFails \/ ReadSize \/ CompareCounts
  \/ AddClient \/ PushClient \/ CountClient

\* time4msg stands between get_msg_count and reset_msg_count of cell c.
Resetting(c) == apc = "reset" /\ idx = c

NoteMissed(c) ==
  missed' = IF Resetting(c)
              THEN [missed EXCEPT ![c] = @ + (handled'[c] - handled[c])] ELSE missed

\* A killed process takes no more steps; its peers see nothing that matters.
Next ==
  /\ alive
  /\ \/ MainStep /\ UNCHANGED missed
     \/ \E c \in Cells : CellStep(c) /\ NoteMissed(c) /\ UNCHANGED acceptorVars
     \/ \E k \in Conns : PeerStep(k) /\ UNCHANGED <<cellVars, acceptorVars, missed>>

Spec == Init /\ [][Next]_vars

\* Threads are scheduled; of the peers nothing is assumed.
Fairness ==
  /\ WF_vars(alive /\ MainStep /\ UNCHANGED missed)
  /\ \A c \in Cells :
       WF_vars(alive /\ CellStep(c) /\ NoteMissed(c) /\ UNCHANGED acceptorVars)

FairSpec == Spec /\ Fairness

-----------------------------------------------------------------------------
(* Properties.                                                             *)

Held(c) == clients[c] \cup clientsBuff[c]
InCells == UNION {Held(c) : c \in Cells}

\* The session cell c is past on_user_leave with, if any.
Leaving(c) == IF cpc[c] \in {"close", "erase"} THEN {cur[c]} ELSE {}

\* A session is in one cell at most, in one of its two vectors (in both only
\* while the copying loop of on_run stands between them), and the connection
\* the accepting thread has in hand is not in any yet: add_client and the
\* unlocked empty() test of on_run neither lose nor duplicate a client.
OneOwner ==
  /\ \A c, d \in Cells : c # d => Held(c) \cap Held(d) = {}
  /\ \A c \in Cells : clients[c] \cap clientsBuff[c] =
                        IF cpc[c] = "drain" THEN clientsBuff[c] \ todo[c] ELSE {}
  /\ hand \notin InCells

\* Every descriptor that is open for a connection is the _sock_fd of a session
\* that is in a cell or about to be put there: accept, close_socket and erase
\* leak no descriptor.
NoLeakedDescriptor ==
  \A f \in Fds : owner[f] # None =>
    /\ owner[f] \in InCells \cup {hand}
    /\ sockFd[owner[f]] = f

\* The _sock_fd of a session is open for that session's own connection, but
\* between close_socket and erase: no recv, send or close reaches the client
\* that was given the same descriptor number next.
OwnDescriptor ==
  \A c \in Cells : \A k \in Held(c) :
    (cpc[c] = "erase" /\ cur[c] = k) \/ Wire(k) = k

\* _client_count is the number of sessions in the cells whose leaving has not
\* been reported, less the one the accepting thread has added and not counted
\* yet: concurrent increments and decrements never drift.
CountExact ==
  clientCount = Cardinality(InCells \ UNION {Leaving(c) : c \in Cells})
                  - (IF apc = "count" THEN 1 ELSE 0)

\* A worker calls recv only when it returns at once: what select() reported is
\* still true of every session of the pass that is not yet visited, so that one
\* silent client never stops the other clients of its cell.
RecvNeverBlocks ==
  \A c \in Cells : cpc[c] = "recv" => Wire(cur[c]) # None /\ Readable(Wire(cur[c]))

\* A worker is at the session of k, at one of the places. At "send" and "consume",
\* in on_net_msg, the message it handles is still at the front of the buffer.
Standing(k, places) == \E c \in Cells : cur[c] = k /\ cpc[c] \in places

\* Whatever the other threads do meanwhile, each fragment a client has sent is
\* in its socket, or in the buffer of its session, or in a message handled, and
\* in one of them only: recv_data loses nothing, handles nothing twice, and
\* takes nothing from a client that has had the same descriptor.
EachFragmentOnce ==
  \A k \in Conns : peer[k] # "gone" =>
    sent[k] = inq[k] + lastRecvPos[k]
                + MsgLen * (served[k] - (IF Standing(k, {"send", "consume"}) THEN 1 ELSE 0))

\* A client never has more replies to read than messages of its own were
\* handled: on_net_msg answers a message once, to the client that sent it.
RepliesAnswerRequests ==
  \A k \in Conns : peer[k] # "gone" =>
    outq[k] + (IF Standing(k, {"send"}) THEN 1 ELSE 0) <= served[k]

\* Of the messages a cell has handled, each is counted in one report of time4msg,
\* or waits in _msg_count for the next, or was handled between get_msg_count and
\* reset_msg_count (easy_tcp_server.hpp:99-100): those are lost to the statistics,
\* they are the only ones, and none is counted twice.
StatsAccount ==
  \A c \in Cells :
    handled[c] = reported[c] + missed[c] + (IF Resetting(c) THEN 0 ELSE msgCount[c])

\* The server closes no connection whose peer is still there: handle_recv
\* drops a client only at its end of stream or error.
NoWrongfulClose == [][\A k \in Conns : peer[k] = "open" => peer'[k] # "gone"]_vars

\* The refinement mapping.  A connection is in a cell from push_back until its
\* session is erased.
linkOf == [k \in Conns |-> CASE peer[k] = "idle" -> "none"
                             [] peer[k] = "open" -> "up"
                             [] OTHER -> "down"]
heldBy == [c \in Cells |-> Held(c)]
erased == {k \in Conns : peer[k] = "gone" /\ k \notin InCells}

Registry == INSTANCE ClientRegistry
              WITH link <- linkOf, members <- heldBy, left <- erased,
                   Places <- Cardinality(Fds)

\* The server implements the registry: every client goes into one cell, stays
\* there while it is connected, and leaves once.
ImplementsRegistry == Registry!RegistrySpec

\* No peer leaves its replies unread for ever.  Nothing in the code makes them read:
\* it is the premise of what follows, never a fairness of the system.
PeersRead == \A k \in Conns : []<>(peer[k] = "open" => outq[k] < SendCap)

\* Where the peers read, no client waits for ever to be let in, though on_run may
\* miss a push_back, and every client that is gone is found out and erased.  Those
\* who found no descriptor left (accept fails, on_run ends, the caller goes on) are
\* taken up when sessions have been dropped.
ImplementsFairRegistry == PeersRead => Registry!RegistryFairness

\* Where the peers read, _client_count comes back to the number of peers that are
\* connected: what the statistics print is right again when clients have come and
\* gone.
CountSettles ==
  PeersRead => []<>(clientCount = Cardinality({k \in Conns : peer[k] = "open"}))

\* The worker of k is blocked in send() to a client that does not read: k itself or
\* any other client of its cell.
HeldUp(k) ==
  \E c \in Cells : /\ k \in Held(c)
                  /\ cpc[c] = "send"
                  /\ peer[Wire(cur[c])] = "open"
                  /\ outq[Wire(cur[c])] = SendCap

\* What a connected client of a cell sends does not stay unread or unhandled, in the
\* socket or in the session's buffer, unless a client of the same cell leaves its
\* replies unread for ever: that one stops all the others of its cell, and none of
\* another cell (the blocking send() of TcpClientS::send_data in on_net_msg).
AllHandled ==
  \A k \in Conns :
    \/ []<>(k \in InCells /\ peer[k] = "open" => inq[k] = 0 /\ lastRecvPos[k] < MsgLen)
    \/ <>[]HeldUp(k)
=============================================================================
