---------------------------- MODULE CellServer ----------------------------
(***************************************************************************)
(* CellServer: one worker thread of the server (cell_server.hpp).  It owns *)
(* a set of client sessions, takes over those the accepting thread leaves  *)
(* in its buffer, waits on their sockets with select(), reads and answers  *)
(* their messages, and drops the sessions whose recv() fails.              *)
(*                                                                         *)
(* A session (TcpClientS, a shared pointer in the code) is named by the    *)
(* connection it serves.  The order of the vectors _clients and            *)
(* _clients_buff decides nothing the properties tell apart: they are sets, *)
(* and handle_recv visits the sessions in any order.                       *)
(*                                                                         *)
(* One step is one access to state another thread or the kernel also       *)
(* touches; cpc is the place in on_run, handle_recv and recv_data where    *)
(* the thread stands.                                                      *)
(***************************************************************************)
EXTENDS Sockets

CONSTANTS
  CELL_THREAD_COUNT,  \* number of worker threads
  Chunk,              \* fragments one recv() call takes at most
  Capacity,           \* fragments the receive buffer of a session holds
  MaxFaults,          \* bound: system calls that fail for no modelled reason
  SigPipeKills        \* TRUE: POSIX, a send() to a reset peer raises SIGPIPE

\* A buffer that holds an incomplete message has room for one more recv():
\* 20 * RECV_BUF_SIZE bytes, against messages of about 1 KB and 4096 a recv.
ASSUME CellServerAssumption ==
  /\ CELL_THREAD_COUNT \in Nat \ {0}
  /\ Chunk \in Nat \ {0}
  /\ Capacity \in Nat
  /\ Capacity >= MsgLen - 1 + Chunk
  /\ MaxFaults \in Nat
  /\ SigPipeKills \in BOOLEAN

Cells == 1..CELL_THREAD_COUNT

VARIABLES
  clients,      \* clients[c]: _clients, the sessions cell c serves
  clientsBuff,  \* clientsBuff[c]: _clients_buff, sessions newly added to c
  mutex,        \* mutex[c]: who holds _mutex of c
  msgCount,     \* msgCount[c]: _msg_count
  cpc,          \* cpc[c]: control state of the thread of c
  todo,         \* todo[c]: sessions the running loop has still to visit
  readFds,      \* readFds[c]: read_fds as select() left it
  cur,          \* cur[c]: the session handle_recv is at, or None
  lastRecvPos,  \* lastRecvPos[k]: _last_recv_pos of the session of k
  sockFd,       \* sockFd[k]: _sock_fd of the session of k, None if there is none
  served,       \* history: served[k]: messages the session of k has had handled
  clientCount,  \* _client_count of the EasyTcpServer all cells report to
  handled,      \* history: messages cell c has handled since the start
  faults,       \* system calls that have failed without a modelled reason
  alive         \* the process has not been killed

lists == <<clients, clientsBuff, mutex>>
locals == <<todo, readFds, cur>>
session == <<lastRecvPos, sockFd, served>>
counters == <<msgCount, handled, clientCount>>
process == <<faults, alive>>
cellVars == <<lists, cpc, locals, session, counters, process>>

CellStates == {"unborn", "top", "lock", "drain", "select", "visit", "recv",
               "dispatch", "send", "consume", "leave", "close", "erase",
               "stopped"}

CellTypeOK ==
  /\ clients \in [Cells -> SUBSET Conns]
  /\ clientsBuff \in [Cells -> SUBSET Conns]
  /\ mutex \in [Cells -> {"free", "cell", "acceptor"}]
  /\ msgCount \in [Cells -> Nat]
  /\ cpc \in [Cells -> CellStates]
  /\ todo \in [Cells -> SUBSET Conns]
  /\ readFds \in [Cells -> SUBSET Fds]
  /\ cur \in [Cells -> Conns \cup {None}]
  /\ lastRecvPos \in [Conns -> 0..Capacity]
  /\ sockFd \in [Conns -> Fds \cup {None}]
  /\ served \in [Conns -> Nat]
  /\ clientCount \in Int
  /\ handled \in [Cells -> Nat]
  /\ faults \in 0..MaxFaults
  /\ alive \in BOOLEAN

CellInit ==
  /\ clients = [c \in Cells |-> {}]
  /\ clientsBuff = [c \in Cells |-> {}]
  /\ mutex = [c \in Cells |-> "free"]
  /\ msgCount = [c \in Cells |-> 0]
  /\ cpc = [c \in Cells |-> "unborn"]
  /\ todo = [c \in Cells |-> {}]
  /\ readFds = [c \in Cells |-> {}]
  /\ cur = [c \in Cells |-> None]
  /\ lastRecvPos = [k \in Conns |-> 0]
  /\ sockFd = [k \in Conns |-> None]
  /\ served = [k \in Conns |-> 0]
  /\ clientCount = 0
  /\ handled = [c \in Cells |-> 0]
  /\ faults = 0
  /\ alive = TRUE

\* The thread of c, standing at `from`, goes on to `to`.
Goto(c, from, to) ==
  /\ cpc[c] = from
  /\ cpc' = [cpc EXCEPT ![c] = to]

Fault ==
  /\ faults < MaxFaults
  /\ faults' = faults + 1

\* The connection the descriptor of the session of k is open for: the one a
\* recv(), send() or close() on it acts on.
Wire(k) == IF sockFd[k] = None THEN None ELSE owner[sockFd[k]]

-----------------------------------------------------------------------------
(* Called by the accepting thread: start and add_client.                   *)

Start(c) ==
  /\ Goto(c, "unborn", "top")
  /\ UNCHANGED <<lists, locals, session, counters, process>>

\* Mutant: add_client does not wait for the mutex.
AddClientUnlocked(c) ==
  /\ mutex' = [mutex EXCEPT ![c] = IF @ = "free" THEN "acceptor" ELSE @]
  /\ UNCHANGED <<clients, clientsBuff, cpc, locals, session, counters, process>>

AddClientLock(c) ==
  /\ mutex[c] = "free"
  /\ mutex' = [mutex EXCEPT ![c] = "acceptor"]
  /\ UNCHANGED <<clients, clientsBuff, cpc, locals, session, counters, process>>

\* push_back and the end of the lock_guard's scope.
AddClientPush(c, k) ==
  /\ clientsBuff' = [clientsBuff EXCEPT ![c] = @ \cup {k}]
  /\ mutex' = [mutex EXCEPT ![c] = "free"]
  /\ UNCHANGED <<clients, cpc, locals, session, counters, process>>

-----------------------------------------------------------------------------
(* on_run, down to the call of handle_recv.                                *)

\* _clients_buff.empty() is read without the mutex: while the accepting thread
\* is inside push_back, either answer is possible.
PeekBuff(c) ==
  /\ \E empty \in BOOLEAN :
       /\ mutex[c] # "acceptor" => empty = (clientsBuff[c] = {})
       /\ Goto(c, "top", IF empty THEN "select" ELSE "lock")
  /\ UNCHANGED <<lists, locals, session, counters, process, socketVars>>

LockBuff(c) ==
  /\ Goto(c, "lock", "drain")
  /\ mutex[c] = "free"
  /\ mutex' = [mutex EXCEPT ![c] = "cell"]
  /\ todo' = [todo EXCEPT ![c] = clientsBuff[c]]
  /\ UNCHANGED <<clients, clientsBuff, readFds, cur>>
  /\ UNCHANGED <<session, counters, process, socketVars>>

\* One iteration of the copying loop.
MoveClient(c) ==
  /\ Goto(c, "drain", "drain")
  /\ \E k \in todo[c] :
       /\ clients' = [clients EXCEPT ![c] = @ \cup {k}]
       /\ todo' = [todo EXCEPT ![c] = @ \ {k}]
  /\ UNCHANGED <<clientsBuff, mutex, readFds, cur>>
  /\ UNCHANGED <<session, counters, process, socketVars>>

\* Mutant: the copying loop ends before its last session.
ClearBuffEarly(c) ==
  /\ Goto(c, "drain", "select")
  /\ clientsBuff' = [clientsBuff EXCEPT ![c] = {}]
  /\ mutex' = [mutex EXCEPT ![c] = "free"]
  /\ UNCHANGED <<clients, locals, session, counters, process, socketVars>>

ClearBuff(c) ==
  /\ Goto(c, "drain", "select")
  /\ todo[c] = {}
  /\ clientsBuff' = [clientsBuff EXCEPT ![c] = {}]
  /\ mutex' = [mutex EXCEPT ![c] = "free"]
  /\ UNCHANGED <<clients, locals, session, counters, process, socketVars>>

\* No client yet: sleep, and start over.
Sleep(c) ==
  /\ Goto(c, "select", "top")
  /\ clients[c] = {}
  /\ UNCHANGED <<lists, locals, session, counters, process, socketVars>>

\* The sockets are also in write_fds, and select() has a timeout: it returns
\* whether or not one of them is readable.
SelectClients(c) ==
  /\ Goto(c, "select", "visit")
  /\ clients[c] # {}
  /\ \A k \in clients[c] : Wire(k) # None
  /\ readFds' = [readFds EXCEPT ![c] =
                   {sockFd[k] : k \in {i \in clients[c] : Readable(Wire(i))}}]
  /\ todo' = [todo EXCEPT ![c] = clients[c]]
  /\ UNCHANGED <<lists, cur, session, counters, process, socketVars>>

\* select() < 0, for a descriptor that is not open or any other reason: on_run
\* returns, and the thread is over.
SelectFails(c) ==
  /\ Goto(c, "select", "stopped")
  /\ clients[c] # {}
  /\ IF \E k \in clients[c] : Wire(k) = None THEN UNCHANGED faults ELSE Fault
  /\ UNCHANGED <<lists, locals, session, counters, alive, socketVars>>

-----------------------------------------------------------------------------
(* handle_recv.                                                            *)

\* Mutant: FD_ISSET is not asked.
VisitAny(c) ==
  /\ Goto(c, "visit", "recv")
  /\ \E k \in todo[c] :
       /\ cur' = [cur EXCEPT ![c] = k]
       /\ todo' = [todo EXCEPT ![c] = @ \ {k}]
       /\ readFds' = [readFds EXCEPT ![c] = @ \ {sockFd[k]}]
  /\ UNCHANGED <<lists, session, counters, process, socketVars>>

VisitReadable(c) ==
  /\ Goto(c, "visit", "recv")
  /\ \E k \in todo[c] :
       /\ sockFd[k] \in readFds[c]
       /\ cur' = [cur EXCEPT ![c] = k]
       /\ todo' = [todo EXCEPT ![c] = @ \ {k}]
       /\ readFds' = [readFds EXCEPT ![c] = @ \ {sockFd[k]}]
  /\ UNCHANGED <<lists, session, counters, process, socketVars>>

\* The sessions left have nothing to read: the loop ends.
VisitDone(c) ==
  /\ Goto(c, "visit", "top")
  /\ \A k \in todo[c] : sockFd[k] \notin readFds[c]
  /\ todo' = [todo EXCEPT ![c] = {}]
  /\ readFds' = [readFds EXCEPT ![c] = {}]
  /\ UNCHANGED <<lists, cur, session, counters, process, socketVars>>

\* Mutant: the cell has no parent to report to.
UserLeaveUnreported(c) ==
  /\ Goto(c, "leave", "close")
  /\ UNCHANGED <<lists, locals, session, counters, process, socketVars>>

OnUserLeave(c) ==
  /\ Goto(c, "leave", "close")
  /\ clientCount' = clientCount - 1
  /\ UNCHANGED <<lists, locals, session, msgCount, handled, process, socketVars>>

\* Mutant: the session is dropped with its descriptor open.
CloseForgotten(c) ==
  /\ Goto(c, "close", "erase")
  /\ UNCHANGED <<lists, locals, session, counters, process, socketVars>>

CloseSocket(c) ==
  /\ Goto(c, "close", "erase")
  /\ KClose(sockFd[cur[c]])
  /\ UNCHANGED <<lists, locals, session, counters, process>>

\* Mutant: the closed session stays in _clients.
EraseForgotten(c) ==
  /\ Goto(c, "erase", "visit")
  /\ cur' = [cur EXCEPT ![c] = None]
  /\ UNCHANGED <<lists, todo, readFds, session, counters, process, socketVars>>

\* The last shared pointer goes, and the session with it.
EraseClient(c) ==
  /\ Goto(c, "erase", "visit")
  /\ clients' = [clients EXCEPT ![c] = @ \ {cur[c]}]
  /\ cur' = [cur EXCEPT ![c] = None]
  /\ sockFd' = [sockFd EXCEPT ![cur[c]] = None]
  /\ lastRecvPos' = [lastRecvPos EXCEPT ![cur[c]] = 0]
  /\ served' = [served EXCEPT ![cur[c]] = 0]
  /\ UNCHANGED <<clientsBuff, mutex, todo, readFds>>
  /\ UNCHANGED <<counters, process, socketVars>>

-----------------------------------------------------------------------------
(* recv_data, on_net_msg and send_data, for the session cur[c].            *)

\* Mutants: a full buffer is refused; a message is handled before all of it has
\* come; a message that fills the buffer exactly is left in it.
FitsStrictly(k, n) == lastRecvPos[k] + n < Capacity
HeaderComplete(k) == lastRecvPos[k] >= 1
CompleteStrictly(k) == lastRecvPos[k] > MsgLen

\* n more fragments fit in the receive buffer of the session of k.
Fits(k, n) == lastRecvPos[k] + n <= Capacity

\* There is a complete message at the front of that buffer.
Complete(k) == lastRecvPos[k] >= MsgLen

\* recv() returns n > 0 fragments.  They are copied behind what the buffer
\* holds, unless they would not fit.
RecvSome(c) ==
  LET k == cur[c]
      j == Wire(k)
      n == IF inq[j] < Chunk THEN inq[j] ELSE Chunk
  IN
  /\ cpc[c] = "recv"
  /\ j # None
  /\ inq[j] > 0
  /\ Goto(c, "recv", IF Fits(k, n) THEN "dispatch" ELSE "leave")
  /\ KRecv(j, n)
  /\ lastRecvPos' = [lastRecvPos EXCEPT ![k] = IF Fits(k, n) THEN @ + n ELSE @]
  /\ UNCHANGED <<lists, locals, sockFd, served, counters, process>>

\* Mutant: only a negative result of recv() is taken for an error.
RecvZeroIgnored(c) ==
  LET j == Wire(cur[c]) IN
  /\ cpc[c] = "recv"
  /\ \/ peer[j] = "closed" /\ inq[j] = 0 /\ Goto(c, "recv", "dispatch")
     \/ peer[j] = "reset" /\ Goto(c, "recv", "leave")
  /\ UNCHANGED <<lists, locals, session, counters, process, socketVars>>

\* recv() returns 0 at the end of the stream, or an error.
RecvFails(c) ==
  LET j == Wire(cur[c]) IN
  /\ Goto(c, "recv", "leave")
  /\ \/ j = None
     \/ peer[j] = "closed" /\ inq[j] = 0
     \/ peer[j] = "reset"
  /\ UNCHANGED <<lists, locals, session, counters, process, socketVars>>

\* A complete message is in the buffer: CMD_LOGIN and CMD_LOGOUT are answered,
\* an unknown command is not.
OnNetMsg(c) ==
  /\ \E next \in {"send", "consume"} : Goto(c, "dispatch", next)
  /\ Complete(cur[c])
  /\ msgCount' = [msgCount EXCEPT ![c] = @ + 1]
  /\ handled' = [handled EXCEPT ![c] = @ + 1]
  /\ served' = [served EXCEPT ![cur[c]] = @ + 1]
  /\ UNCHANGED <<lists, locals, lastRecvPos, sockFd, clientCount, process, socketVars>>

\* Mutant: a case of the switch without its break.
SendDataAgain(c) ==
  LET j == Wire(cur[c]) IN
  /\ \E next \in {"send", "consume"} : Goto(c, "send", next)
  /\ KSend(j)
  /\ alive' = ~(SigPipeKills /\ j # None /\ peer[j] = "reset")
  /\ UNCHANGED <<lists, locals, session, counters, faults>>

\* send() blocks while the buffers are full; its result is ignored.
SendData(c) ==
  LET j == Wire(cur[c]) IN
  /\ Goto(c, "send", "consume")
  /\ KSend(j)
  /\ alive' = ~(SigPipeKills /\ j # None /\ peer[j] = "reset")
  /\ UNCHANGED <<lists, locals, session, counters, faults>>

\* Mutant: the handled message is taken to be all the buffer holds.
ConsumeAll(c) ==
  /\ Goto(c, "consume", "dispatch")
  /\ lastRecvPos' = [lastRecvPos EXCEPT ![cur[c]] = 0]
  /\ UNCHANGED <<lists, locals, sockFd, served, counters, process, socketVars>>

\* The rest of the buffer is moved to its front.
ConsumeMsg(c) ==
  /\ Goto(c, "consume", "dispatch")
  /\ lastRecvPos' = [lastRecvPos EXCEPT ![cur[c]] = @ - MsgLen]
  /\ UNCHANGED <<lists, locals, sockFd, served, counters, process, socketVars>>

\* The buffer holds no complete message: recv_data returns 0.
RecvDataReturns(c) ==
  /\ Goto(c, "dispatch", "visit")
  /\ ~Complete(cur[c])
  /\ cur' = [cur EXCEPT ![c] = None]
  /\ UNCHANGED <<lists, todo, readFds, session, counters, process, socketVars>>

OnRun(c) ==
  \/ PeekBuff(c) \/ LockBuff(c) \/ MoveClient(c) \/ ClearBuff(c)
  \/ Sleep(c) \/ SelectClients(c) \/ SelectFails(c)

HandleRecv(c) ==
  \/ VisitReadable(c) \/ VisitDone(c)
  \/ OnUserLeave(c) \/ CloseSocket(c) \/ EraseClient(c)

RecvData(c) ==
  \/ RecvSome(c) \/ RecvFails(c) \/ OnNetMsg(c) \/ SendData(c)
  \/ ConsumeMsg(c) \/ RecvDataReturns(c)

CellStep(c) == OnRun(c) \/ HandleRecv(c) \/ RecvData(c)
=============================================================================
