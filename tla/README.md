# TLA+ models and proofs of the select() server and its client

This directory verifies the program's own code: the multi-threaded `select()`
server in `src/depends/include/` as `src/tcp_server/main.cpp` runs it, the client
class as `src/tcp_client/main.cpp` and other programs may use it, and the two
talking to each other. It contains TLA+ modules translated from that code, TLC
configurations that check them on small instances, and TLAPS proofs of the results
that hold for every number of clients, descriptors and threads.

Contents: [inventory](#inventory) · [modules](#modules) ·
[abstractions](#abstractions) · [runs](#runs) · [findings](#where-the-code-disagrees) ·
[proofs](#proofs) · [not modelled](#not-modelled) · [order](#order-of-the-modules)

## Inventory

| component | state | operations | talks to |
|---|---|---|---|
| `EasyTcpServer` (`easy_tcp_server.hpp`, `tcp_server/main.cpp`): the main thread | `_sock`, `_client_count` (atomic), `_cell_servers`, `_timer` | `listen`/`bind`/`init_socket`, `start`, `on_run`, `time4msg`, `accept`, `add_client2cell_server`, `on_user_leave` (called by the workers) | reads the workers' vector sizes and message counts; pushes sessions into their buffers under their mutex |
| `CellServer` (`cell_server.hpp`): `CELL_THREAD_COUNT` worker threads | `_clients`, `_clients_buff`, `_mutex`, `_msg_count` (atomic) | `add_client`, `get_client_count`, `get_msg_count`, `reset_msg_count` (called by the main thread); `on_run`, `handle_recv`, `recv_data`, `on_net_msg`, `send_data` (its own) | `on_user_leave` of the server; `close_socket` |
| `TcpClientS` (`tcp_client_s.hpp`): one client session | `_sock_fd`, `_recv_buf`, `_last_recv_pos` | accessors | owned by a shared pointer in one vector of one worker |
| framing (`recv_data`, `message_header.hpp`) | the session's buffer | append, hand over, move up | `on_net_msg` |
| `INetEvent` (`i_net_event.hpp`) | none | `on_user_leave`, `on_net_message` (its calls are commented out) | callback from worker to server |
| `EasyTcpClient` (`easy_tcp_client.hpp`) | `_sock`, receive buffer | `connect`, `close`, `on_run`, `recv_data`, `send_data` | a server |
| `tcp_client` (`tcp_client/main.cpp`) | `clients`, `b_run`; each thread's `i` | sender threads, each with its own share of `clients`; command thread | `EasyTcpClient` |
| `cell_net_utils.hpp` | Winsock's count of `WSAStartup` calls | `close_socket`, `NetEnv` | everything |
| `cell_timestamp.hpp` | `_begin` | `update`, `get_elapsed_seconds` | `time4msg` |
| vendored JSON, SQLite, SHA-1, base64 | – | – | called by neither program |

What makes the server hard:

* **Hand-over.** The main thread pushes a session into `_clients_buff` under the
  mutex; the worker tests `_clients_buff.empty()` *without* it, then copies and
  clears under it. Correct means: no session lost, duplicated, or left there.
* **Placement.** The main thread reads two vector sizes of two workers, without
  any lock, while the workers move sessions from one vector to the other.
* **Descriptors.** A worker closes a descriptor, and only then erases the
  session that holds its number; the main thread may accept a new client on that
  very number in between.
* **Stale readiness.** `read_fds` is filled once, then every session of the
  worker is visited; a `recv` on a socket that is no longer readable would stop
  all the clients of the worker.
* **Departure.** Only the result of `recv` tells a worker that a client is gone;
  the count, the descriptor and the vectors have to follow.
* **Counters.** `_client_count` is incremented after the worker can already see
  the client; `get_msg_count` and `reset_msg_count` are two operations.
* **Framing.** Messages arrive cut at any byte and several at a time, in a buffer
  whose capacity test is made before the messages in it are taken out.
* **Blocking.** `send` blocks the worker while a client does not read; the client's
  `send` blocks too, and a sender thread serves its clients in turn.
* **Client sockets.** The clients of a process share the descriptor numbers and, on
  Windows, the count that keeps Winsock up; `close` calls `WSACleanup` first and
  keeps `_sock`; the destructor calls `close` again.
* **End of stream.** The client's `recv_data` returns 0 when the server has closed.
* **Reports.** `time4msg` reads the clock, takes the counters, prints, and then
  sets the clock back, while the workers go on counting.

`hazards` in `PROJECT.json` lists each at its line, with the properties aimed at it.

## Modules

| module | models |
|---|---|
| `Sockets` | *external*: kernel sockets as the server uses them (`accept`, `recv`, `send`, `select`, `close`, the descriptor table, buffers) and the steps of the remote peers |
| `CellServer` | `CellServer` and `TcpClientS`: one action per shared access of `on_run`, `handle_recv`, `recv_data`, `on_net_msg`, `send_data`, and the operations the main thread calls |
| `EasyTcpServer` | the main thread, the composition of all threads and peers, and the properties |
| `ClientRegistry` | abstract specification: a client that connects is given to one cell, stays while it is connected, leaves after it has disconnected, never comes back |
| `RecvBuffer` | `recv_data` byte by byte for one session: append, deliver, move up, return |
| `MessageStream` | abstract specification of framing: the messages sent are handed over whole and in order, each after its last byte has come |
| `Time4Msg` | `time4msg` with `CellTimestamp`, the counters of the cells and the clock |
| `EasyTcpClient` | client objects of one process, any order of calls: `connect`, `init_socket`, `close`, `on_run`, `send_data`; the descriptor table, Winsock's count, the server *(external)* |
| `TcpClient` | the sender threads and the command thread of `tcp_client/main.cpp` over `EasyTcpClient`; `ClientSpec` is what they must implement |
| `Conversation` | sender threads and workers joined by bounded buffers in both directions |
| `MessageHeader` | the sizes of messages and buffers, and what they imply |
| `MC*` | what TLC needs beside the constants: symmetry sets, message lengths, who serves whom |
| `EasyTcpServerInvariant` | the inductive invariant `IInv` of `EasyTcpServer` and its proof |
| `*Proofs` | the theorems about the module of that name |

`CellServer` extends `Sockets`, and `EasyTcpServer` extends `CellServer` and
instantiates `ClientRegistry` with a refinement mapping; `RecvBuffer`
instantiates `MessageStream`. `TcpClient` extends `EasyTcpClient`, whose actions its
threads take.

State. A `TcpClientS` is named by the connection it serves, so `clients[c]` and
`clientsBuff[c]` are sets of connections, `sockFd[k]` is the session's `_sock_fd`
and `owner[f]` the kernel's view of descriptor `f`. `Wire(k)` is the connection a
system call made through the session of `k` really reaches; when a number has
been closed or reused it is not `k`. `cpc[c]` and `apc` are the places where the
threads stand:

| `cpc` | `CellServer` | `apc` | `EasyTcpServer` |
|---|---|---|---|
| `unborn` | before `start` | `listen`, `start` | `listen`, `start` |
| `top` | `_clients_buff.empty()` | `run`, `get`, `reset` | `time4msg` |
| `lock`, `drain` | `lock_guard`, copying loop | `select`, `accept` | `on_run`, `accept` |
| `select` | `_clients.empty()` to `select()` | `scan` | `get_client_count` of two cells |
| `visit` | `handle_recv`'s loop | `add`, `push` | `add_client` |
| `recv`, `dispatch`, `send`, `consume` | `recv_data`, `on_net_msg`, `send_data` | `count` | `_client_count++` |
| `leave`, `close`, `erase` | after `recv_data < 0` | `exit` | `main` has returned |
| `stopped` | `on_run` has returned | | |

In `EasyTcpClient`, `sock[i]` is `_sock`, `owner[f]` the kernel's view, and `phase[i]`
stands inside `connect` (`startup`, `socket`, `connect`) or `close` (`cleanup`,
`close`), `idle` between calls, `closed` after `close`. In `TcpClient`, `pc[t]` is the
loop of `sender` thread `t` is in and `cur[t]` its `i`. In `Conversation` a sender is at
`cur[t]`, about to make `call[t]`, and a worker answers what it has in `hand[c]` before
it visits the next session of `ready[w]`.

One action is one access to state that another thread or the kernel also
touches. What a thread does to its own locals in between is part of that action.

## Abstractions

* **Vectors are sets.** No property depends on the order of `_clients`;
  `handle_recv` visits the sessions in any order, which includes the code's.
* **Data are counts in the server model.** A message is `MsgLen` fragments, and
  `recv` returns at most `Chunk` of them; where TCP cuts is where a peer's
  `PeerSend` stops. Bytes, and messages of different lengths, are in `RecvBuffer`.
* **Messages are well formed**: `data_length` is the length of the message, as
  the constructors in `message_header.hpp` and both programs produce them.
* **A reply is one unit of buffer space** of `SendCap`. `send` blocks without room,
  and its result is ignored, as in the code.
* **A connection is used once**: a client that comes back is another member of
  `Conns`. Descriptors, which are what gets reused, are separate.
* **`accept` may return any free descriptor.** POSIX returns the lowest, other
  systems do not; the model allows both.
* **Unlocked reads.** `_clients_buff.empty()` may answer either way while the
  main thread is inside `push_back`. The size of `_clients` may be anything while
  the worker is inside its copying loop, where reallocation changes the pointers
  the size is computed from one by one. Nothing worse is modelled for these races.
* **`SigPipeKills`** chooses the platform. `FALSE`: `send` to a reset peer returns an
  error (Windows, or a process in which SIGPIPE is ignored). `TRUE`: POSIX's default,
  the process dies.
* **`select()` also waits for writability**, and has a timeout, so it returns
  whether or not a client is readable: `SelectClients` is always enabled, and
  passes in which nothing is readable are possible.
* **Faults.** `socket`, `bind`, `listen` and each `select` may fail for no modelled
  reason, `MaxFaults` times in all. `accept` fails when descriptors have run out.
* **memcpy on overlapping regions** is undefined; `CopyOrders` is the set of orders
  the build's `memcpy` may copy in.
* **History variables** `handled`, `served`, `reported`, `missed`, `out`, `closedBy`, `noticed`, `late` and
  the bound-keeping `ticks`, `faults`, `sent` are read by no guard of the code's own logic.
* **A client's socket is named by the client** that opened it, as it opens one at most.
  What a system call on `_sock` reaches is `Wire(i)`: nobody, or whoever has the number.
* **The server beside the clients** may read, close, or not; with requests unread its
  close resets the connection, and data sent to a closed server draw a reset.
* **Buffers of `Conversation` hold whole messages**: of `ReqCap` requests and `RepCap` replies a
  connection has room for, `ReqOut` and `RepOut` may be at the sender's end or on their way (TCP keeps
  what has not arrived in the sender's buffer). As long as no more were sent, `select` may report the
  socket only writable, and a `recv` may complete none (`Taken`, `Readable`); with more, the rest
  has arrived, and at least one is completed.
* **The clock of `Time4Msg` is steady**, and a worker handles at most `Rate` messages a tick.
* **The 5 s pause** of `sender` and the timeouts of `select` are moments like others.

## Runs

Bounds: `MaxFrags` (fragments a peer sends), `MaxTicks` (elapsed seconds),
`MaxFaults`, `MaxWsa` (`WSAStartup` calls), `MaxElapsed` (time between reports), `MaxStream`
(bytes); every other quantity is bounded by the constants themselves.

| run | shows | instance, and why it is enough |
|---|---|---|
| `server_sessions` | `OneOwner`, `NoLeakedDescriptor`, `CountExact`, `StatsAccount`, `ImplementsFairRegistry` | 3 clients on 2 descriptors of 1 worker, one may leave: a session is pushed while the worker copies another (that sessions of two workers are disjoint too, `OneOwnerHolds` proves and `ImplementsRegistry` checks); descriptors run out (`AcceptFails`), one comes back and is reused while its old session is not yet erased, and the client left over gets it; one report is made, at any moment. Each client sends one message, so nobody is held up here by one that does not read; that is in `server_liveness` |
| `server_messages` | `TypeOK`, `OwnDescriptor`, `RecvNeverBlocks`, `EachFragmentOnce`, `RepliesAnswerRequests`, `NoWrongfulClose`, `ImplementsRegistry` | 2 clients that may leave, 2 workers, 2 descriptors; messages of 2 fragments, 3 sent, 2 a `recv`: partial messages in the smallest legal buffer; a client may leave with a message cut and with replies unread, and its number be reused before it is erased; one failing call anywhere, SIGPIPE fatal |
| `server_liveness` | `ImplementsFairRegistry`, `CountSettles`, `AllHandled` | 2 clients, which may come to the same worker or to two; one may leave, one stays; two messages each and send buffers of one reply: a worker blocks in `send`, for ever if the client does not read |
| `framing` | `TypeOK`, `NeverFull`, `NothingLeft`, `Reassembles`, `AllDelivered` | 4 messages of 2 or 3 bytes with a 2-byte header, 5 bytes a `recv`, 7 bytes of buffer: headers and bodies cut everywhere, two messages and a half in one `recv`, the buffer full to its last byte |
| `client_library` | `ClosedByItself`, `OwnSocket`, `NoLeakedSocket` | Windows with `NetEnv`: 3 clients on 2 handles, so that a closed handle is reused by a third client while others are in the middle of `connect` or `close`, and `socket` may fail |
| `tcp_client` | `TypeOK`, `DoneReleases`, `NoFalseAlarm`, `UsesClientsInOrder`, `ExitCloses`, `LossNoticed` | Windows without `NetEnv`, where a reset does not end the process: 2 threads with 2 clients each on 3 handles, so that numbers pass between the threads and a thread may run out of them |
| `conversation` | `TypeOK`, `NoStandstill`, `BoundedUnderWay`, `EveryClientServed` | 2 senders, one with 2 clients, and 2 workers, one of which serves clients of both; one message of each buffer may be on its way; reply buffers just large enough for `ForestNoStandstill`, small enough for workers to wait in `send` |
| `statistics` | `TypeOK`, `CountsSinceReading`, `ReportsKeepComing` | 2 cells, 2 ticks a second, a delay of as much again anywhere in `time4msg` |

`CHECK_DEADLOCK FALSE` stands only where the system really stops: in
the client runs all clients are closed in the end, or the process has been killed; in
`server_messages` and `count_posix` the process may be killed or leave `main`, in `framing` and
`framing_overlap` the stream ends. Everywhere else deadlock is checked: the main
thread always has another turn of its loop.

Fairness (`FairSpec`) is that of the program's own threads. In `EasyTcpServer`: weak fairness
of the main thread and of each worker, which are OS threads that loop without waiting for one
another except for a mutex held over a few instructions. Weak fairness of the *mutex* operations
is enough because a thread that wants it finds it free for ever once the other stands outside;
the main thread, the only other party, cannot take it over and over without the worker getting
there, or `ImplementsFairRegistry` would fail. Peers need not connect, send, read or leave.

A peer that does not read its replies blocks its worker in `send()` for good, which is what the
code does. `ImplementsFairRegistry` and `CountSettles` therefore have the premise `PeersRead` (no
peer leaves full buffers unread for ever); without it TLC finds `CountSettles` violated. `AllHandled`
needs no premise and says who is hurt: what a client sends is handled, *or* its worker stands for
ever in `send()` to a client that does not read (`HeldUp`), one of the same cell.

In `TcpClient` the sender threads run, and TCP answers what comes for a closed socket with a
reset (`Answered`). A server need not read (this repository's does not while it waits in
`send()` itself), need not close, and nobody need type "exit". `ExitCloses` and `LossNoticed` hold
thread by thread, *or* the thread stands for ever in `send()` to a server of its own that does not
read (`HeldUp`); without this alternative TLC finds both violated. What becomes of a thread whose
`connect` failed is excepted by both: it leaves its earlier clients open.

In `Conversation` senders and workers run, each a thread of its own; that both sides read, which
`PeersRead` says and `HeldUp` excepts elsewhere, is a consequence there (`EveryClientServed`). In
`RecvBuffer` the stream's bytes arrive and `recv_data` is called when there are some. In
`Time4Msg` the main thread runs and time passes.

Liveness runs use no symmetry. `server_messages` uses the symmetry of connections (all of them may
quit) and of descriptors.

Every property has a mutant in `PROJECT.json`: a definition changed the way a
plausible bug would change it (a dropped lock, a forgotten `close` or `erase`, a
`<` for a `<=`), under which its run finds the property violated.

## Where the code disagrees

Four runs check what the repository says and are expected to find it violated:

* `count_posix` – `README.md` 2021-12-04: disconnections are counted. On POSIX the
  second reply to a client that has closed raises SIGPIPE, which nothing ignores.
* `framing_overlap` – `README.md` 2021-11-21: packets that stick together are
  handled. With more left than was handled, `memcpy`'s regions overlap; copying
  downwards corrupts what is left (`memmove` would not).
* `client_reuse` – `README.md` 2021-11-20: the client is a class so that a service can
  have several. After `close()` the object still has the number, and its destructor
  closes it again; another client may have it by then. (The test program never destroys
  its clients, so it is not affected: `UsesClientsInOrder`.)
* `standstill` – `README.md` 2021-11-21: buffers on both sides keep TCP transferring. Neither
  side has a send buffer: both `send` and read nothing until they are through. With
  several clients for a thread, as in the test program, and reply buffers no larger than the
  requests of one connection, thread and worker wait for each other for ever, although the
  client's end has room for the replies to one `recv` of the worker.

Five more disagreements are visible in the models, without a run of their own:

* `doc/` gives a new client to the worker with the fewest; the sizes are read without a lock
  while a worker moves its new clients (`ReadSize`), so a fuller worker may be chosen.
  `README.md` 2021-12-04 knows of races and puts them off.
* `README.md` 2021-11-21: read all the data there is each time. `recv_data` calls `recv` once,
  for at most 4096 bytes (`RecvSome`).
* On Windows, in a process without `NetEnv`, as the test program is, the last `close` brings
  Winsock's count to 0 *before* its `closesocket`; a client another thread opens in
  between may have the same handle. `client_library` with `NetEnvHeld = FALSE` violates
  `ClosedByItself` in this way.
* `README.md` 2021-12-04: messages are counted, with races that are put off. What a worker handles between `get_msg_count` and
  `reset_msg_count` is in no report; `StatsAccount` says that these are the only ones (`missed`).
* `README.md` 2021-11-21: packets are counted per second. `time4msg` reads the clock first and
  sets it back last, so what is handled while it counts and prints is divided by a time
  without that delay; `CountsSinceReading` says by how much at most (`late`).

## Proofs

`EasyTcpServerInvariant` and `EasyTcpServerProofs`, from the constants' assumptions alone
(`SocketsAssumption`, `CellServerAssumption`, `EasyTcpServerAssumption`: a finite
set of connections, at least one worker, a buffer with room for one more `recv`
behind an incomplete message, ...):

| theorem | property |
|---|---|
| `TypeCorrect` | `TypeOK`: among others, no receive buffer is overrun, and no message is taken out of one that does not hold it |
| `OneOwnerHolds` | `OneOwner`: the hand-over neither loses nor duplicates a session |
| `NoLeakedDescriptorHolds` | `NoLeakedDescriptor` |
| `OwnDescriptorHolds` | `OwnDescriptor`: no session works on a number that has become another client's |
| `RecvNeverBlocksHolds` | `RecvNeverBlocks` |
| `CountExactHolds` | `CountExact`: `_client_count` never drifts |
| `StatsAccountHolds` | `StatsAccount`: a handled message is in one report, still counted, or was handled between a `get_msg_count` and its `reset_msg_count` |
| `NoWrongfulCloseHolds` | `NoWrongfulClose` |
| `EachFragmentOnceHolds` | `EachFragmentOnce`: what a client has sent is in its socket, in its session's buffer or in a message handled, and in one of them only |
| `RepliesAnswerRequestsHolds` | `RepliesAnswerRequests`: no client has more replies to read than messages of its own were handled |
| `RegistryRefinement` | `ImplementsRegistry`: every step maps to a step of `ClientRegistry` or a stutter |

None of the invariants is inductive by itself. `IInv` (theorem
`Invariance`) is: that a session is in one place
(`ListOf`, `Apart`) needs to know who is inside the mutex (`LockOf`) and which sessions
`handle_recv` is at (`PassOf`); that sessions and open descriptors match (`FdInv`)
needs those, and that no connection accepted is still in the backlog (`Pending`); what
select() reported stays true (`ReadOf`) because only the worker itself takes data out
of its clients' sockets, which needs the sessions apart; and the buffer bound of
`TypeOK` needs that between passes a buffer holds less than a message (`BufOf`). TLC
checked `IInv` before it was proved. The proof has one lemma per action; `QuietInv`,
`MovesInv` and `MainQuietInv` carry what the actions that move no session, that move
one inside a cell, and that touch no session have in common. `CountExact` and
`StatsAccount` are then inductive relative to `IInv`. For the count, each step
either leaves the set of sessions to be counted as it is, or adds or takes away exactly
the one it counts. The two properties about the flow of messages are inductive together,
relative to `IInv`: whichever session a `recv` or `send` is called for, the number it holds
reaches its own connection (`FdInv`), and only one worker is at a session (`Apart`), so a
step moves data of one connection only. For the refinement, only `PushClient` (`Join`), `EraseClient`
(`Leave`), `PeerConnect` and `PeerClose` are visible to the registry.

`RecvBufferProofs`, from `RecvBufferAssumption`, for every layout of the stream and
every way it is cut:

* `BufferTypeCorrect` – the type invariant, in every build: even where an overlapping
  `memcpy` has spoilt the buffer, so that any number may be read as a length, no byte is
  written behind its end. This needs the position's bounds only (`Bounds`), not the contents;
* `NeverFullHolds`, `NothingLeftHolds` – the invariants of the run `framing`, and
  `Refinement` – `Spec => Reassembles`: `recv_data` implements `MessageStream`; all three with
  the premise `CopyOrders = {"up"}` (without it they are false: `framing_overlap`);
* `RefinementWithoutOverlap`, `KeptWithoutOverlap` – the same of every build, for behaviours in
  which the regions of no `memcpy` overlap (`NonOverlapping`, what the C standard demands of the
  caller): the overlap is the only thing in `recv_data` that can break the messages.

There the invariant says that the buffer holds, from its front, the bytes of the
stream between the end of the last message handed over and the last byte taken.
`CopiedMoves` says when `memcpy` does what `memmove` would.

`EasyTcpClientProofs`, from `EasyTcpClientAssumption` and `Proviso` – each client is closed once
(`~CallsAgain`), and on Windows a `NetEnv` is held; `client_reuse` and the
third of the disagreements above show that neither can go:

* `ClosedByItselfHolds`, `OwnSocketHolds` – no client ends another's connection, and an
  open client's number is its own. The invariant `CInv` (`ClientInvariance`) adds where
  the calls stand (`Phases`) and that Winsock's count is at least one more than the clients
  with a `WSAStartup` not yet undone (`Counted`), so that no `WSACleanup` reaches 0.

From `EasyTcpClientAssumption` alone, calls after `close` and a process without `NetEnv` included:

* `HeldInvariance`, `NoLeakedSocketHolds` – no descriptor is lost. `HInv` says that a socket
  that is open is in the descriptor table under the number in its client's `_sock`, that the
  client is not closed, and that `_sock` has a value exactly when a socket was ever opened
  (`Held`). So a `close()` that hits another client's connection (`client_reuse`) leaks
  nothing: both descriptors are free then.

`TcpClientProofs`, for any number of threads and of clients for each:

* `UsesClientsInOrderHolds` – the test program implements `ClientSpec` without calls after
  `close`: the shares of two threads are disjoint (`Disjoint`, over the arithmetic of
  `start` and `end`), and a closed client is behind its thread's `i` (`InOrder`);
* `NoThreadDisturbsAnother` – hence `ClosedByItself` of it, on POSIX or beside a `NetEnv`;
* `DoneReleasesHolds`, `NoFalseAlarmHolds`, `ClientTypeCorrect` – on every platform: a thread that
  is through with `sender` has released its connections, and `on_run` returns false only for a
  client that has lost its own. `Progress` relates the loop a thread is in, and how far, to
  the state of its clients; that a connection made is not unmade, and one lost stays lost, is
  `ConnGoesOn`, from `HInv`.

`ConversationProofs`, for any threads, clients, assignment of them and buffer sizes:

* `StandstillIsForEver` – threads that wait for one another in a circle wait for ever, whatever
  all the others do: a worker is answering one client at a time (`OneInHand`), so none of those
  in the circle can be freed by another (`CircleStays`). What `NoStandstill` excludes, and the
  run `standstill` shows, is a deadlock, not a delay;
* `ForestNoStandstill` – with `RepCap >= RepOut + RecvReqs`, that is, room at the client's end for
  the replies to one `recv` of the worker, and if the connections, as edges between sender threads
  and workers, form a forest: no circle of threads that wait for each other. A client calls
  `on_run` before each request. It may read nothing, as the replies are still on their way; then
  there are `RepOut` at most, and those to what the worker has in hand fit beside them. Otherwise
  it reads one. So replies still to come and requests still in the buffer bound each other
  (`RoomForReplies`), no sender and worker wait for each other on one connection
  (`NotBothWait`), and a circle of waiting threads would be a walk from connection to connection
  that never turns back (`NoEndlessWalk`, from a least set of connections closed under the
  walk). The run `conversation` is an instance; the run `standstill`, where two connections join
  the same two threads, is not, and shows that the forest is needed. With one reply less of room,
  or with `RepOut = RepCap` (a client's end that holds nothing), TLC finds a standstill of one
  client and one worker;
* `OneClientNoStandstill` – the case of one client for each sender thread, also for infinitely many;
* `RoomyNoStandstill` – for any number of clients, joined in any way,
  `RepCap > ReqCap + RecvReqs + RepOut` is enough: no worker ever waits, as
* `BoundedUnderWayHolds` – at most `ReqCap + RecvReqs + RepOut + 1` messages are ever under way on
  a connection, whatever the client's own end holds (`UnderWay`);
* `TypeCorrect`.

`MessageHeader`: `SizesFit` (the real sizes satisfy what `RecvBufferAssumption` asks, for the
buffers of both programs) and `CompletedByOneRecv` (with 332-byte logins `RecvReqs` is 13: the
client's end of a connection must take 13 replies of 1030 bytes for `ForestNoStandstill`).

`Time4MsgProofs`, for any number of cells, rates and delays: `CountsSinceReadingHolds` and
`StatsTypeCorrect`. The invariant bounds each cell's count by the time since the last reading,
those already reset by the time since this one, and the sum by as many bounds as it has terms.

Only model-checked: all liveness (`ImplementsFairRegistry`, `CountSettles`, `AllHandled`,
`AllDelivered`, `ExitCloses`, `LossNoticed`, `EveryClientServed`, `ReportsKeepComing`): TLAPS
does not prove temporal properties under fairness.

## Not modelled

* `CellServer::send2all`, `EasyTcpServer::close` with an open socket,
  `get_elapsed_milliseconds`: nobody calls them.
* Malformed messages (`data_length` that is not the message's length).
* `FD_SET` beyond `FD_SETSIZE`: a matter of memory outside the set. Printing.
* A clock that is set back: `high_resolution_clock` may be the system's clock.
* 32-bit wrap of `_msg_count` and `_client_count`: it takes 2^31 messages in a second, or clients at once.
* The vendored libraries in `src/depends/` (SQLite with its shell and C++ wrapper, cJSON and its
  wrapper, SHA-1, base64): third-party code that no program here calls. They are about 36,000 of
  the 37,700 lines of source, so the share of all lines that is modelled is small although
  the programs' own code, some 1,000 lines, is modelled almost throughout.
* `src/vs_projs/`: project files for the same two programs.

## Order of the modules

The server came first, as it holds the threads that share state: `Sockets`, `CellServer`,
`EasyTcpServer`, `ClientRegistry`; then framing (`RecvBuffer`, `MessageStream`), the client class
(`EasyTcpClient`) and the program over it (`TcpClient`), both sides together (`Conversation`), and
the two places where numbers matter (`MessageHeader`, `Time4Msg`); each with its runs, then its
theorems. What could still be added: clients that reconnect after `on_run` has returned false,
once a program here does so.
