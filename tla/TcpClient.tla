----------------------------- MODULE TcpClient -----------------------------
(***************************************************************************)
(* The test client (tcp_client/main.cpp): sender threads that connect      *)
(* their share of the clients, call on_run and send_data on them in turn   *)
(* while b_run holds, and close them; and the thread that reads "exit".    *)
(* The main thread only spins, so the process lives on.                    *)
(***************************************************************************)
EXTENDS EasyTcpClient

CONSTANTS
  Threads,        \* the sender threads (t_count), numbered from 1
  NumPerThread    \* clients of one thread (num_per_thread)

ASSUME TcpClientAssumption ==
  /\ Threads \subseteq Nat \ {0}
  /\ NumPerThread \in Nat \ {0}
  /\ Clients = UNION {(t - 1) * NumPerThread + 1 .. t * NumPerThread : t \in Threads}
  /\ ~CallsAgain

VARIABLES
  b_run,   \* "exit" has not been read yet
  pc,      \* pc[t]: the loop thread t is in
  cur      \* cur[t]: its i

vars == <<clientVars, b_run, pc, cur>>

\* pc: "connect"; "on_run", "send": the two calls of the round; "close";
\* "done": all closed; "error": a connect failed and sender() returned.
TypeOK ==
  /\ ClientTypeOK
  /\ b_run \in BOOLEAN
  /\ pc \in [Threads -> {"connect", "on_run", "send", "close", "done", "error"}]
  /\ cur \in [Threads -> Clients]

First(t) == (t - 1) * NumPerThread + 1
Last(t) == t * NumPerThread
Mine(t) == First(t)..Last(t)

Init ==
  /\ ClientInit
  /\ b_run = TRUE
  /\ pc = [t \in Threads |-> "connect"]
  /\ cur = [t \in Threads |-> First(t)]

\* Mutant: i <= end.
AdvanceTooFar(t, loop, then) ==
  /\ pc' = [pc EXCEPT ![t] = IF cur[t] <= Last(t) THEN loop ELSE then]
  /\ cur' = [cur EXCEPT ![t] = IF cur[t] <= Last(t) THEN @ + 1 ELSE First(t)]

\* Mutant: i < end - 1.
AdvanceShort(t, loop, then) ==
  /\ pc' = [pc EXCEPT ![t] = IF cur[t] + 1 < Last(t) THEN loop ELSE then]
  /\ cur' = [cur EXCEPT ![t] = IF cur[t] + 1 < Last(t) THEN @ + 1 ELSE First(t)]

\* Thread t goes on to the next client of its loop, or from the last to `then`.
Advance(t, loop, then) ==
  /\ pc' = [pc EXCEPT ![t] = IF cur[t] < Last(t) THEN loop ELSE then]
  /\ cur' = [cur EXCEPT ![t] = IF cur[t] < Last(t) THEN @ + 1 ELSE First(t)]

\* Mutant: b_run read once, as a compiler may if it is not volatile.
RoundForever == "on_run"

\* while (b_run), tested where a round begins.
Round == IF b_run THEN "on_run" ELSE "close"

-----------------------------------------------------------------------------
(* sender(t)                                                               *)

ConnectLoop(t) ==
  LET i == cur[t] IN
  /\ pc[t] = "connect"
  /\ \/ (Connect(i) \/ WsaStartup(i) \/ OpenSocket(i)) /\ UNCHANGED <<pc, cur>>
     \/ ConnectSucceeds(i) /\ Advance(t, "connect", Round)
     \/ ConnectFails(i) /\ pc' = [pc EXCEPT ![t] = "error"] /\ UNCHANGED cur
  /\ UNCHANGED b_run

OnRunCall(t) ==
  /\ pc[t] = "on_run"
  /\ OnRun(cur[t])
  /\ pc' = [pc EXCEPT ![t] = "send"]
  /\ UNCHANGED <<b_run, cur>>

SendCall(t) ==
  /\ pc[t] = "send"
  /\ SendData(cur[t])
  /\ Advance(t, "on_run", Round)
  /\ UNCHANGED b_run

\* Mutant: the loop that closes begins again when it is through.
CloseLoopAgain(t) ==
  LET i == cur[t] IN
  /\ pc[t] = "close"
  /\ Close(i) \/ WsaCleanup(i) \/ CloseSocket(i)
  /\ IF phase'[i] = "closed" THEN Advance(t, "close", "close") ELSE UNCHANGED <<pc, cur>>
  /\ UNCHANGED b_run

CloseLoop(t) ==
  LET i == cur[t] IN
  /\ pc[t] = "close"
  /\ Close(i) \/ WsaCleanup(i) \/ CloseSocket(i)
  /\ IF phase'[i] = "closed" THEN Advance(t, "close", "done") ELSE UNCHANGED <<pc, cur>>
  /\ UNCHANGED b_run

Sender(t) == ConnectLoop(t) \/ OnRunCall(t) \/ SendCall(t) \/ CloseLoop(t)

\* handle_command reads "exit".
HandleCommand ==
  /\ alive
  /\ b_run
  /\ b_run' = FALSE
  /\ UNCHANGED <<clientVars, pc, cur>>

ServerStep(i) == Server(i) /\ UNCHANGED <<b_run, pc, cur>>

Answered(i) == ResetArrives(i) /\ UNCHANGED <<b_run, pc, cur>>

-----------------------------------------------------------------------------
Next ==
  \/ \E t \in Threads : Sender(t)
  \/ HandleCommand
  \/ \E i \in Clients : ServerStep(i)

Spec == Init /\ [][Next]_vars

\* The threads run, and TCP answers what comes for a closed socket with a reset.  A
\* server need not read, and need not close; nobody need type "exit".
FairSpec ==
  /\ Spec
  /\ \A t \in Threads : WF_vars(Sender(t))
  /\ \A i \in Clients : WF_vars(Answered(i))

-----------------------------------------------------------------------------
(* Properties.                                                             *)

\* main.cpp keeps to the order of calls EasyTcpClient needs, which nothing else
\* enforces: the threads' shares do not overlap, and no thread uses a client
\* after its one close() (sender, main.cpp:15-48).  So what holds of ClientSpec
\* holds of the test client.
UsesClientsInOrder == ClientSpec

\* A thread that has come to the end of sender() has left no connection open:
\* of its clients each was connected, and each has been closed, whatever the
\* servers and the other threads did to them meanwhile (sender, main.cpp:46-48).
DoneReleases ==
  \A t \in Threads : pc[t] = "done" => \A i \in Mine(t) : conn[i] = "gone"

\* on_run of the test program returns false only for a client that has lost its
\* connection: not before it is connected, not when the server is silent, and not
\* because of another client's socket (on_run, easy_tcp_client.hpp:71-89).
NoFalseAlarm == \A i \in Clients : noticed[i] => conn[i] \in {"reset", "gone"}

\* Thread t is blocked in send() to a server that is up and does not read.
HeldUp(t) ==
  LET k == Wire(cur[t]) IN
  alive /\ pc[t] = "send" /\ k # None /\ conn[k] = "up" /\ unread[k] = SendCap

\* After "exit" a thread closes all its connections in the end, unless it had
\* returned because of a failed connect, or a SIGPIPE has ended the process, or a
\* server it is sending to, one of its own, never reads again: servers that close, at
\* any moment, and the servers and failures of other threads do not keep it
\* (sender, main.cpp:39-48; the blocking send() of send_data).
ExitCloses ==
  \A t \in Threads :
    \/ ~b_run ~> (~alive \/ pc[t] = "error" \/ \A i \in Mine(t) : conn[i] = "gone")
    \/ <>[]HeldUp(t)

\* A client whose server has closed finds out: though recv_data takes the end of
\* the stream for success, the send_data between two on_runs draws a reset, and
\* on_run returns false, or SIGPIPE strikes (on_run, easy_tcp_client.hpp:83),
\* unless the program is to exit before, or its thread is held up by a server that
\* does not read.
LossNoticed ==
  \A t \in Threads :
    \/ \A i \in Mine(t) :
         (conn[i] \in {"eof", "reset"} /\ pc[t] # "error") ~>
           (noticed[i] \/ ~alive \/ ~b_run \/ pc[t] = "error")
    \/ <>[]HeldUp(t)
=============================================================================
