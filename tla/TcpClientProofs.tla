-------------------------- MODULE TcpClientProofs --------------------------
(***************************************************************************)
(* The test client uses EasyTcpClient as it must be used, for any number   *)
(* of threads and of clients for each; so what is proved of EasyTcpClient  *)
(* holds of it.                                                            *)
(***************************************************************************)
EXTENDS TcpClient, EasyTcpClientProofs

USE DEF vars

Loops == {"connect", "on_run", "send", "close", "done", "error"}

PhaseNames == {"idle", "startup", "socket", "connect", "cleanup", "close", "closed"}

\* Each thread is at a client of its own share.
CurOwn ==
  /\ pc \in [Threads -> Loops]
  /\ b_run \in BOOLEAN
  /\ cur \in [Threads -> Int]
  /\ \A t \in Threads : cur[t] \in Mine(t)

\* The clients a thread has closed are those it has left behind in its last loop.
InOrder ==
  /\ phase \in [Clients -> PhaseNames]
  /\ \A t \in Threads : \A i \in Mine(t) :
       phase[i] = "closed" => pc[t] = "done" \/ (pc[t] = "close" /\ i < cur[t])

LEMMA Shares ==
  ASSUME NEW t \in Threads
  PROVE  /\ First(t) \in Nat \ {0} /\ Last(t) \in Nat /\ First(t) <= Last(t)
         /\ Mine(t) \subseteq Clients
<1>1. t \in Nat \ {0} /\ NumPerThread \in Nat \ {0}
  BY TcpClientAssumption
<1>2. t * NumPerThread = (t - 1) * NumPerThread + NumPerThread
  BY <1>1
<1>3. (t - 1) * NumPerThread \in Nat
  BY <1>1
<1>4. First(t) \in Nat \ {0} /\ Last(t) \in Nat /\ First(t) <= Last(t)
  BY <1>1, <1>2, <1>3 DEF First, Last
<1>5. Mine(t) \subseteq Clients
  BY TcpClientAssumption DEF Mine, First, Last
<1> QED BY <1>4, <1>5

LEMMA CurOwnInit == Init => CurOwn
<1> SUFFICES ASSUME Init PROVE CurOwn
  OBVIOUS
<1>1. \A t \in Threads : First(t) \in Mine(t) /\ First(t) \in Int
  BY Shares DEF Mine
<1> QED BY <1>1 DEF Init, CurOwn, Loops

LEMMA AdvanceCur ==
  ASSUME CurOwn, NEW t \in Threads, NEW loop, NEW then, Advance(t, loop, then),
         {loop, then} \subseteq Loops,
         UNCHANGED b_run
  PROVE  CurOwn'
<1>1. /\ First(t) \in Mine(t) /\ First(t) \in Int
      /\ cur[t] < Last(t) => cur[t] + 1 \in Mine(t) /\ cur[t] + 1 \in Int
  BY Shares DEF CurOwn, Mine
<1>2. cur' \in [Threads -> Int] /\ \A s \in Threads : cur'[s] \in Mine(s)
  BY <1>1 DEF Advance, CurOwn
<1>3. pc' \in [Threads -> Loops]
  BY DEF Advance, CurOwn
<1> QED BY <1>2, <1>3 DEF CurOwn

LEMMA CurOwnNext == CurOwn /\ [Next]_vars => CurOwn'
<1> SUFFICES ASSUME CurOwn, [Next]_vars PROVE CurOwn'
  OBVIOUS
<1>1. ASSUME UNCHANGED <<pc, cur>>, b_run' \in BOOLEAN PROVE CurOwn'
  BY <1>1 DEF CurOwn
<1>2. ASSUME NEW t \in Threads, ConnectLoop(t) PROVE CurOwn'
  <2>1. CASE UNCHANGED <<pc, cur>>
    BY <1>1, <1>2, <2>1 DEF ConnectLoop, CurOwn
  <2>2. CASE Advance(t, "connect", Round)
    BY <1>2, <2>2, AdvanceCur DEF ConnectLoop, Round, Loops
  <2>3. CASE pc' = [pc EXCEPT ![t] = "error"] /\ UNCHANGED cur
    BY <1>2, <2>3 DEF ConnectLoop, CurOwn, Loops
  <2> QED BY <1>2, <2>1, <2>2, <2>3 DEF ConnectLoop
<1>3. ASSUME NEW t \in Threads, OnRunCall(t) PROVE CurOwn'
  BY <1>3 DEF OnRunCall, CurOwn, Loops
<1>4. ASSUME NEW t \in Threads, SendCall(t) PROVE CurOwn'
  BY <1>4, AdvanceCur DEF SendCall, Round, Loops
<1>5. ASSUME NEW t \in Threads, CloseLoop(t) PROVE CurOwn'
  <2>1. CASE phase'[cur[t]] = "closed"
    BY <1>5, <2>1, AdvanceCur DEF CloseLoop, Loops
  <2>2. CASE phase'[cur[t]] # "closed"
    BY <1>1, <1>5, <2>2 DEF CloseLoop, CurOwn
  <2> QED BY <2>1, <2>2
<1>6. CASE HandleCommand
  BY <1>1, <1>6 DEF HandleCommand
<1>7. ASSUME NEW i \in Clients, ServerStep(i) PROVE CurOwn'
  BY <1>1, <1>7 DEF ServerStep, CurOwn
<1>8. CASE UNCHANGED vars
  BY <1>1, <1>8 DEF CurOwn
<1> QED BY <1>2, <1>3, <1>4, <1>5, <1>6, <1>7, <1>8 DEF Next, Sender

-----------------------------------------------------------------------------
(* The order of the calls.                                                 *)

\* The shares of two threads do not overlap.
LEMMA Disjoint ==
  ASSUME NEW t \in Threads, NEW s \in Threads, t # s
  PROVE  Mine(t) \cap Mine(s) = {}
<1>1. ASSUME NEW a \in Nat \ {0}, NEW b \in Nat \ {0}, a < b
      PROVE  a * NumPerThread < (b - 1) * NumPerThread + 1
  <2>1. PICK k \in Nat : b - 1 = a + k
    <3>1. b - 1 - a \in Nat /\ b - 1 = a + (b - 1 - a)
      BY <1>1
    <3> QED BY <3>1
  <2>2. NumPerThread \in Nat
    BY TcpClientAssumption
  <2>3. (a + k) * NumPerThread = a * NumPerThread + k * NumPerThread
    BY <2>2
  <2>4. k * NumPerThread \in Nat /\ a * NumPerThread \in Nat
    BY <2>2
  <2> QED BY <2>1, <2>3, <2>4
<1>2. t \in Nat \ {0} /\ s \in Nat \ {0}
  BY TcpClientAssumption
<1>3. Last(t) < First(s) \/ Last(s) < First(t)
  <2>1. CASE t < s
    BY <1>1, <1>2, <2>1 DEF First, Last
  <2>2. CASE s < t
    BY <1>1, <1>2, <2>2 DEF First, Last
  <2> QED BY <1>2, <2>1, <2>2
<1> QED BY <1>3, Shares DEF Mine

LEMMA InOrderInit == Init => InOrder
BY Shares DEF Init, ClientInit, InOrder, PhaseNames

\* What a step of thread t has to do for the calls to stay in order.
LEMMA ThreadInOrder ==
  ASSUME CurOwn, InOrder, NEW t \in Threads, NEW place \in PhaseNames,
         phase' = [phase EXCEPT ![cur[t]] = place],
         \A s \in Threads \ {t} : pc'[s] = pc[s] /\ cur'[s] = cur[s],
         \A i \in Mine(t) :
           phase'[i] = "closed" => pc'[t] = "done" \/ (pc'[t] = "close" /\ i < cur'[t])
  PROVE  InOrder'
<1>1. phase' \in [Clients -> PhaseNames]
  BY DEF InOrder
<1>2. ASSUME NEW s \in Threads, s # t, NEW i \in Mine(s), phase'[i] = "closed"
      PROVE  pc'[s] = "done" \/ (pc'[s] = "close" /\ i < cur'[s])
  <2>1. i # cur[t] /\ i \in Clients
    BY <1>2, Disjoint, Shares DEF CurOwn
  <2>2. phase[i] = "closed"
    BY <1>2, <2>1 DEF InOrder
  <2> QED BY <1>2, <2>2 DEF InOrder
<1>3. First(t)' = First(t) /\ Last(t)' = Last(t)
  BY DEF First, Last
<1> QED BY <1>1, <1>2, <1>3 DEF InOrder, Mine, First, Last

LEMMA InOrderNext == CurOwn /\ InOrder /\ [Next]_vars => InOrder'
<1> SUFFICES ASSUME CurOwn, InOrder, [Next]_vars PROVE InOrder'
  OBVIOUS
<1>a. ASSUME NEW t \in Threads
      PROVE  /\ cur[t] \in Clients /\ cur[t] \in Int /\ phase[cur[t]] \in PhaseNames
             /\ Mine(t) \subseteq Clients /\ \A i \in Mine(t) : i \in Int /\ i <= Last(t)
             /\ Last(t) \in Int
  BY Shares DEF CurOwn, InOrder, Mine
<1>b. pc \in [Threads -> Loops] /\ cur \in [Threads -> Int]
  BY DEF CurOwn
<1>1. ASSUME NEW t \in Threads, ConnectLoop(t) PROVE InOrder'
  <2>1. PICK place \in PhaseNames \ {"closed"} : phase' = [phase EXCEPT ![cur[t]] = place]
    <3>1. CASE Connect(cur[t])
      BY <3>1 DEF Connect, Begin, At, PhaseNames
    <3>2. CASE \/ WsaStartup(cur[t]) \/ OpenSocket(cur[t])
               \/ ConnectSucceeds(cur[t]) \/ ConnectFails(cur[t])
      BY <3>2 DEF WsaStartup, OpenSocket, ConnectSucceeds, ConnectFails, At, PhaseNames
    <3> QED BY <1>1, <3>1, <3>2 DEF ConnectLoop
  <2>2. \A s \in Threads \ {t} : pc'[s] = pc[s] /\ cur'[s] = cur[s]
    BY <1>1, <1>b DEF ConnectLoop, Advance
  <2>3. \A i \in Mine(t) : phase'[i] # "closed"
    BY <1>1, <1>a, <2>1 DEF ConnectLoop, InOrder
  <2> QED BY <2>1, <2>2, <2>3, ThreadInOrder
<1>2. ASSUME NEW t \in Threads, OnRunCall(t) \/ SendCall(t) PROVE InOrder'
  <2>1. phase' = [phase EXCEPT ![cur[t]] = phase[cur[t]]]
    BY <1>2 DEF OnRunCall, SendCall, OnRun, SendData, Begin, At
  <2>2. \A s \in Threads \ {t} : pc'[s] = pc[s] /\ cur'[s] = cur[s]
    BY <1>2, <1>b DEF OnRunCall, SendCall, Advance
  <2>3. \A i \in Mine(t) : phase'[i] # "closed"
    BY <1>2, <1>a, <2>1 DEF OnRunCall, SendCall, InOrder
  <2> QED BY <1>a, <2>1, <2>2, <2>3, ThreadInOrder
<1>3. ASSUME NEW t \in Threads, CloseLoop(t) PROVE InOrder'
  <2>1. PICK place \in PhaseNames : phase' = [phase EXCEPT ![cur[t]] = place]
    BY <1>3 DEF CloseLoop, Close, WsaCleanup, CloseSocket, Begin, At, PhaseNames
  <2>2. \A s \in Threads \ {t} : pc'[s] = pc[s] /\ cur'[s] = cur[s]
    BY <1>3, <1>b DEF CloseLoop, Advance
  <2>3. ASSUME NEW i \in Mine(t), phase'[i] = "closed"
        PROVE  pc'[t] = "done" \/ (pc'[t] = "close" /\ i < cur'[t])
    <3>a. pc[t] = "close" /\ phase[cur[t]] \in PhaseNames
      BY <1>3, <1>a DEF CloseLoop
    <3>b. i = cur[t] \/ (phase[i] = "closed" /\ i < cur[t])
      BY <1>a, <2>1, <2>3, <3>a DEF InOrder
    <3>1. CASE phase'[cur[t]] = "closed"
      <4>1. Advance(t, "close", "done")
        BY <1>3, <3>1 DEF CloseLoop
      <4>2. CASE cur[t] < Last(t)
        <5>1. pc'[t] = "close" /\ cur'[t] = cur[t] + 1
          BY <1>b, <4>1, <4>2 DEF Advance
        <5> QED BY <1>a, <3>b, <5>1
      <4>3. CASE ~(cur[t] < Last(t))
        BY <1>b, <4>1, <4>3 DEF Advance
      <4> QED BY <4>2, <4>3
    <3>2. CASE phase'[cur[t]] # "closed"
      <4>1. UNCHANGED <<pc, cur>>
        BY <1>3, <3>2 DEF CloseLoop
      <4> QED BY <2>3, <3>2, <3>a, <3>b, <4>1
    <3> QED BY <3>1, <3>2
  <2> QED BY <2>1, <2>2, <2>3, ThreadInOrder
<1>4. ASSUME UNCHANGED <<phase, pc, cur>> PROVE InOrder'
  BY <1>4 DEF InOrder, Mine, First, Last
<1>5. CASE HandleCommand
  BY <1>4, <1>5 DEF HandleCommand, clientVars
<1>6. ASSUME NEW i \in Clients, ServerStep(i) PROVE InOrder'
  BY <1>4, <1>6 DEF ServerStep, Server, ServerReads, ServerCloses, ResetArrives
<1>7. CASE UNCHANGED vars
  BY <1>4, <1>7 DEF clientVars
<1> QED BY <1>1, <1>2, <1>3, <1>5, <1>6, <1>7 DEF Next, Sender

LEMMA StepIsClientStep == CurOwn /\ InOrder /\ [Next]_vars => [ClientNext]_clientVars
<1> SUFFICES ASSUME CurOwn, InOrder, [Next]_vars PROVE ClientNext \/ UNCHANGED clientVars
  OBVIOUS
<1>1. ASSUME NEW t \in Threads, Sender(t) PROVE ClientNext
  <2>1. cur[t] \in Clients /\ cur[t] \in Mine(t) /\ cur[t] \in Int
    BY Shares DEF CurOwn
  <2>2. ClientStep(cur[t])
    BY <1>1 DEF Sender, ConnectLoop, OnRunCall, SendCall, CloseLoop, ClientStep
  <2>3. pc[t] # "done"
    BY <1>1 DEF Sender, ConnectLoop, OnRunCall, SendCall, CloseLoop
  <2>4. phase[cur[t]] # "closed"
    BY <2>1, <2>3 DEF InOrder
  <2> QED BY <2>1, <2>2, <2>4 DEF ClientNext
<1>2. CASE HandleCommand
  BY <1>2 DEF HandleCommand
<1>3. ASSUME NEW i \in Clients, ServerStep(i) PROVE ClientNext
  BY <1>3 DEF ServerStep, ClientNext
<1> QED BY <1>1, <1>2, <1>3 DEF Next

\* The test client makes its calls in an order EasyTcpClient allows: it closes
\* each client once, and does not use it afterwards.
THEOREM UsesClientsInOrderHolds == Spec => UsesClientsInOrder
<1>1. Init => ClientInit
  BY DEF Init
<1> QED BY <1>1, CurOwnInit, CurOwnNext, InOrderInit, InOrderNext, StepIsClientStep, PTL
        DEF Spec, UsesClientsInOrder, ClientSpec

\* So no thread of the test client ever ends a connection of another one's, as
\* long as it runs on POSIX or beside a server.
THEOREM NoThreadDisturbsAnother ==
  ~Windows \/ NetEnvHeld => (Spec => []ClosedByItself)
<1> SUFFICES ASSUME ~Windows \/ NetEnvHeld PROVE Spec => []ClosedByItself
  OBVIOUS
<1>1. Proviso
  BY TcpClientAssumption DEF Proviso
<1> QED BY <1>1, UsesClientsInOrderHolds, ClosedByItselfHolds, PTL DEF UsesClientsInOrder

-----------------------------------------------------------------------------
(* What the loops of sender() have done with the clients of the thread.      *)

\* Thread t is through with connecting client i; with closing it.
Reached(t, i) ==
  \/ pc[t] \in {"on_run", "send", "close", "done"}
  \/ pc[t] = "connect" /\ i < cur[t]

Left(t, i) == pc[t] = "done" \/ (pc[t] = "close" /\ i < cur[t])

Progress ==
  \A t \in Threads : \A i \in Mine(t) :
    /\ Reached(t, i) => conn[i] \notin {"none", "fresh"}
    /\ Left(t, i) => phase[i] = "closed"

TInv == HInv /\ CurOwn /\ InOrder /\ Progress /\ NoFalseAlarm

LEMMA ProgressInit == Init => Progress /\ NoFalseAlarm
<1> SUFFICES ASSUME Init PROVE Progress /\ NoFalseAlarm
  OBVIOUS
<1>1. \A t \in Threads : \A i \in Mine(t) : ~(i < First(t)) /\ i \in Int
  BY Shares DEF Mine
<1> QED BY <1>1 DEF Init, ClientInit, Progress, Reached, Left, NoFalseAlarm

\* What a step of thread t has to do for the loops to keep their promises.
LEMMA ThreadProgress ==
  ASSUME TInv, NEW t \in Threads, NEW place,
         phase' = [phase EXCEPT ![cur[t]] = place],
         \A s \in Threads \ {t} : pc'[s] = pc[s] /\ cur'[s] = cur[s],
         \A i \in Clients :
           conn[i] \notin {"none", "fresh"} => conn'[i] \notin {"none", "fresh"},
         \A i \in Mine(t) :
           /\ Reached(t, i)' => \/ Reached(t, i)
                                \/ i = cur[t] /\ conn'[i] \notin {"none", "fresh"}
           /\ Left(t, i)' => \/ Left(t, i) /\ i # cur[t]
                             \/ i = cur[t] /\ phase'[i] = "closed"
  PROVE  Progress'
<1>1. ASSUME NEW s \in Threads, s # t, NEW i \in Mine(s)
      PROVE  /\ Reached(s, i)' => conn'[i] \notin {"none", "fresh"}
             /\ Left(s, i)' => phase'[i] = "closed"
  <2>1. i # cur[t] /\ i \in Clients
    BY <1>1, Disjoint, Shares DEF TInv, CurOwn
  <2>2. phase'[i] = phase[i]
    BY <2>1 DEF TInv, InOrder
  <2>3. pc'[s] = pc[s] /\ cur'[s] = cur[s]
    BY <1>1
  <2>4. (Reached(s, i)' <=> Reached(s, i)) /\ (Left(s, i)' <=> Left(s, i))
    BY <2>3 DEF Reached, Left
  <2> QED BY <1>1, <2>1, <2>2, <2>4 DEF TInv, Progress
<1>2. ASSUME NEW i \in Mine(t)
      PROVE  /\ Reached(t, i)' => conn'[i] \notin {"none", "fresh"}
             /\ Left(t, i)' => phase'[i] = "closed"
  <2>1. i \in Clients
    BY Shares
  <2>2. i # cur[t] => phase'[i] = phase[i]
    BY <2>1 DEF TInv, InOrder
  <2> QED BY <1>2, <2>1, <2>2 DEF TInv, Progress
<1>3. \A s \in Threads : Mine(s)' = Mine(s)
  BY DEF Mine, First, Last
<1> QED BY <1>1, <1>2, <1>3 DEF Progress

LEMMA ProgressNext == TInv /\ [Next]_vars => Progress'
<1> SUFFICES ASSUME TInv, [Next]_vars PROVE Progress'
  OBVIOUS
<1> USE DEF PhaseNames
<1>a. ASSUME NEW t \in Threads
      PROVE  /\ cur[t] \in Clients /\ cur[t] \in Int /\ cur[t] \in Mine(t)
             /\ \A i \in Mine(t) :
                  /\ i \in Int /\ First(t) <= i /\ i <= Last(t)
             /\ First(t) \in Int /\ Last(t) \in Int
  BY Shares DEF TInv, CurOwn, Mine
<1>b. pc \in [Threads -> Loops] /\ cur \in [Threads -> Int]
  BY DEF TInv, CurOwn
<1>c. \A i \in Clients :
        conn[i] \notin {"none", "fresh"} => conn'[i] \notin {"none", "fresh"}
  BY StepIsClientStep, ConnGoesOn DEF TInv
<1>d. phase \in [Clients -> PhaseNames]
  BY DEF TInv, InOrder
<1>1. ASSUME NEW t \in Threads, ConnectLoop(t) PROVE Progress'
  <2>1. PICK place : phase' = [phase EXCEPT ![cur[t]] = place]
    BY <1>1 DEF ConnectLoop, Connect, Begin, WsaStartup, OpenSocket, ConnectSucceeds,
       ConnectFails, At
  <2>2. \A s \in Threads \ {t} : pc'[s] = pc[s] /\ cur'[s] = cur[s]
    BY <1>1, <1>b DEF ConnectLoop, Advance
  <2>3. \A i \in Mine(t) : ~Left(t, i)'
    <3>1. pc'[t] # "done" /\ (pc'[t] = "close" => cur'[t] = First(t))
      BY <1>1, <1>b DEF ConnectLoop, Advance, Round
    <3> QED BY <1>a, <3>1 DEF Left
  <2>4. ASSUME NEW i \in Mine(t), Reached(t, i)'
        PROVE  Reached(t, i) \/ (i = cur[t] /\ conn'[i] \notin {"none", "fresh"})
    <3>1. CASE UNCHANGED <<pc, cur>>
      BY <2>4, <3>1 DEF Reached
    <3>2. CASE ConnectSucceeds(cur[t]) /\ Advance(t, "connect", Round)
      <4>1. conn'[cur[t]] \notin {"none", "fresh"}
        <5>1. sock[cur[t]] # None
          BY <3>2 DEF ConnectSucceeds, Wire
        <5>2. conn[cur[t]] # "none"
          BY <1>a, <5>1 DEF TInv, HInv, Held
        <5>3. CASE conn[cur[t]] = "fresh"
          <6>1. Wire(cur[t]) = cur[t]
            BY <1>a, <5>1, <5>3 DEF TInv, HInv, Held, Open, Wire
          <6> QED BY <1>a, <3>2, <6>1 DEF ConnectSucceeds, TInv, HInv, ClientTypeOK
        <5>4. CASE conn[cur[t]] # "fresh"
          BY <1>a, <1>c, <5>2, <5>4
        <5> QED BY <5>3, <5>4
      <4>2. pc[t] = "connect"
        BY <1>1 DEF ConnectLoop
      <4>3. i <= cur[t]
        <5>1. CASE cur[t] < Last(t)
          <6>1. pc'[t] = "connect" /\ cur'[t] = cur[t] + 1
            BY <1>b, <3>2, <5>1 DEF Advance
          <6> QED BY <1>a, <2>4, <6>1 DEF Reached
        <5>2. CASE ~(cur[t] < Last(t))
          BY <1>a, <5>2
        <5> QED BY <5>1, <5>2
      <4>4. i = cur[t] \/ i < cur[t]
        BY <1>a, <4>3
      <4> QED BY <4>1, <4>2, <4>4 DEF Reached
    <3>3. CASE pc' = [pc EXCEPT ![t] = "error"]
      BY <1>b, <2>4, <3>3 DEF Reached
    <3> QED BY <1>1, <3>1, <3>2, <3>3 DEF ConnectLoop
  <2> QED BY <1>c, <2>1, <2>2, <2>3, <2>4, ThreadProgress
<1>2. ASSUME NEW t \in Threads, OnRunCall(t) \/ SendCall(t) PROVE Progress'
  <2>1. phase' = [phase EXCEPT ![cur[t]] = phase[cur[t]]]
    BY <1>2 DEF OnRunCall, SendCall, OnRun, SendData, Begin, At
  <2>2. \A s \in Threads \ {t} : pc'[s] = pc[s] /\ cur'[s] = cur[s]
    BY <1>2, <1>b DEF OnRunCall, SendCall, Advance
  <2>3. \A i \in Mine(t) : Reached(t, i)
    BY <1>2 DEF OnRunCall, SendCall, Reached
  <2>4. \A i \in Mine(t) : ~Left(t, i)'
    <3>1. pc'[t] # "done" /\ (pc'[t] = "close" => cur'[t] = First(t))
      BY <1>2, <1>b DEF OnRunCall, SendCall, Advance, Round
    <3> QED BY <1>a, <3>1 DEF Left
  <2> QED BY <1>c, <2>1, <2>2, <2>3, <2>4, ThreadProgress
<1>3. ASSUME NEW t \in Threads, CloseLoop(t) PROVE Progress'
  <2>1. PICK place : phase' = [phase EXCEPT ![cur[t]] = place]
    BY <1>3 DEF CloseLoop, Close, WsaCleanup, CloseSocket, Begin, At
  <2>2. \A s \in Threads \ {t} : pc'[s] = pc[s] /\ cur'[s] = cur[s]
    BY <1>3, <1>b DEF CloseLoop, Advance
  <2>3. \A i \in Mine(t) : Reached(t, i)
    BY <1>3 DEF CloseLoop, Reached
  <2>4. ASSUME NEW i \in Mine(t), Left(t, i)'
        PROVE  (Left(t, i) /\ i # cur[t]) \/ (i = cur[t] /\ phase'[i] = "closed")
    <3>a. pc[t] = "close"
      BY <1>3 DEF CloseLoop
    <3>1. CASE phase'[cur[t]] = "closed"
      <4>1. Advance(t, "close", "done")
        BY <1>3, <3>1 DEF CloseLoop
      <4>2. i <= cur[t]
        <5>1. CASE cur[t] < Last(t)
          <6>1. pc'[t] = "close" /\ cur'[t] = cur[t] + 1
            BY <1>b, <4>1, <5>1 DEF Advance
          <6> QED BY <1>a, <2>4, <6>1 DEF Left
        <5>2. CASE ~(cur[t] < Last(t))
          BY <1>a, <5>2
        <5> QED BY <5>1, <5>2
      <4>3. i = cur[t] \/ (i < cur[t] /\ i # cur[t])
        BY <1>a, <4>2
      <4> QED BY <3>1, <3>a, <4>3 DEF Left
    <3>2. CASE phase'[cur[t]] # "closed"
      <4>1. UNCHANGED <<pc, cur>>
        BY <1>3, <3>2 DEF CloseLoop
      <4>2. i < cur[t]
        BY <2>4, <3>a, <4>1 DEF Left
      <4> QED BY <1>a, <3>a, <4>2 DEF Left
    <3> QED BY <3>1, <3>2
  <2> QED BY <1>c, <2>1, <2>2, <2>3, <2>4, ThreadProgress
<1>4. ASSUME UNCHANGED <<phase, pc, cur>> PROVE Progress'
  <2>1. \A t \in Threads : \A i \in Mine(t) :
          /\ i \in Clients
          /\ Reached(t, i)' <=> Reached(t, i)
          /\ Left(t, i)' <=> Left(t, i)
    BY <1>4, Shares DEF Reached, Left
  <2>2. \A t \in Threads : Mine(t)' = Mine(t)
    BY DEF Mine, First, Last
  <2> QED BY <1>4, <1>c, <2>1, <2>2 DEF TInv, Progress
<1>5. CASE HandleCommand
  BY <1>4, <1>5 DEF HandleCommand, clientVars
<1>6. ASSUME NEW i \in Clients, ServerStep(i) PROVE Progress'
  BY <1>4, <1>6 DEF ServerStep, Server, ServerReads, ServerCloses, ResetArrives
<1>7. CASE UNCHANGED vars
  BY <1>4, <1>7 DEF clientVars
<1> QED BY <1>1, <1>2, <1>3, <1>5, <1>6, <1>7 DEF Next, Sender

\* on_run is called on a client that has been connected, and its socket is in the
\* table under _sock until it is lost.
LEMMA NoFalseAlarmNext == TInv /\ [Next]_vars => NoFalseAlarm'
<1> SUFFICES ASSUME TInv, [Next]_vars PROVE NoFalseAlarm'
  OBVIOUS
<1>1. \A i \in Clients : conn[i] \in {"reset", "gone"} => conn'[i] \in {"reset", "gone"}
  BY StepIsClientStep, ConnGoesOn DEF TInv
<1>2. ASSUME NEW t \in Threads, OnRunCall(t) PROVE NoFalseAlarm'
  <2>1. cur[t] \in Clients /\ cur[t] \in Mine(t) /\ pc[t] = "on_run"
    BY <1>2, Shares DEF OnRunCall, TInv, CurOwn
  <2>2. conn[cur[t]] \notin {"none", "fresh"}
    BY <2>1 DEF TInv, Progress, Reached
  <2>3. PICK ok \in RunResults(cur[t]) :
          noticed' = [noticed EXCEPT ![cur[t]] = @ \/ ~ok]
    BY <1>2 DEF OnRunCall, OnRun
  <2>4. ASSUME ~ok PROVE conn[cur[t]] \in {"reset", "gone"}
    <3>1. CASE conn[cur[t]] \in Open
      <4>1. Wire(cur[t]) = cur[t] /\ cur[t] # None
        BY <2>1, <3>1, EasyTcpClientAssumption DEF TInv, HInv, Held, Wire
      <4> QED BY <2>2, <2>3, <2>4, <4>1 DEF RunResults
    <3>2. CASE conn[cur[t]] \notin Open
      BY <2>1, <2>2, <3>2 DEF Open, TInv, HInv, ClientTypeOK
    <3> QED BY <3>1, <3>2
  <2>5. UNCHANGED conn
    BY <1>2 DEF OnRunCall, OnRun
  <2>6. ASSUME NEW i \in Clients, noticed'[i] PROVE conn'[i] \in {"reset", "gone"}
    <3>1. CASE noticed[i]
      BY <2>5, <3>1 DEF TInv, NoFalseAlarm
    <3>2. CASE ~noticed[i]
      <4>1. i = cur[t] /\ ~ok
        BY <2>1, <2>3, <2>6, <3>2 DEF TInv, HInv, ClientTypeOK
      <4> QED BY <2>4, <2>5, <4>1
    <3> QED BY <3>1, <3>2
  <2> QED BY <2>6 DEF NoFalseAlarm
<1>3. ASSUME UNCHANGED noticed PROVE NoFalseAlarm'
  BY <1>1, <1>3 DEF TInv, NoFalseAlarm
<1>4. ASSUME NEW t \in Threads, ConnectLoop(t) \/ SendCall(t) \/ CloseLoop(t)
      PROVE  UNCHANGED noticed
  BY <1>4 DEF ConnectLoop, Connect, WsaStartup, OpenSocket, ConnectSucceeds, ConnectFails,
     SendCall, SendData, CloseLoop, Close, WsaCleanup, CloseSocket
<1>5. CASE HandleCommand
  BY <1>3, <1>5 DEF HandleCommand, clientVars
<1>6. ASSUME NEW i \in Clients, ServerStep(i) PROVE UNCHANGED noticed
  BY <1>6 DEF ServerStep, Server, ServerReads, ServerCloses, ResetArrives
<1>7. CASE UNCHANGED vars
  BY <1>3, <1>7 DEF clientVars
<1> QED BY <1>2, <1>3, <1>4, <1>5, <1>6, <1>7 DEF Next, Sender

LEMMA TInvariance == Spec => []TInv
<1>1. Init => TInv
  <2>1. Init => ClientInit
    BY DEF Init
  <2> QED BY <2>1, HeldInit, CurOwnInit, InOrderInit, ProgressInit DEF TInv
<1>2. TInv /\ [Next]_vars => TInv'
  BY StepIsClientStep, HeldNext, CurOwnNext, InOrderNext, ProgressNext, NoFalseAlarmNext
     DEF TInv
<1> QED BY <1>1, <1>2, PTL DEF Spec

\* A sender() that has come to its end has ended all connections of its clients.
THEOREM DoneReleasesHolds == Spec => []DoneReleases
<1>1. TInv => DoneReleases
  <2> SUFFICES ASSUME TInv, NEW t \in Threads, pc[t] = "done", NEW i \in Mine(t)
               PROVE  conn[i] = "gone"
    BY DEF DoneReleases
  <2>1. i \in Clients
    BY Shares
  <2>2. conn[i] \notin {"none", "fresh"} /\ phase[i] = "closed"
    BY DEF TInv, Progress, Reached, Left
  <2> QED BY <2>1, <2>2 DEF TInv, HInv, Held, Open, ClientTypeOK
<1> QED BY <1>1, TInvariance, PTL

\* on_run returns false only for a client that has lost its connection.
THEOREM NoFalseAlarmHolds == Spec => []NoFalseAlarm
<1>1. TInv => NoFalseAlarm
  BY DEF TInv
<1> QED BY <1>1, TInvariance, PTL

\* The types of the test client's variables, on any platform.
THEOREM ClientTypeCorrect == Spec => []TypeOK
<1>1. TInv => TypeOK
  <2> SUFFICES ASSUME TInv PROVE TypeOK
    OBVIOUS
  <2>1. \A t \in Threads : cur[t] \in Clients
    BY Shares DEF TInv, CurOwn
  <2> QED BY <2>1 DEF TInv, HInv, CurOwn, TypeOK, Loops
<1> QED BY <1>1, TInvariance, PTL
=============================================================================
