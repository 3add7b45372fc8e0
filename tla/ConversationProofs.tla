------------------------- MODULE ConversationProofs -------------------------
(***************************************************************************)
(* When the threads of client and server cannot all come to wait for one   *)
(* another, for every number of threads and clients and every size of the  *)
(* buffers.  There are two ways to be sure, each with an invariant that    *)
(* counts the messages of a connection: no sender and worker wait for each *)
(* other on one connection, and the connections form no circle; or no      *)
(* worker waits at all.                                                    *)
(***************************************************************************)
EXTENDS Conversation, FiniteSetTheorems, WellFoundedInduction, TLAPS

USE DEF vars

\* Threads are at clients of their own, workers visit clients of their own.
Placed ==
  /\ TypeOK
  /\ \A t \in Senders : senderOf[cur[t]] = t
  /\ \A w \in Workers : \A c \in ready[w] : cellOf[c] = w

LEMMA Sizes ==
  /\ ReqCap \in Nat \ {0} /\ RepCap \in Nat \ {0}
  /\ RecvReqs \in Nat \ {0} /\ RecvReps \in Nat \ {0}
  /\ ReqOut \in Nat /\ RepOut \in Nat
BY ConversationAssumption

\* A recv() takes no more messages than there are, and may take none as long as the
\* sender's end can hold them all.
LEMMA TakenFacts ==
  ASSUME NEW n \in Nat, NEW out \in Nat, NEW most \in Nat, NEW k \in Taken(n, out, most)
  PROVE  k \in Nat /\ k <= n /\ k <= most /\ (n > out => k >= 1)
BY DEF Taken

LEMMA PlacedInit == Init => Placed
BY Sizes, ConversationAssumption DEF Init, Placed, TypeOK

LEMMA PlacedNext == Placed /\ [Next]_vars => Placed'
<1> SUFFICES ASSUME Placed, [Next]_vars PROVE Placed'
  OBVIOUS
<1> USE Sizes DEF Placed, TypeOK
<1>1. ASSUME NEW t \in Senders, OnRun(t) PROVE Placed'
  <2>1. cur[t] \in Clients /\ rep[cur[t]] \in Nat /\ rep[cur[t]] <= RepCap
    OBVIOUS
  <2>2. PICK n \in Taken(rep[cur[t]], RepOut, RecvReps) :
          rep' = [rep EXCEPT ![cur[t]] = @ - n]
    BY <1>1 DEF OnRun
  <2>3. n \in Nat /\ n <= rep[cur[t]]
    BY <2>1, <2>2, TakenFacts
  <2>4. rep[cur[t]] - n \in 0..RepCap
    BY <2>1, <2>3
  <2>5. rep' \in [Clients -> 0..RepCap]
    BY <2>2, <2>4
  <2> QED BY <1>1, <2>5 DEF OnRun
<1>2. ASSUME NEW t \in Senders, SendData(t) PROVE Placed'
  <2>1. cur[t] \in Clients /\ req[cur[t]] \in 0..ReqCap /\ nextOf[cur[t]] \in Clients
        /\ senderOf[nextOf[cur[t]]] = t
    BY ConversationAssumption
  <2>2. req' \in [Clients -> 0..ReqCap]
    BY <1>2, <2>1 DEF SendData
  <2>3. cur' \in [Senders -> Clients] /\ \A s \in Senders : senderOf[cur'[s]] = s
    BY <1>2, <2>1 DEF SendData
  <2> QED BY <1>2, <2>2, <2>3 DEF SendData
<1>3. ASSUME NEW w \in Workers, SelectClients(w) PROVE Placed'
  BY <1>3 DEF SelectClients, Readable
<1>4. ASSUME NEW w \in Workers, NEW c \in Clients, RecvData(w, c) PROVE Placed'
  <2>1. PICK n \in Taken(req[c], ReqOut, RecvReqs) :
          req' = [req EXCEPT ![c] = @ - n] /\ hand' = [hand EXCEPT ![c] = n]
    BY <1>4 DEF RecvData
  <2>2. n \in Nat /\ n <= req[c] /\ n <= RecvReqs
    BY <2>1, TakenFacts
  <2> QED BY <1>4, <2>1, <2>2 DEF RecvData
<1>5. ASSUME NEW w \in Workers, NEW c \in Clients, OnNetMsg(w, c) PROVE Placed'
  BY <1>5 DEF OnNetMsg
<1>6. CASE UNCHANGED vars
  BY <1>6
<1> QED BY <1>1, <1>2, <1>3, <1>4, <1>5, <1>6 DEF Next, Sender, Worker

\* The types of Conversation: buffers hold no more than their capacities, and a
\* worker has no more requests in its hands than one recv() completes.
THEOREM TypeCorrect == Spec => []TypeOK
<1>1. Placed => TypeOK
  BY DEF Placed
<1> QED BY PlacedInit, PlacedNext, <1>1, PTL DEF Spec

-----------------------------------------------------------------------------
(* What a standstill is: nobody in it ever runs again.                     *)

\* A worker has received from one client at a time.
OneInHand ==
  \A c, d \in Clients : cellOf[c] = cellOf[d] /\ hand[c] > 0 /\ hand[d] > 0 => c = d

LEMMA OneInHandInit == Init => OneInHand
BY DEF Init, OneInHand

LEMMA OneInHandNext == Placed /\ OneInHand /\ [Next]_vars => OneInHand'
<1> SUFFICES ASSUME Placed, OneInHand, [Next]_vars PROVE OneInHand'
  OBVIOUS
<1>a. hand \in [Clients -> 0..RecvReqs] /\ \A c \in Clients : hand[c] \in Nat
  BY Sizes DEF Placed, TypeOK
<1>1. ASSUME NEW w \in Workers, NEW c \in Clients, RecvData(w, c) PROVE OneInHand'
  <2>1. PICK n : hand' = [hand EXCEPT ![c] = n]
    BY <1>1 DEF RecvData
  <2>2. cellOf[c] = w /\ \A d \in Clients : cellOf[d] = w => ~(hand[d] > 0)
    BY <1>1 DEF RecvData, Answering, Placed
  <2> QED BY <1>a, <2>1, <2>2 DEF OneInHand
<1>2. ASSUME NEW w \in Workers, NEW c \in Clients, OnNetMsg(w, c) PROVE OneInHand'
  <2>1. \A d \in Clients : hand'[d] > 0 => hand[d] > 0
    BY <1>2, <1>a DEF OnNetMsg
  <2> QED BY <2>1 DEF OneInHand
<1>3. ASSUME UNCHANGED hand PROVE OneInHand'
  BY <1>3 DEF OneInHand
<1> QED BY <1>1, <1>2, <1>3 DEF Next, Sender, Worker, OnRun, SendData, SelectClients

LEMMA CircleStays ==
  ASSUME NEW S \in SUBSET Senders, NEW W \in SUBSET Workers,
         Placed, OneInHand, Circle(S, W), [Next]_vars
  PROVE  Circle(S, W)'
<1>a. /\ req \in [Clients -> 0..ReqCap] /\ hand \in [Clients -> 0..RecvReqs]
      /\ rep \in [Clients -> 0..RepCap] /\ cur \in [Senders -> Clients]
      /\ call \in [Senders -> {"on_run", "send_data"}]
      /\ \A t \in Senders : senderOf[cur[t]] = t
  BY DEF Placed, TypeOK
<1>b. \A t \in S : /\ cur[t] \in Clients /\ cellOf[cur[t]] \in W
                   /\ call[t] = "send_data" /\ req[cur[t]] = ReqCap
  BY <1>a DEF Circle, SenderWaits
<1>c. \A w \in W : \A c \in Clients :
        cellOf[c] = w /\ hand[c] > 0 => rep[c] = RepCap /\ senderOf[c] \in S
  <2> SUFFICES ASSUME NEW w \in W, NEW c \in Clients, cellOf[c] = w, hand[c] > 0
               PROVE  rep[c] = RepCap /\ senderOf[c] \in S
    OBVIOUS
  <2>1. PICK d \in Clients : WorkerWaits(w, d) /\ senderOf[d] \in S
    BY DEF Circle
  <2>2. d = c
    BY <2>1 DEF WorkerWaits, OneInHand
  <2> QED BY <2>1, <2>2 DEF WorkerWaits
<1>d. \A w \in W : Answering(w)
  BY DEF Circle, WorkerWaits, Answering
\* It is enough that the steps leave alone what those in the circle look at.
<1>e. SUFFICES /\ \A t \in S : call'[t] = call[t] /\ cur'[t] = cur[t]
               /\ \A c \in Clients :
                    /\ cellOf[c] \in W => hand'[c] = hand[c]
                    /\ cellOf[c] \in W /\ req[c] = ReqCap => req'[c] = ReqCap
                    /\ senderOf[c] \in S /\ rep[c] = RepCap => rep'[c] = RepCap
  <2>1. \A t \in S : (SenderWaits(t) /\ cellOf[cur[t]] \in W)'
    BY <1>b, <1>e DEF SenderWaits
  <2>2. ASSUME NEW w \in W PROVE (\E c \in Clients : WorkerWaits(w, c) /\ senderOf[c] \in S)'
    <3>1. PICK c \in Clients : WorkerWaits(w, c) /\ senderOf[c] \in S
      BY DEF Circle
    <3>2. hand'[c] = hand[c] /\ rep'[c] = RepCap
      BY <1>e, <3>1 DEF WorkerWaits
    <3> QED BY <3>1, <3>2 DEF WorkerWaits
  <2> QED BY <2>1, <2>2 DEF Circle
<1>1. ASSUME NEW t \in Senders, OnRun(t)
      PROVE  /\ \A s \in S : call'[s] = call[s] /\ cur'[s] = cur[s]
             /\ \A c \in Clients :
                  /\ hand'[c] = hand[c] /\ req'[c] = req[c]
                  /\ senderOf[c] \in S => rep'[c] = rep[c]
  <2>1. t \notin S
    BY <1>1, <1>b DEF OnRun
  <2>2. \E n : rep' = [rep EXCEPT ![cur[t]] = n]
    BY <1>1 DEF OnRun
  <2> QED BY <1>1, <1>a, <2>1, <2>2 DEF OnRun
<1>2. ASSUME NEW t \in Senders, SendData(t)
      PROVE  /\ \A s \in S : call'[s] = call[s] /\ cur'[s] = cur[s]
             /\ \A c \in Clients :
                  /\ hand'[c] = hand[c] /\ rep'[c] = rep[c]
                  /\ req[c] = ReqCap => req'[c] = ReqCap
  <2>1. req[cur[t]] # ReqCap
    BY <1>2, Sizes DEF SendData
  <2>2. t \notin S
    BY <1>b, <2>1
  <2> QED BY <1>2, <1>a, <2>1, <2>2 DEF SendData
<1>3. ASSUME NEW w \in Workers, SelectClients(w)
      PROVE  UNCHANGED <<req, hand, rep, cur, call>>
  BY <1>3 DEF SelectClients
<1>4. ASSUME NEW w \in Workers, NEW d \in Clients, RecvData(w, d)
      PROVE  /\ UNCHANGED <<rep, cur, call>>
             /\ \A c \in Clients : cellOf[c] \in W => hand'[c] = hand[c] /\ req'[c] = req[c]
  <2>1. cellOf[d] = w /\ w \notin W
    BY <1>4, <1>d DEF RecvData, Placed
  <2>2. PICK n : req' = [req EXCEPT ![d] = @ - n] /\ hand' = [hand EXCEPT ![d] = n]
    BY <1>4 DEF RecvData
  <2> QED BY <1>4, <1>a, <2>1, <2>2 DEF RecvData
<1>5. ASSUME NEW w \in Workers, NEW d \in Clients, OnNetMsg(w, d)
      PROVE  /\ UNCHANGED <<req, cur, call>>
             /\ \A c \in Clients :
                  /\ cellOf[c] \in W => hand'[c] = hand[c]
                  /\ rep[c] = RepCap => rep'[c] = RepCap
  <2>1. rep[d] # RepCap /\ hand[d] > 0 /\ cellOf[d] = w
    BY <1>5, Sizes DEF OnNetMsg
  <2>2. w \notin W
    BY <1>c, <2>1
  <2> QED BY <1>5, <1>a, <2>1, <2>2 DEF OnNetMsg
<1> QED BY <1>1, <1>2, <1>3, <1>4, <1>5 DEF Next, Sender, Worker

\* Threads that wait for one another in a circle wait for ever, whatever all the
\* others do: the code has no timeout on either send().
THEOREM StandstillIsForEver ==
  ASSUME NEW S \in SUBSET Senders, NEW W \in SUBSET Workers
  PROVE  Spec => [](Circle(S, W) => []Circle(S, W))
<1> DEFINE Inv == Placed /\ OneInHand
<1>1. Init => Inv
  BY PlacedInit, OneInHandInit
<1>2. Inv /\ [Next]_vars => Inv'
  BY PlacedNext, OneInHandNext
<1>3. Inv /\ Circle(S, W) /\ [Next]_vars => Circle(S, W)'
  BY CircleStays
<1> QED BY <1>1, <1>2, <1>3, PTL DEF Spec

-----------------------------------------------------------------------------
(* First way: the connections between sender threads and workers form no   *)
(* circle.                                                                 *)

\* Before a thread fills the request buffer of a client, it has made room for the
\* replies to what the worker took out of it: either on_run read a reply, or what it
\* did not find is no more than the server's end of the connection holds.
RoomForReplies ==
  \A c \in Clients :
    rep[c] + hand[c] <=
      RepCap + (ReqCap - req[c]) + (IF cur[senderOf[c]] = c /\ call[senderOf[c]] = "send_data"
                                    THEN 0 ELSE 1)

LEMMA RoomInit == Init => RoomForReplies
BY Sizes, ConversationAssumption DEF Init, RoomForReplies

LEMMA RoomNext ==
  ASSUME RepCap >= RepOut + RecvReqs, Placed, RoomForReplies, [Next]_vars
  PROVE  RoomForReplies'
<1> USE Sizes, ConversationAssumption
<1>a. /\ req \in [Clients -> 0..ReqCap] /\ hand \in [Clients -> 0..RecvReqs]
      /\ rep \in [Clients -> 0..RepCap] /\ cur \in [Senders -> Clients]
      /\ call \in [Senders -> {"on_run", "send_data"}]
      /\ \A t \in Senders : senderOf[cur[t]] = t
  BY DEF Placed, TypeOK
<1> SUFFICES ASSUME NEW d \in Clients
             PROVE  (rep[d] + hand[d] <= RepCap + (ReqCap - req[d])
                       + (IF cur[senderOf[d]] = d /\ call[senderOf[d]] = "send_data"
                          THEN 0 ELSE 1))'
  BY DEF RoomForReplies
<1> DEFINE s == senderOf[d]
<1>c. /\ rep[d] + hand[d] <= RepCap + (ReqCap - req[d])
           + (IF cur[s] = d /\ call[s] = "send_data" THEN 0 ELSE 1)
      /\ s \in Senders
      /\ req[d] \in 0..ReqCap /\ hand[d] \in 0..RecvReqs /\ rep[d] \in 0..RepCap
  BY <1>a DEF RoomForReplies
<1>1. ASSUME NEW t \in Senders, OnRun(t)
      PROVE  (rep[d] + hand[d] <= RepCap + (ReqCap - req[d])
                + (IF cur[s] = d /\ call[s] = "send_data" THEN 0 ELSE 1))'
  <2>1. UNCHANGED <<req, hand, cur>> /\ call[t] = "on_run"
    BY <1>1 DEF OnRun
  <2>2. CASE cur[t] # d
    <3>1. rep'[d] = rep[d]
      BY <1>1, <2>2, <1>a DEF OnRun
    <3>2. cur[s] = d => call'[s] = call[s]
      BY <1>1, <2>2, <1>a, <1>c DEF OnRun
    <3> QED BY <2>1, <3>1, <3>2, <1>c
  <2>3. CASE cur[t] = d
    <3>0. s = t
      BY <2>3, <1>a
    <3>1. PICK n \in Taken(rep[d], RepOut, RecvReps) : rep' = [rep EXCEPT ![d] = @ - n]
      BY <1>1, <2>3 DEF OnRun
    <3>2. rep'[d] = rep[d] - n /\ n \in Nat /\ (rep[d] > RepOut => n >= 1)
      <4>1. rep[d] \in Nat
        BY <1>c
      <4>2. n \in Nat /\ (rep[d] > RepOut => n >= 1)
        BY <3>1, <4>1, TakenFacts
      <4> QED BY <3>1, <4>2, <1>a
    <3>3. CASE rep[d] <= RepOut
      <4>1. rep[d] + hand[d] <= RepCap
        BY <3>3, <1>c
      <4> QED BY <4>1, <3>2, <2>1, <1>c
    <3>4. CASE rep[d] > RepOut
      <4>1. rep[d] + hand[d] <= RepCap + (ReqCap - req[d]) + 1
        BY <2>1, <3>0, <1>c
      <4> QED BY <4>1, <3>2, <3>4, <2>1, <1>c
    <3> QED BY <3>3, <3>4, <1>c
  <2> QED BY <2>2, <2>3
<1>2. ASSUME NEW t \in Senders, SendData(t)
      PROVE  (rep[d] + hand[d] <= RepCap + (ReqCap - req[d])
                + (IF cur[s] = d /\ call[s] = "send_data" THEN 0 ELSE 1))'
  <2>1. /\ UNCHANGED <<hand, rep>> /\ call[t] = "send_data"
        /\ call' = [call EXCEPT ![t] = "on_run"]
        /\ req' = [req EXCEPT ![cur[t]] = @ + 1]
        /\ cur' = [cur EXCEPT ![t] = nextOf[cur[t]]]
    BY <1>2 DEF SendData
  <2>2. CASE s # t
    <3>1. cur[t] # d
      BY <2>2, <1>a
    <3>2. req'[d] = req[d] /\ call'[s] = call[s] /\ cur'[s] = cur[s]
      BY <2>1, <2>2, <3>1, <1>a, <1>c
    <3> QED BY <2>1, <3>2, <1>c
  <2>3. CASE s = t
    <3>0. call'[s] = "on_run"
      BY <2>1, <2>3, <1>a
    <3>1. CASE cur[t] = d
      <4>1. req'[d] = req[d] + 1
        BY <2>1, <3>1, <1>a
      <4> QED BY <4>1, <3>0, <3>1, <2>1, <2>3, <1>c
    <3>2. CASE cur[t] # d
      <4>1. req'[d] = req[d]
        BY <2>1, <3>2, <1>a
      <4> QED BY <4>1, <3>0, <3>2, <2>1, <2>3, <1>c
    <3> QED BY <3>1, <3>2
  <2> QED BY <2>2, <2>3
<1>3. ASSUME NEW w \in Workers, SelectClients(w)
      PROVE  (rep[d] + hand[d] <= RepCap + (ReqCap - req[d])
                + (IF cur[s] = d /\ call[s] = "send_data" THEN 0 ELSE 1))'
  BY <1>3, <1>c DEF SelectClients
<1>4. ASSUME NEW w \in Workers, NEW c \in Clients, RecvData(w, c)
      PROVE  (rep[d] + hand[d] <= RepCap + (ReqCap - req[d])
                + (IF cur[s] = d /\ call[s] = "send_data" THEN 0 ELSE 1))'
  <2>1. PICK n \in Taken(req[c], ReqOut, RecvReqs) :
          req' = [req EXCEPT ![c] = @ - n] /\ hand' = [hand EXCEPT ![c] = n]
    BY <1>4 DEF RecvData
  <2>2. n \in Nat /\ UNCHANGED <<rep, cur, call>>
    BY <1>4, <2>1, <1>a, TakenFacts DEF RecvData
  <2>3. hand[c] = 0
    BY <1>4, <1>a DEF RecvData, Answering, Placed
  <2>4. req'[d] + hand'[d] = req[d] + hand[d] /\ req'[d] \in Int /\ hand'[d] \in Int
    <3>1. CASE c = d
      BY <2>1, <2>2, <2>3, <3>1, <1>a, <1>c
    <3>2. CASE c # d
      BY <2>1, <3>2, <1>a, <1>c
    <3> QED BY <3>1, <3>2
  <2> QED BY <2>2, <2>4, <1>c
<1>5. ASSUME NEW w \in Workers, NEW c \in Clients, OnNetMsg(w, c)
      PROVE  (rep[d] + hand[d] <= RepCap + (ReqCap - req[d])
                + (IF cur[s] = d /\ call[s] = "send_data" THEN 0 ELSE 1))'
  BY <1>5, <1>a, <1>c DEF OnNetMsg
<1>6. CASE UNCHANGED vars
  BY <1>6, <1>c
<1> QED BY <1>1, <1>2, <1>3, <1>4, <1>5, <1>6 DEF Next, Sender, Worker

LEMMA RoomInvariance == RepCap >= RepOut + RecvReqs => (Spec => [](Placed /\ RoomForReplies))
<1> SUFFICES ASSUME RepCap >= RepOut + RecvReqs PROVE Spec => [](Placed /\ RoomForReplies)
  OBVIOUS
<1>1. Placed /\ RoomForReplies /\ [Next]_vars => (Placed /\ RoomForReplies)'
  BY PlacedNext, RoomNext
<1> QED BY PlacedInit, RoomInit, <1>1, PTL DEF Spec

\* A sender and a worker do not wait for each other on one connection.
LEMMA NotBothWait ==
  ASSUME Placed, RoomForReplies, NEW t \in Senders, NEW w \in Workers, SenderWaits(t)
  PROVE  ~WorkerWaits(w, cur[t])
<1>1. cur[t] \in Clients /\ senderOf[cur[t]] = t
  BY DEF Placed, TypeOK
<1>2. req[cur[t]] = ReqCap /\ call[t] = "send_data"
  BY DEF SenderWaits
<1>3. rep[cur[t]] + hand[cur[t]] <= RepCap + (ReqCap - ReqCap) + 0
  BY <1>1, <1>2 DEF RoomForReplies
<1>4. hand[cur[t]] \in Nat
  BY <1>1, Sizes DEF Placed, TypeOK
<1> QED BY <1>3, <1>4, Sizes DEF WorkerWaits

\* Each sender thread has one client.
OneClientEach == \A c, d \in Clients : senderOf[c] = senderOf[d] => c = d

\* With a client for each sender thread, nobody waits in a circle as soon as the
\* client's end of a connection holds the replies to what one recv() of the worker
\* completes, whatever the server's end holds beside them.
THEOREM OneClientNoStandstill ==
  OneClientEach /\ RepCap >= RepOut + RecvReqs => (Spec => []NoStandstill)
<1> SUFFICES ASSUME OneClientEach, RepCap >= RepOut + RecvReqs PROVE Spec => []NoStandstill
  OBVIOUS
<1>1. Placed /\ RoomForReplies => NoStandstill
  <2> SUFFICES ASSUME Placed, RoomForReplies,
                      NEW S \in (SUBSET Senders) \ {{}}, NEW W \in (SUBSET Workers) \ {{}},
                      \A t \in S : SenderWaits(t) /\ cellOf[cur[t]] \in W,
                      \A w \in W : \E c \in Clients : WorkerWaits(w, c) /\ senderOf[c] \in S
               PROVE  FALSE
    BY DEF NoStandstill, Circle
  <2>1. PICK w \in W, c \in Clients : WorkerWaits(w, c) /\ senderOf[c] \in S
    OBVIOUS
  <2>2. SenderWaits(senderOf[c]) /\ senderOf[c] \in Senders /\ w \in Workers
    BY <2>1
  <2>3. cur[senderOf[c]] = c
    BY <2>2 DEF Placed, TypeOK, OneClientEach
  <2> QED BY <2>1, <2>2, <2>3, NotBothWait
<1> QED BY <1>1, RoomInvariance, PTL

\* The connections, as edges between sender threads and workers, form a forest:
\* any set of them has one that is the only one of its sender or of its worker.
Forest ==
  /\ IsFiniteSet(Clients)
  /\ \A F \in (SUBSET Clients) \ {{}} : \E c \in F :
       \/ \A d \in F : senderOf[d] = senderOf[c] => d = c
       \/ \A d \in F : cellOf[d] = cellOf[c] => d = c

\* Among sets of clients there is a least one.
LEMMA LeastSet ==
  ASSUME IsFiniteSet(Clients), NEW FF \in SUBSET (SUBSET Clients), FF # {}
  PROVE  \E M \in FF : \A F \in FF : F \subseteq M => F = M
<1>1. IsWellFoundedOn(StrictSubsetOrdering(Clients), SUBSET Clients)
  BY FS_StrictSubsetOrderingWellFounded, FS_FiniteSubsetsOfFinite
<1>2. FF \subseteq SUBSET Clients
  OBVIOUS
<1>3. \E M \in FF : \A F \in FF : ~(<<F, M>> \in StrictSubsetOrdering(Clients))
  BY <1>1, <1>2, WFMin
<1> QED BY <1>3 DEF StrictSubsetOrdering

\* In a forest nobody can go on for ever from connection to connection, by way of
\* the worker and by way of the sender in turn, without turning back.
LEMMA NoEndlessWalk ==
  ASSUME Forest, NEW E \in SUBSET Clients, E # {}, NEW A \in SUBSET E,
         NEW next \in [E -> E],
         \A c \in A : next[c] \notin A /\ cellOf[next[c]] = cellOf[c],
         \A c \in E \ A : next[c] \in A /\ senderOf[next[c]] = senderOf[c]
  PROVE  FALSE
<1> DEFINE Closed == {F \in SUBSET E : F # {} /\ \A c \in F : next[c] \in F}
<1>1. PICK M \in Closed : \A F \in Closed : F \subseteq M => F = M
  <2>1. Closed \in SUBSET (SUBSET Clients) /\ E \in Closed
    OBVIOUS
  <2>2. Closed # {}
    BY <2>1
  <2> HIDE DEF Closed
  <2> QED BY <2>1, <2>2, LeastSet DEF Forest
<1>2. ASSUME NEW c \in M PROVE \E p \in M : next[p] = c
  <2> DEFINE I == {next[p] : p \in M}
  <2>1. I \in SUBSET M /\ I # {}
    BY <1>1
  <2>2. I \in Closed
    BY <1>1, <2>1
  <2>3. I = M
    BY <1>1, <2>1, <2>2
  <2> QED BY <2>3
<1>3. M \in (SUBSET Clients) \ {{}} /\ M \subseteq E
  BY <1>1
<1>4. PICK c \in M : \/ \A d \in M : senderOf[d] = senderOf[c] => d = c
                     \/ \A d \in M : cellOf[d] = cellOf[c] => d = c
  BY <1>3 DEF Forest
<1>5. PICK p \in M : next[p] = c
  BY <1>2
<1>6. next[c] \in M /\ c \in E /\ p \in E
  BY <1>1, <1>3
<1>7. CASE c \in A
  <2>1. next[c] # c /\ cellOf[next[c]] = cellOf[c]
    BY <1>7
  <2>2. p # c /\ senderOf[p] = senderOf[c]
    BY <1>5, <1>6, <1>7
  <2> QED BY <1>4, <1>5, <1>6, <2>1, <2>2
<1>8. CASE c \notin A
  <2>1. next[c] # c /\ senderOf[next[c]] = senderOf[c]
    BY <1>6, <1>8
  <2>2. p # c /\ cellOf[p] = cellOf[c]
    BY <1>5, <1>6, <1>8
  <2> QED BY <1>4, <1>5, <1>6, <2>1, <2>2
<1> QED BY <1>7, <1>8

\* In a circle of threads that wait, a sender and the worker it waits for are
\* blocked on different connections, so the circle is one of connections.
LEMMA ForestRoom ==
  ASSUME Forest, Placed, RoomForReplies
  PROVE  NoStandstill
<1> SUFFICES ASSUME NEW S \in (SUBSET Senders) \ {{}}, NEW W \in (SUBSET Workers) \ {{}},
                    \A t \in S : SenderWaits(t) /\ cellOf[cur[t]] \in W,
                    \A w \in W : \E c \in Clients : WorkerWaits(w, c) /\ senderOf[c] \in S
             PROVE  FALSE
  BY DEF NoStandstill, Circle
<1> DEFINE at == [w \in W |-> CHOOSE c \in Clients : WorkerWaits(w, c) /\ senderOf[c] \in S]
           A == {cur[t] : t \in S}
           B == {at[w] : w \in W}
           E == A \cup B
           next == [c \in E |-> IF c \in A THEN at[cellOf[c]] ELSE cur[senderOf[c]]]
<1>1. \A w \in W : at[w] \in Clients /\ WorkerWaits(w, at[w]) /\ senderOf[at[w]] \in S
  OBVIOUS
<1>2. \A t \in S : cur[t] \in Clients /\ senderOf[cur[t]] = t /\ cellOf[cur[t]] \in W
  BY DEF Placed, TypeOK
<1>3. \A w \in W : cellOf[at[w]] = w
  BY <1>1 DEF WorkerWaits
<1>4. ASSUME NEW w \in W, NEW t \in S PROVE at[w] # cur[t]
  <2>1. SenderWaits(t) /\ t \in Senders /\ w \in Workers
    OBVIOUS
  <2> QED BY <1>1, <2>1, NotBothWait
<1> HIDE DEF at
<1>5. \A c \in A : cellOf[c] \in W
  BY <1>2
<1>6. \A c \in E \ A : senderOf[c] \in S
  BY <1>1
<1>7. E \in SUBSET Clients /\ E # {} /\ A \in SUBSET E
  <2>1. A \in SUBSET Clients /\ B \in SUBSET Clients
    BY <1>1, <1>2
  <2>2. A # {}
    OBVIOUS
  <2> QED BY <2>1, <2>2
<1>8. next \in [E -> E]
  BY <1>5, <1>6
<1>9. \A c \in A : next[c] \notin A /\ cellOf[next[c]] = cellOf[c]
  BY <1>3, <1>4, <1>5
<1>10. \A c \in E \ A : next[c] \in A /\ senderOf[next[c]] = senderOf[c]
  BY <1>2, <1>6
<1> HIDE DEF A, E, next
<1> QED BY <1>7, <1>8, <1>9, <1>10, NoEndlessWalk

\* Nobody waits in a circle where the connections between sender threads and
\* workers form none, and the client's end of a connection holds the replies to what
\* one recv() of the worker completes.
THEOREM ForestNoStandstill ==
  Forest /\ RepCap >= RepOut + RecvReqs => (Spec => []NoStandstill)
<1> SUFFICES ASSUME Forest, RepCap >= RepOut + RecvReqs PROVE Spec => []NoStandstill
  OBVIOUS
<1>1. Placed /\ RoomForReplies => NoStandstill
  BY ForestRoom
<1> QED BY <1>1, RoomInvariance, PTL

-----------------------------------------------------------------------------
(* Second way: any number of clients for each thread, and reply buffers    *)
(* that hold the replies to every request that can be under way.           *)

\* A client has at most as many requests and replies under way as the request
\* buffers, one recv() and the server's end of its connection hold: where on_run
\* reads no reply there are none but those, and where it reads one, that makes up
\* for the request the client then sends.
UnderWay ==
  \A c \in Clients :
    req[c] + hand[c] + rep[c] <=
      ReqCap + RecvReqs + RepOut
        + (IF cur[senderOf[c]] = c /\ call[senderOf[c]] = "send_data" THEN 0 ELSE 1)

LEMMA UnderWayInit == Init => UnderWay
BY Sizes, ConversationAssumption DEF Init, UnderWay

LEMMA UnderWayNext == Placed /\ UnderWay /\ [Next]_vars => UnderWay'
<1> SUFFICES ASSUME Placed, UnderWay, [Next]_vars PROVE UnderWay'
  OBVIOUS
<1> USE Sizes, ConversationAssumption
<1>a. /\ req \in [Clients -> 0..ReqCap] /\ hand \in [Clients -> 0..RecvReqs]
      /\ rep \in [Clients -> 0..RepCap] /\ cur \in [Senders -> Clients]
      /\ call \in [Senders -> {"on_run", "send_data"}]
      /\ \A t \in Senders : senderOf[cur[t]] = t
  BY DEF Placed, TypeOK
<1> SUFFICES ASSUME NEW d \in Clients
             PROVE  (req[d] + hand[d] + rep[d] <= ReqCap + RecvReqs + RepOut
                       + (IF cur[senderOf[d]] = d /\ call[senderOf[d]] = "send_data"
                          THEN 0 ELSE 1))'
  BY DEF UnderWay
<1> DEFINE s == senderOf[d]
<1>c. /\ req[d] + hand[d] + rep[d] <= ReqCap + RecvReqs + RepOut
           + (IF cur[s] = d /\ call[s] = "send_data" THEN 0 ELSE 1)
      /\ s \in Senders
      /\ req[d] \in 0..ReqCap /\ hand[d] \in 0..RecvReqs /\ rep[d] \in 0..RepCap
  BY <1>a DEF UnderWay
<1>1. ASSUME NEW t \in Senders, OnRun(t)
      PROVE  (req[d] + hand[d] + rep[d] <= ReqCap + RecvReqs + RepOut
                + (IF cur[s] = d /\ call[s] = "send_data" THEN 0 ELSE 1))'
  <2>1. UNCHANGED <<req, hand, cur>> /\ call[t] = "on_run"
    BY <1>1 DEF OnRun
  <2>2. CASE cur[t] # d
    <3>1. rep'[d] = rep[d]
      BY <1>1, <2>2, <1>a DEF OnRun
    <3>2. cur[s] = d => call'[s] = call[s]
      BY <1>1, <2>2, <1>a, <1>c DEF OnRun
    <3> QED BY <2>1, <3>1, <3>2, <1>c
  <2>3. CASE cur[t] = d
    <3>0. s = t
      BY <2>3, <1>a
    <3>1. PICK n \in Taken(rep[d], RepOut, RecvReps) : rep' = [rep EXCEPT ![d] = @ - n]
      BY <1>1, <2>3 DEF OnRun
    <3>2. rep'[d] = rep[d] - n /\ n \in Nat /\ (rep[d] > RepOut => n >= 1)
      <4>1. rep[d] \in Nat
        BY <1>c
      <4>2. n \in Nat /\ (rep[d] > RepOut => n >= 1)
        BY <3>1, <4>1, TakenFacts
      <4> QED BY <3>1, <4>2, <1>a
    <3>3. CASE rep[d] <= RepOut
      BY <3>2, <3>3, <2>1, <1>c
    <3>4. CASE rep[d] > RepOut
      <4>1. req[d] + hand[d] + rep[d] <= ReqCap + RecvReqs + RepOut + 1
        BY <2>1, <3>0, <1>c
      <4> QED BY <4>1, <3>2, <3>4, <2>1, <1>c
    <3> QED BY <3>3, <3>4, <1>c
  <2> QED BY <2>2, <2>3
<1>2. ASSUME NEW t \in Senders, SendData(t)
      PROVE  (req[d] + hand[d] + rep[d] <= ReqCap + RecvReqs + RepOut
                + (IF cur[s] = d /\ call[s] = "send_data" THEN 0 ELSE 1))'
  <2>1. /\ UNCHANGED <<hand, rep>> /\ call[t] = "send_data"
        /\ call' = [call EXCEPT ![t] = "on_run"]
        /\ req' = [req EXCEPT ![cur[t]] = @ + 1]
        /\ cur' = [cur EXCEPT ![t] = nextOf[cur[t]]]
    BY <1>2 DEF SendData
  <2>2. CASE s # t
    <3>1. cur[t] # d
      BY <2>2, <1>a
    <3>2. req'[d] = req[d] /\ call'[s] = call[s] /\ cur'[s] = cur[s]
      BY <2>1, <2>2, <3>1, <1>a, <1>c
    <3> QED BY <2>1, <3>2, <1>c
  <2>3. CASE s = t
    <3>0. call'[s] = "on_run"
      BY <2>1, <2>3, <1>a
    <3>1. CASE cur[t] = d
      <4>1. req'[d] = req[d] + 1
        BY <2>1, <3>1, <1>a
      <4> QED BY <4>1, <3>0, <3>1, <2>1, <2>3, <1>c
    <3>2. CASE cur[t] # d
      <4>1. req'[d] = req[d]
        BY <2>1, <3>2, <1>a
      <4> QED BY <4>1, <3>0, <3>2, <2>1, <2>3, <1>c
    <3> QED BY <3>1, <3>2
  <2> QED BY <2>2, <2>3
<1>3. ASSUME NEW w \in Workers, SelectClients(w)
      PROVE  (req[d] + hand[d] + rep[d] <= ReqCap + RecvReqs + RepOut
                + (IF cur[s] = d /\ call[s] = "send_data" THEN 0 ELSE 1))'
  BY <1>3, <1>c DEF SelectClients
<1>4. ASSUME NEW w \in Workers, NEW c \in Clients, RecvData(w, c)
      PROVE  (req[d] + hand[d] + rep[d] <= ReqCap + RecvReqs + RepOut
                + (IF cur[s] = d /\ call[s] = "send_data" THEN 0 ELSE 1))'
  <2>1. PICK n \in Taken(req[c], ReqOut, RecvReqs) :
          req' = [req EXCEPT ![c] = @ - n] /\ hand' = [hand EXCEPT ![c] = n]
    BY <1>4 DEF RecvData
  <2>2. n \in Nat /\ UNCHANGED <<rep, cur, call>>
    BY <1>4, <2>1, <1>a, TakenFacts DEF RecvData
  <2>3. hand[c] = 0
    BY <1>4, <1>a DEF RecvData, Answering, Placed
  <2>4. req'[d] + hand'[d] = req[d] + hand[d]
    <3>1. CASE c = d
      BY <2>1, <2>2, <2>3, <3>1, <1>a, <1>c
    <3>2. CASE c # d
      BY <2>1, <3>2, <1>a
    <3> QED BY <3>1, <3>2
  <2> QED BY <2>2, <2>4, <1>c
<1>5. ASSUME NEW w \in Workers, NEW c \in Clients, OnNetMsg(w, c)
      PROVE  (req[d] + hand[d] + rep[d] <= ReqCap + RecvReqs + RepOut
                + (IF cur[s] = d /\ call[s] = "send_data" THEN 0 ELSE 1))'
  BY <1>5, <1>a, <1>c DEF OnNetMsg
<1>6. CASE UNCHANGED vars
  BY <1>6, <1>c
<1> QED BY <1>1, <1>2, <1>3, <1>4, <1>5, <1>6 DEF Next, Sender, Worker

LEMMA UnderWayNoStandstill ==
  ASSUME RepCap > ReqCap + RecvReqs + RepOut, Placed, UnderWay
  PROVE  NoStandstill
<1>1. ASSUME NEW w \in Workers, NEW c \in Clients PROVE ~WorkerWaits(w, c)
  <2>1. req[c] \in Nat /\ hand[c] \in Nat /\ rep[c] \in Nat
    BY Sizes DEF Placed, TypeOK
  <2>2. req[c] + hand[c] + rep[c] <= ReqCap + RecvReqs + RepOut + 1
    BY <2>1, Sizes DEF UnderWay
  <2> QED BY <2>1, <2>2, Sizes DEF WorkerWaits
<1> QED BY <1>1 DEF NoStandstill, Circle

\* Where the client's end of a connection holds one reply more than full request
\* buffers and a recv() ask for, no worker ever waits in send(), however the clients
\* are spread over the threads.
THEOREM RoomyNoStandstill ==
  RepCap > ReqCap + RecvReqs + RepOut => (Spec => []NoStandstill)
<1> SUFFICES ASSUME RepCap > ReqCap + RecvReqs + RepOut PROVE Spec => []NoStandstill
  OBVIOUS
<1> DEFINE Inv == Placed /\ UnderWay
<1>1. Init => Inv
  BY PlacedInit, UnderWayInit
<1>2. Inv /\ [Next]_vars => Inv'
  BY PlacedNext, UnderWayNext
<1>3. Inv => NoStandstill
  BY UnderWayNoStandstill
<1> QED BY <1>1, <1>2, <1>3, PTL DEF Spec

\* A client that reads before it sends, though it may find nothing to read, has a
\* bounded number of messages under way, however much its own end of the connection
\* holds.
THEOREM BoundedUnderWayHolds == Spec => []BoundedUnderWay
<1>1. Placed /\ UnderWay => BoundedUnderWay
  <2> SUFFICES ASSUME Placed, UnderWay, NEW c \in Clients
               PROVE  req[c] + hand[c] + rep[c] <= ReqCap + RecvReqs + RepOut + 1
    BY DEF BoundedUnderWay
  <2>1. req[c] \in Nat /\ hand[c] \in Nat /\ rep[c] \in Nat
    BY Sizes DEF Placed, TypeOK
  <2> QED BY <2>1, Sizes DEF UnderWay
<1>2. Placed /\ UnderWay /\ [Next]_vars => (Placed /\ UnderWay)'
  BY PlacedNext, UnderWayNext
<1> QED BY PlacedInit, UnderWayInit, <1>1, <1>2, PTL DEF Spec
=============================================================================
