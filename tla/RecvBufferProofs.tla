------------------------- MODULE RecvBufferProofs -------------------------
(***************************************************************************)
(* Proofs about RecvBuffer, for streams of any number of messages, of any  *)
(* lengths the buffer is made for, cut in any way.  That no byte is written *)
(* outside the buffer is proved of every build.  That the messages come    *)
(* out right is proved of the builds whose memcpy copies upwards, and of   *)
(* all others as long as the regions of no memcpy overlap, which is what C *)
(* asks of its callers: the run framing_overlap shows that the code does   *)
(* not always keep to it.                                                  *)
(***************************************************************************)
EXTENDS RecvBuffer, TLAPS

\* The messages that have left the buffer.
Gone == IF pc = "shift" THEN Len(out) - 1 ELSE Len(out)

\* The buffer holds the bytes of the stream behind the messages that have left
\* it, up to the last one recv() has returned.
Contents ==
  /\ taken = start[Gone] + pos
  /\ \A i \in 0..(pos - 1) : buf[i] = start[Gone] + i

\* The message being handled is the one at the front of the buffer.
Handling ==
  pc = "shift" => /\ Len(out) \in 1..N
                  /\ msgLen = start[Len(out)] - start[Len(out) - 1]
                  /\ msgLen <= pos

IInv ==
  /\ TypeOK
  /\ taken <= arrived /\ arrived <= start[N]
  /\ Len(out) <= N
  /\ Handling
  /\ Contents
  /\ NothingLeft
  /\ NeverFull

\* What the assumption on layouts gives for one of them.
LEMMA LayoutFacts ==
  ASSUME NEW s \in Layouts
  PROVE  /\ s \in [0..N -> Nat]
         /\ s[0] = 0
         /\ \A m \in 0..(N - 1) : s[m + 1] - s[m] \in Lens
         /\ \A m, n \in 0..N : m < n => s[m] < s[n]
<1>1. \A m \in 0..(N - 1) : s[m + 1] - s[m] \in Lens
  <2> SUFFICES ASSUME NEW m \in 0..(N - 1) PROVE s[m + 1] - s[m] \in Lens
    OBVIOUS
  <2>1. m + 1 \in 1..N /\ (m + 1) - 1 = m
    BY RecvBufferAssumption
  <2> QED BY <2>1 DEF Layouts
<1> QED BY <1>1, RecvBufferAssumption DEF Layouts

\* While the loop of recv_data stands at a header that has come whole, the only
\* value data_length can have is the length of the next message.
LEMMA HeaderIsNext ==
  ASSUME IInv, pc = "loop", pos >= HeaderLen
  PROVE  /\ Len(out) < N
         /\ HeaderLens = {start[Len(out) + 1] - start[Len(out)]}
         /\ start[Len(out) + 1] - start[Len(out)] \in Lens
<1> DEFINE n == Len(out)
<1>a. n \in Nat /\ n <= N /\ pos \in Nat /\ N \in Nat /\ HeaderLen \in Nat \ {0}
  BY RecvBufferAssumption DEF IInv, TypeOK
<1>b. start \in [0..N -> Nat] /\ \A a, b \in 0..N : a < b => start[a] < start[b]
  BY LayoutFacts DEF IInv, TypeOK
<1>c. taken = start[n] + pos /\ \A i \in 0..(pos - 1) : buf[i] = start[n] + i
  BY DEF IInv, Contents, Gone
<1>1. n < N
  <2>1. start[n] + pos <= start[N]
    BY <1>a, <1>b, <1>c DEF IInv, TypeOK
  <2>2. n # N
    BY <2>1, <1>a, <1>b
  <2> QED BY <2>2, <1>a
<1>2. start[n + 1] - start[n] \in Lens
  BY <1>1, <1>a, LayoutFacts DEF IInv, TypeOK
<1> DEFINE heads == {m \in 1..N : \A i \in 0..(HeaderLen - 1) : buf[i] = start[m - 1] + i}
<1>3. heads = {n + 1}
  <2>1. n + 1 \in heads
    <3>1. \A i \in 0..(HeaderLen - 1) : buf[i] = start[(n + 1) - 1] + i
      BY <1>a, <1>c
    <3> QED BY <3>1, <1>1, <1>a
  <2>2. \A m \in heads : m = n + 1
    <3> SUFFICES ASSUME NEW m \in heads PROVE m = n + 1
      OBVIOUS
    <3>1. buf[0] = start[m - 1] + 0 /\ buf[0] = start[n] + 0
      BY <1>a, <1>c
    <3>2. m \in 1..N /\ m - 1 \in 0..N /\ n \in 0..N
      BY <1>a
    <3>3. start[m - 1] = start[n]
      BY <3>1, <3>2, <1>b
    <3>4. ~(m - 1 < n) /\ ~(n < m - 1)
      BY <3>2, <3>3, <1>b
    <3> QED BY <3>2, <3>4, <1>a
  <2> QED BY <2>1, <2>2
<1>4. HeaderLens = {start[m] - start[m - 1] : m \in heads}
  BY <1>3 DEF HeaderLens
<1>5. HeaderLens = {start[n + 1] - start[(n + 1) - 1]}
  BY <1>3, <1>4
<1> QED BY <1>1, <1>2, <1>5, <1>a

LEMMA InitInv == Init => IInv
<1> SUFFICES ASSUME Init PROVE IInv
  OBVIOUS
<1>1. start \in [0..N -> Nat] /\ start[0] = 0 /\ N \in Nat
      /\ \A a, b \in 0..N : a < b => start[a] < start[b]
  BY LayoutFacts, RecvBufferAssumption DEF Init
<1>2. Len(out) = 0 /\ out \in Seq(Seq(Int))
  BY DEF Init
<1>3. TypeOK
  BY <1>2, RecvBufferAssumption DEF Init, TypeOK, Places, Junk
<1>4. 0 <= start[N]
  BY <1>1
<1>5. NothingLeft
  BY <1>1, <1>2 DEF Init, NothingLeft
<1> QED BY <1>1, <1>2, <1>3, <1>4, <1>5
        DEF Init, IInv, Handling, Contents, Gone, NeverFull

LEMMA ArriveInv == IInv /\ Arrive => IInv'
<1> SUFFICES ASSUME IInv, Arrive PROVE IInv'
  OBVIOUS
<1>1. start[N] \in Nat
  BY LayoutFacts, RecvBufferAssumption DEF IInv, TypeOK
<1> QED BY <1>1 DEF IInv, Arrive, TypeOK, Handling, Contents, Gone, NothingLeft, NeverFull

LEMMA RecvInv == IInv /\ Recv => IInv'
<1> SUFFICES ASSUME IInv, Recv PROVE IInv'
  OBVIOUS
<1> DEFINE avail == arrived - taken
           len == IF avail < Chunk THEN avail ELSE Chunk
           n == Len(out)
<1>a. /\ arrived \in Nat /\ taken \in Nat /\ pos \in Nat /\ Chunk \in Nat \ {0}
      /\ N \in Nat /\ Capacity \in Nat /\ n \in Nat /\ n <= N
      /\ start \in [0..N -> Nat] /\ taken <= arrived /\ arrived <= start[N]
      /\ start[N] \in Nat
  BY LayoutFacts, RecvBufferAssumption DEF IInv, TypeOK
<1>b. /\ pc = "idle" /\ len \in 1..Chunk /\ len \in Nat \ {0} /\ taken + len <= arrived
      /\ taken < arrived
  BY <1>a DEF Recv
<1> HIDE DEF avail, len
<1>c. taken = start[n] + pos /\ \A i \in 0..(pos - 1) : buf[i] = start[n] + i
  BY <1>b DEF IInv, Contents, Gone
<1>d. start[n] \in Nat /\ n + 1 \in Nat
  BY <1>a
<1>1. n < N
  <2>1. start[n] < start[N]
    <3>1. start[n] <= taken
      BY <1>a, <1>c, <1>d
    <3> QED BY <1>a, <1>b, <1>d, <3>1
  <2>2. n # N
    BY <2>1, <1>a
  <2> QED BY <2>2, <1>a
<1>2. start[n + 1] \in Nat /\ pos < start[n + 1] - start[n]
  <2>1. start[n + 1] \in Nat
    BY <1>1, <1>a
  <2>2. taken < start[n + 1]
    BY <1>1, <1>b DEF IInv, NothingLeft
  <2> QED BY <2>1, <2>2, <1>a, <1>c, <1>d
<1>3. start[n + 1] - start[n] \in Lens
  <2>1. n \in 0..(N - 1)
    BY <1>1, <1>a
  <2> QED BY <2>1, LayoutFacts DEF IInv, TypeOK
<1>4. pos + len <= Capacity
  <2>1. start[n + 1] - start[n] - 1 + Chunk <= Capacity
    BY <1>3, RecvBufferAssumption
  <2> QED BY <2>1, <1>2, <1>a, <1>b, <1>d
<1>5. /\ pc' = "loop" /\ pos' = pos + len /\ taken' = taken + len
      /\ buf' = [i \in Places |->
                   IF i \in pos..(pos + len - 1) THEN taken + i - pos ELSE buf[i]]
      /\ UNCHANGED <<start, arrived, msgLen, out>>
  BY <1>4, <1>a, <1>b DEF Recv, Overruns, avail, len
<1>6. TypeOK'
  BY <1>4, <1>5, <1>a, <1>b DEF IInv, TypeOK
<1>7. Contents'
  <2>1. taken' = start'[Gone'] + pos'
    <3>1. Gone' = n
      BY <1>5 DEF Gone
    <3>2. /\ taken = start[n] + pos /\ start[n] \in Nat /\ pos \in Nat
          /\ len \in Nat
      BY <1>a, <1>b, <1>c, <1>d
    <3> HIDE DEF n
    <3>3. taken + len = start[n] + (pos + len)
      BY <3>2
    <3> QED BY <3>1, <3>3, <1>5 DEF n
  <2>2. \A i \in 0..(pos' - 1) : buf'[i] = start'[Gone'] + i
    <3> SUFFICES ASSUME NEW i \in 0..(pos' - 1) PROVE buf'[i] = start[n] + i
      BY <1>5 DEF Gone
    <3>1. i \in Places /\ i \in Nat /\ i < pos + len
      BY <1>4, <1>5, <1>a, <1>b DEF Places
    <3>2. CASE i < pos
      BY <3>1, <3>2, <1>5, <1>a, <1>c
    <3>3. CASE i >= pos
      <4>1. buf'[i] = taken + i - pos
        BY <3>1, <3>3, <1>5, <1>a, <1>b
      <4> QED BY <4>1, <3>1, <1>a, <1>c
    <3> QED BY <3>1, <3>2, <3>3, <1>a
  <2> QED BY <2>1, <2>2 DEF Contents
<1>8. (taken <= arrived /\ arrived <= start[N] /\ Len(out) <= N)'
  BY <1>5, <1>a, <1>b
<1> QED BY <1>5, <1>6, <1>7, <1>8 DEF IInv, Handling, NothingLeft, NeverFull

\* What on_net_msg is given is the next message of the stream.
LEMMA DeliverIsNext ==
  ASSUME IInv, Deliver
  PROVE  /\ Len(out) < N
         /\ msgLen' = start[Len(out) + 1] - start[Len(out)]
         /\ msgLen' \in Nat \ {0} /\ msgLen' <= pos
         /\ out' = Append(out, Stream!Message(Len(out) + 1))
<1> DEFINE n == Len(out)
           len == start[n + 1] - start[n]
<1>1. n < N /\ HeaderLens = {len} /\ len \in Lens
  BY HeaderIsNext DEF Deliver
<1>2. n \in Nat /\ pos \in Nat /\ len \in Nat \ {0}
  <2>1. len \in Nat /\ HeaderLen <= len
    BY <1>1, RecvBufferAssumption
  <2> QED BY <2>1, RecvBufferAssumption DEF IInv, TypeOK
<1>3. pos >= len /\ msgLen' = len /\ out' = Append(out, [i \in 1..len |-> buf[i - 1]])
  BY <1>1 DEF Deliver
<1>4. [i \in 1..len |-> buf[i - 1]] = Stream!Message(n + 1)
  <2>1. Stream!Message(n + 1) = [i \in 1..len |-> start[n] + i - 1]
    <3>1. (n + 1) - 1 = n
      BY <1>2
    <3> QED BY <3>1 DEF Stream!Message
  <2>2. start[n] \in Nat
    BY <1>1, <1>2, LayoutFacts, RecvBufferAssumption DEF IInv, TypeOK
  <2>3. \A i \in 1..len : buf[i - 1] = start[n] + i - 1
    <3> SUFFICES ASSUME NEW i \in 1..len PROVE buf[i - 1] = start[n] + i - 1
      OBVIOUS
    <3>1. i - 1 \in 0..(pos - 1) /\ i \in Nat
      BY <1>2, <1>3
    <3>2. buf[i - 1] = start[n] + (i - 1)
      BY <3>1 DEF IInv, Contents, Gone, Deliver
    <3> QED BY <3>1, <3>2, <2>2
  <2> QED BY <2>1, <2>3
<1> QED BY <1>1, <1>2, <1>3, <1>4

LEMMA DeliverInv == IInv /\ Deliver => IInv'
<1> SUFFICES ASSUME IInv, Deliver PROVE IInv'
  OBVIOUS
<1> DEFINE n == Len(out)
<1>1. /\ n < N /\ msgLen' = start[n + 1] - start[n]
      /\ msgLen' \in Nat \ {0} /\ msgLen' <= pos
      /\ out' = Append(out, Stream!Message(n + 1))
  BY DeliverIsNext
<1>2. pc = "loop" /\ pc' = "shift" /\ UNCHANGED <<start, arrived, taken, buf, pos>>
  BY DEF Deliver
<1>3. n \in Nat /\ N \in Nat /\ start \in [0..N -> Nat] /\ out \in Seq(Seq(Int))
  BY LayoutFacts, RecvBufferAssumption DEF IInv, TypeOK
<1>4. Stream!Message(n + 1) \in Seq(Int)
  <2>1. start[n] \in Nat /\ (n + 1) - 1 = n
    BY <1>1, <1>3
  <2>2. Stream!Message(n + 1) \in [1..(start[n + 1] - start[n]) -> Int]
    BY <2>1 DEF Stream!Message
  <2> QED BY <2>2, <1>1
<1>5. out' \in Seq(Seq(Int)) /\ Len(out') = n + 1
  BY <1>1, <1>3, <1>4
<1>6. TypeOK'
  BY <1>1, <1>2, <1>5 DEF IInv, TypeOK
<1>7. Gone' = n /\ Gone = n
  BY <1>2, <1>3, <1>5 DEF Gone
<1>8. Contents'
  BY <1>2, <1>7 DEF IInv, Contents
<1>9. Handling'
  BY <1>1, <1>2, <1>3, <1>5 DEF Handling
<1> QED BY <1>1, <1>2, <1>3, <1>5, <1>6, <1>8, <1>9 DEF IInv, NothingLeft, NeverFull

\* What memcpy demands of recv_data: the rest is not longer than the message it
\* is moved over.
NonOverlapping == pc = "shift" => pos - msgLen <= msgLen

\* The memcpy of this build, or this call of it, moves the bytes as memmove does.
Moves == CopyOrders = {"up"} \/ NonOverlapping

LEMMA ModBelow ==
  ASSUME NEW x \in Int, NEW len \in Nat \ {0}, -len <= x, x < 0
  PROVE  x % len = x + len
OBVIOUS

LEMMA CopiedMoves ==
  ASSUME NEW order \in {"up", "down"}, NEW len \in Nat, NEW left \in Nat,
         order = "up" \/ left <= len
  PROVE  Copied(order, len, left) =
           [i \in Places |-> IF i >= left THEN buf[i] ELSE buf[i + len]]
<1> SUFFICES ASSUME NEW i \in Places, i < left, order # "up", len # 0
             PROVE  left + ((i - left) % len) = i + len
  BY RecvBufferAssumption DEF Copied, Places
<1>1. i \in Nat /\ i - left \in Int /\ -len <= i - left /\ i - left < 0
  BY RecvBufferAssumption DEF Places
<1>2. (i - left) % len = i - left + len
  BY <1>1, ModBelow
<1> QED BY <1>1, <1>2

LEMMA ShiftInv == Moves /\ IInv /\ Shift => IInv'
<1> SUFFICES ASSUME Moves, IInv, Shift PROVE IInv'
  OBVIOUS
<1> DEFINE n == Len(out)
           left == pos - msgLen
<1>1. /\ n \in 1..N /\ msgLen = start[n] - start[n - 1] /\ msgLen <= pos
      /\ Gone = n - 1
  BY DEF IInv, Handling, Gone, Shift
<1>2. /\ pc' = "loop" /\ pos' = left
      /\ UNCHANGED <<start, arrived, taken, msgLen, out>>
  BY DEF Shift
<1>3. /\ N \in Nat /\ start \in [0..N -> Nat] /\ pos \in 0..Capacity /\ msgLen \in Nat
      /\ buf \in [Places -> Int] /\ Capacity \in Nat
  BY LayoutFacts, RecvBufferAssumption DEF IInv, TypeOK
<1>4. left \in 0..Capacity
  BY <1>1, <1>3
<1>5. /\ buf' \in [Places -> Int]
      /\ \A i \in 0..(left - 1) : buf'[i] = buf[i + msgLen]
  <2>1. CASE left > 0
    <3>1. PICK order \in CopyOrders : buf' = Copied(order, msgLen, left)
      BY <2>1 DEF Shift
    <3>2. buf' = [i \in Places |-> IF i >= left THEN buf[i] ELSE buf[i + msgLen]]
      <4>1. order \in {"up", "down"} /\ msgLen \in Nat /\ left \in Nat
        BY <1>3, <1>4, RecvBufferAssumption
      <4>2. order = "up" \/ left <= msgLen
        BY DEF Moves, NonOverlapping, Shift
      <4> QED BY <3>1, <4>1, <4>2, CopiedMoves
    <3>3. ASSUME NEW i \in Places, i < left PROVE i + msgLen \in Places
      BY <3>3, <1>3 DEF Places
    <3>4. \A i \in 0..(left - 1) : i \in Places /\ i < left
      BY <1>3, <1>4 DEF Places
    <3>5. \A i \in Places : i \in Int
      BY DEF Places
    <3>6. buf' \in [Places -> Int]
      BY <3>2, <3>3, <3>5, <1>3, <1>4
    <3>7. \A i \in 0..(left - 1) : buf'[i] = buf[i + msgLen]
      BY <3>2, <3>4, <3>5, <1>4
    <3> QED BY <3>6, <3>7
  <2>2. CASE ~(left > 0)
    BY <2>2, <1>3, <1>4 DEF Shift
  <2> QED BY <2>1, <2>2
<1>6. TypeOK'
  BY <1>2, <1>4, <1>5 DEF IInv, TypeOK
<1>7. Contents'
  <2>1. Gone' = n
    BY <1>2 DEF Gone
  <2>2. start[n] \in Nat /\ start[n - 1] \in Nat /\ start[n] = start[n - 1] + msgLen
    BY <1>1, <1>3
  <2>3. taken = start[n] + left
    <3>1. taken = start[n - 1] + pos
      BY <1>1 DEF IInv, Contents
    <3> QED BY <3>1, <2>2, <1>3
  <2>4. \A i \in 0..(left - 1) : buf'[i] = start[n] + i
    <3> SUFFICES ASSUME NEW i \in 0..(left - 1) PROVE buf'[i] = start[n] + i
      OBVIOUS
    <3>1. i + msgLen \in 0..(pos - 1) /\ i \in Nat
      BY <1>3, <1>4
    <3>2. buf[i + msgLen] = start[n - 1] + (i + msgLen)
      BY <3>1, <1>1 DEF IInv, Contents
    <3> QED BY <3>1, <3>2, <1>3, <1>5, <2>2
  <2> QED BY <1>2, <2>1, <2>3, <2>4 DEF Contents
<1> QED BY <1>2, <1>6, <1>7 DEF IInv, Handling, NothingLeft, NeverFull

LEMMA ReturnInv == IInv /\ Return => IInv'
<1> SUFFICES ASSUME IInv, Return PROVE IInv'
  OBVIOUS
<1> DEFINE n == Len(out)
<1>1. /\ pc = "loop" /\ pc' = "idle"
      /\ UNCHANGED <<start, arrived, taken, buf, pos, msgLen, out>>
  BY DEF Return
<1>2. /\ N \in Nat /\ n \in Nat /\ start \in [0..N -> Nat] /\ pos \in Nat
      /\ HeaderLen \in Nat /\ taken = start[n] + pos
  BY <1>1, LayoutFacts, RecvBufferAssumption DEF IInv, TypeOK, Contents, Gone
<1>3. ASSUME n < N PROVE taken < start[n + 1]
  <2>a. n \in 0..(N - 1)
    BY <1>3, <1>2
  <2>1. start[n + 1] - start[n] \in Lens /\ start[n + 1] - start[n] >= HeaderLen
    BY <2>a, LayoutFacts, RecvBufferAssumption DEF IInv, TypeOK
  <2>2. pos < start[n + 1] - start[n]
    <3>1. CASE pos < HeaderLen
      BY <3>1, <2>1, <1>2, <1>3
    <3>2. CASE pos >= HeaderLen
      BY <3>2, <1>1, <1>2, HeaderIsNext DEF Return
    <3> QED BY <3>1, <3>2, <1>2
  <2> QED BY <2>2, <1>2, <1>3
<1>4. NothingLeft'
  BY <1>1, <1>3 DEF NothingLeft
<1> QED BY <1>1, <1>4 DEF IInv, TypeOK, Handling, Contents, Gone, NeverFull

LEMMA NextInv == Moves /\ IInv /\ [Next]_vars => IInv'
<1> SUFFICES ASSUME Moves, IInv, [Next]_vars PROVE IInv'
  OBVIOUS
<1>1. CASE UNCHANGED vars
  BY <1>1 DEF vars, IInv, TypeOK, Handling, Contents, Gone, NothingLeft, NeverFull
<1> QED BY <1>1, ArriveInv, RecvInv, DeliverInv, ShiftInv, ReturnInv DEF Next

\* The buffer is never overrun, and nothing complete is ever left in it.
THEOREM Invariance == CopyOrders = {"up"} => (Spec => []IInv)
<1> SUFFICES ASSUME CopyOrders = {"up"} PROVE Spec => []IInv
  OBVIOUS
<1>1. IInv /\ [Next]_vars => IInv'
  BY NextInv DEF Moves
<1> QED BY InitInv, <1>1, PTL DEF Spec

-----------------------------------------------------------------------------
(* Every build: the buffer's bounds do not depend on its contents.         *)

Bounds == TypeOK /\ (pc = "shift" => msgLen <= pos)

LEMMA BoundsNext == Bounds /\ [Next]_vars => Bounds'
<1> SUFFICES ASSUME Bounds, [Next]_vars PROVE Bounds'
  OBVIOUS
<1>a. /\ start \in Layouts /\ start \in [0..N -> Nat] /\ N \in Nat
      /\ arrived \in Nat /\ taken \in Nat /\ pos \in 0..Capacity /\ msgLen \in Nat
      /\ buf \in [Places -> Int] /\ Capacity \in Nat /\ Chunk \in Nat \ {0}
      /\ HeaderLen \in Nat \ {0} /\ out \in Seq(Seq(Int))
      /\ \A i \in Places : i \in Nat
  BY LayoutFacts, RecvBufferAssumption DEF Bounds, TypeOK, Places
<1>1. CASE Arrive
  <2>1. arrived' \in Nat
    BY <1>1, <1>a DEF Arrive
  <2> QED BY <1>1, <2>1 DEF Arrive, Bounds, TypeOK
<1>2. CASE Recv
  <2> DEFINE avail == arrived - taken
             len == IF avail < Chunk THEN avail ELSE Chunk
  <2>1. avail \in Nat /\ len \in Nat /\ taken' = taken + len /\ UNCHANGED <<start, arrived, msgLen, out>>
    BY <1>2, <1>a DEF Recv
  <2>2. CASE Overruns(len)
    <3>1. pc' = "failed" /\ UNCHANGED <<buf, pos>>
      BY <1>2, <2>2 DEF Recv
    <3> QED BY <1>a, <2>1, <3>1 DEF Bounds, TypeOK
  <2>3. CASE ~Overruns(len)
    <3>1. /\ pc' = "loop" /\ pos' = pos + len
          /\ buf' = [i \in Places |->
                       IF i \in pos..(pos + len - 1) THEN taken + i - pos ELSE buf[i]]
      BY <1>2, <2>3 DEF Recv
    <3>2. pos' \in 0..Capacity
      BY <1>a, <2>1, <2>3, <3>1 DEF Overruns
    <3>3. buf' \in [Places -> Int]
      BY <1>a, <3>1
    <3> QED BY <1>a, <2>1, <3>1, <3>2, <3>3 DEF Bounds, TypeOK
  <2> QED BY <2>2, <2>3
<1>3. CASE Deliver
  <2>1. PICK len \in HeaderLens :
          /\ pos >= len /\ msgLen' = len
          /\ out' = Append(out, [i \in 1..len |-> buf[i - 1]])
    BY <1>3 DEF Deliver
  <2>2. len \in Int
    <3>1. \A m \in 1..N : start[m] \in Int /\ start[m - 1] \in Int
      BY <1>a
    <3> QED BY <1>a, <3>1 DEF HeaderLens
  <2>3. len \in Nat
    <3>1. \A m \in 1..N : start[m - 1] < start[m] /\ start[m] \in Nat /\ start[m - 1] \in Nat
      <4> SUFFICES ASSUME NEW m \in 1..N
                   PROVE  start[m - 1] < start[m] /\ start[m] \in Nat /\ start[m - 1] \in Nat
        OBVIOUS
      <4>1. m - 1 \in 0..N /\ m \in 0..N /\ m - 1 < m
        BY <1>a
      <4> QED BY <1>a, <4>1, LayoutFacts
    <3> QED BY <1>a, <3>1 DEF HeaderLens
  <2>4. [i \in 1..len |-> buf[i - 1]] \in Seq(Int)
    <3>1. \A i \in 1..len : i - 1 \in Places
      BY <1>a, <2>1, <2>3 DEF Places
    <3>2. [i \in 1..len |-> buf[i - 1]] \in [1..len -> Int]
      BY <1>a, <3>1
    <3> QED BY <2>3, <3>2
  <2>5. out' \in Seq(Seq(Int))
    BY <1>a, <2>1, <2>4
  <2> QED BY <1>3, <1>a, <2>1, <2>3, <2>5 DEF Deliver, Bounds, TypeOK
<1>4. CASE Shift
  <2> DEFINE left == pos - msgLen
  <2>1. left \in 0..Capacity /\ pos' = left /\ pc' = "loop"
        /\ UNCHANGED <<start, arrived, taken, msgLen, out>>
    BY <1>4, <1>a DEF Shift, Bounds
  <2>2. ASSUME NEW order \in CopyOrders PROVE Copied(order, msgLen, left) \in [Places -> Int]
    <3> SUFFICES ASSUME NEW i \in Places, i < left
                 PROVE  /\ i + msgLen \in Places
                        /\ msgLen # 0 => left + ((i - left) % msgLen) \in Places
      BY <1>a, <2>1 DEF Copied
    <3>1. i + msgLen \in Places
      BY <1>a, <2>1 DEF Places
    <3>2. ASSUME msgLen # 0 PROVE left + ((i - left) % msgLen) \in Places
      <4>1. (i - left) % msgLen \in 0..(msgLen - 1)
        BY <1>a, <2>1, <3>2
      <4> HIDE DEF left
      <4>2. left + msgLen = pos /\ left \in Nat
        BY <1>a, <2>1 DEF left
      <4> QED BY <1>a, <4>1, <4>2 DEF Places
    <3> QED BY <3>1, <3>2
  <2>3. buf' \in [Places -> Int]
    BY <1>4, <1>a, <2>2 DEF Shift
  <2> QED BY <1>a, <2>1, <2>3 DEF Bounds, TypeOK
<1>5. CASE Return
  BY <1>5 DEF Return, Bounds, TypeOK
<1>6. CASE UNCHANGED vars
  BY <1>6 DEF vars, Bounds, TypeOK
<1> QED BY <1>1, <1>2, <1>3, <1>4, <1>5, <1>6 DEF Next

\* The position stays within the buffer, and so does every copy, in every build:
\* no byte is written behind the end of _recv_buf, whatever lengths recv_data
\* reads from bytes that are not, or no longer, a header.
THEOREM BufferTypeCorrect == Spec => []TypeOK
<1>1. Init => Bounds
  BY InitInv DEF IInv, Bounds, Init
<1>2. Bounds => TypeOK
  BY DEF Bounds
<1> QED BY <1>1, <1>2, BoundsNext, PTL DEF Spec

-----------------------------------------------------------------------------
\* The capacity test of recv_data never refuses well-formed messages.
THEOREM NeverFullHolds == CopyOrders = {"up"} => (Spec => []NeverFull)
<1> SUFFICES ASSUME CopyOrders = {"up"} PROVE Spec => []NeverFull
  OBVIOUS
<1>1. IInv => NeverFull
  BY DEF IInv
<1> QED BY Invariance, <1>1, PTL

\* recv_data leaves no complete message behind.
THEOREM NothingLeftHolds == CopyOrders = {"up"} => (Spec => []NothingLeft)
<1> SUFFICES ASSUME CopyOrders = {"up"} PROVE Spec => []NothingLeft
  OBVIOUS
<1>1. IInv => NothingLeft
  BY DEF IInv
<1> QED BY Invariance, <1>1, PTL

LEMMA InitStream == Init => Stream!StreamInit
BY DEF Init, Stream!StreamInit

LEMMA NextStream == IInv /\ [Next]_vars => [Stream!StreamNext]_(Stream!streamVars)
<1> SUFFICES ASSUME IInv, [Next]_vars
             PROVE  Stream!StreamNext \/ UNCHANGED Stream!streamVars
  OBVIOUS
<1>1. CASE Arrive
  BY <1>1 DEF Arrive, Stream!StreamNext, Stream!StreamArrive
<1>2. CASE Deliver
  <2> DEFINE n == Len(out)
  <2>1. /\ n < N /\ msgLen' = start[n + 1] - start[n] /\ msgLen' <= pos
        /\ out' = Append(out, Stream!Message(n + 1))
    BY <1>2, DeliverIsNext
  <2>2. start[n + 1] <= arrived
    <3>1. /\ taken = start[n] + pos /\ taken <= arrived
          /\ taken \in Nat /\ arrived \in Nat /\ pos \in Nat /\ n \in Nat
      BY <1>2 DEF IInv, TypeOK, Contents, Gone, Deliver
    <3>2. start[n] \in Nat /\ start[n + 1] \in Nat
      BY <2>1, <3>1, LayoutFacts, RecvBufferAssumption DEF IInv, TypeOK
    <3> QED BY <2>1, <3>1, <3>2
  <2> QED BY <1>2, <2>1, <2>2 DEF Deliver, Stream!StreamNext, Stream!HandOver
<1>3. CASE Recv \/ Shift \/ Return \/ UNCHANGED vars
  BY <1>3 DEF Recv, Shift, Return, vars, Stream!streamVars
<1> QED BY <1>1, <1>2, <1>3 DEF Next

\* recv_data implements MessageStream: the messages sent are handed over whole
\* and in order, however the stream is cut.
THEOREM Refinement == CopyOrders = {"up"} => (Spec => Reassembles)
<1> SUFFICES ASSUME CopyOrders = {"up"} PROVE Spec => Reassembles
  OBVIOUS
<1> QED BY Invariance, InitStream, NextStream, PTL DEF Spec, Reassembles, Stream!StreamSpec

\* In every build, a behaviour in which no memcpy has overlapping regions hands
\* over the messages whole and in order: nothing else in recv_data can break them.
THEOREM RefinementWithoutOverlap == Spec /\ []NonOverlapping => Reassembles
<1>1. NonOverlapping /\ IInv /\ [Next]_vars => IInv'
  BY NextInv DEF Moves
<1> QED BY <1>1, InitInv, InitStream, NextStream, PTL
        DEF Spec, Reassembles, Stream!StreamSpec

\* Nor is a session dropped, or a complete message left behind, without an overlap.
THEOREM KeptWithoutOverlap ==
  Spec /\ []NonOverlapping => [](NeverFull /\ NothingLeft)
<1>1. NonOverlapping /\ IInv /\ [Next]_vars => IInv'
  BY NextInv DEF Moves
<1>2. IInv => NeverFull /\ NothingLeft
  BY DEF IInv
<1> QED BY <1>1, <1>2, InitInv, PTL DEF Spec
=============================================================================
