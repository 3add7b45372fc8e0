---------------------------- MODULE RecvBuffer ----------------------------
(***************************************************************************)
(* recv_data (cell_server.hpp), byte by byte, for one session: what recv() *)
(* returns is appended to the buffer, the messages that are complete are   *)
(* handed to on_net_msg from its front, and the rest is moved up.          *)
(*                                                                         *)
(* A byte is named by its place in the stream the peer sends, so the       *)
(* buffer's contents say where they came from.                             *)
(***************************************************************************)
EXTENDS Integers, Sequences

CONSTANTS
  N,            \* messages the peer sends
  MaxStream,    \* bound: bytes of all of them
  HeaderLen,    \* sizeof(DataHeader)
  Lens,         \* the values data_length takes
  Chunk,        \* sizeof(buf): bytes one recv() takes at most
  Capacity,     \* capacity() of the session
  CopyOrders    \* the orders in which memcpy of this build may copy

ASSUME RecvBufferAssumption ==
  /\ N \in Nat
  /\ MaxStream \in Nat
  /\ HeaderLen \in Nat \ {0}
  /\ Lens \subseteq Nat
  /\ Chunk \in Nat \ {0}
  /\ Capacity \in Nat
  /\ \A len \in Lens : HeaderLen <= len /\ len - 1 + Chunk <= Capacity
  /\ CopyOrders \subseteq {"up", "down"}

VARIABLES
  start,      \* start[m]: where message m + 1 begins in the stream (fixed)
  arrived,    \* bytes of the stream the socket has received
  taken,      \* bytes recv() has returned
  buf,        \* _recv_buf
  pos,        \* _last_recv_pos
  msgLen,     \* msg_len of the message being handled
  out,        \* history: what on_net_msg was given, message by message
  pc

vars == <<start, arrived, taken, buf, pos, msgLen, out, pc>>

Junk == -1
Places == 0..(Capacity - 1)

\* Where the messages of a stream may begin, given the lengths they may have.
\* (That s increases follows; it is there because the proofs use it.)
Layouts ==
  {s \in [0..N -> 0..MaxStream] :
     /\ s[0] = 0
     /\ \A m \in 1..N : s[m] - s[m - 1] \in Lens
     /\ \A m, n \in 0..N : m < n => s[m] < s[n]}

TypeOK ==
  /\ start \in Layouts
  /\ arrived \in Nat
  /\ taken \in Nat
  /\ buf \in [Places -> Int]
  /\ pos \in 0..Capacity
  /\ msgLen \in Nat
  /\ out \in Seq(Seq(Int))
  /\ pc \in {"idle", "loop", "shift", "failed"}

Init ==
  /\ start \in Layouts
  /\ arrived = 0
  /\ taken = 0
  /\ buf = [i \in Places |-> Junk]
  /\ pos = 0
  /\ msgLen = 0
  /\ out = << >>
  /\ pc = "idle"

\* TCP delivers some more bytes, cut anywhere.
Arrive ==
  /\ arrived' \in (arrived + 1)..start[N]
  /\ UNCHANGED <<start, taken, buf, pos, msgLen, out, pc>>

\* Mutant: a recv() that would fill the buffer exactly is refused.
OverrunsAtCapacity(len) == pos + len >= Capacity

Overruns(len) == pos + len > Capacity

\* recv(), the test against the capacity, and the copy behind the last byte.
Recv ==
  LET avail == arrived - taken
      len == IF avail < Chunk THEN avail ELSE Chunk
  IN
  /\ pc = "idle"
  /\ avail > 0
  /\ taken' = taken + len
  /\ IF Overruns(len)
       THEN pc' = "failed" /\ UNCHANGED <<buf, pos>>
       ELSE /\ pc' = "loop"
            /\ buf' = [i \in Places |->
                         IF i \in pos..(pos + len - 1) THEN taken + i - pos ELSE buf[i]]
            /\ pos' = pos + len
  /\ UNCHANGED <<start, arrived, msgLen, out>>

\* data_length as read from the front of the buffer: the length of a message if
\* the bytes are that message's header, and any number if they are not.  (Above
\* the capacity all lengths act alike.)
HeaderLens ==
  LET heads == {m \in 1..N : \A i \in 0..(HeaderLen - 1) : buf[i] = start[m - 1] + i} IN
  IF heads = {} THEN 0..(Capacity + 1) ELSE {start[m] - start[m - 1] : m \in heads}

\* Mutant: data_length is not compared with what has come.
DeliverOnHeader ==
  /\ pc = "loop"
  /\ pos >= HeaderLen
  /\ \E len \in HeaderLens :
       /\ msgLen' = len
       /\ out' = Append(out, [i \in 1..len |-> buf[i - 1]])
  /\ pc' = "shift"
  /\ UNCHANGED <<start, arrived, taken, buf, pos>>

\* Both conditions hold: on_net_msg gets the front of the buffer.
Deliver ==
  /\ pc = "loop"
  /\ pos >= HeaderLen
  /\ \E len \in HeaderLens :
       /\ pos >= len
       /\ msgLen' = len
       /\ out' = Append(out, [i \in 1..len |-> buf[i - 1]])
  /\ pc' = "shift"
  /\ UNCHANGED <<start, arrived, taken, buf, pos>>

\* Mutant: the rest is copied from behind the header, not behind the message.
CopiedBehindHeader(order, len, left) ==
  [i \in Places |-> IF i >= left THEN buf[i] ELSE buf[i + HeaderLen]]

\* The result of memcpy(buf, buf + len, left).  The regions overlap when left
\* is more than len, and the order then decides: upwards, every byte is read
\* before it is written; downwards, the last len bytes are repeated.  A copy onto
\* itself changes nothing.
Copied(order, len, left) ==
  [i \in Places |->
     IF i >= left THEN buf[i]
     ELSE IF order = "up" \/ len = 0 THEN buf[i + len]
     ELSE buf[left + ((i - left) % len)]]

\* Mutant: one message is handled for each recv() (an if for the while).
ShiftOnce ==
  LET left == pos - msgLen IN
  /\ pc = "shift"
  /\ IF left > 0 THEN \E order \in CopyOrders : buf' = Copied(order, msgLen, left)
                 ELSE UNCHANGED buf
  /\ pos' = left
  /\ pc' = "idle"
  /\ UNCHANGED <<start, arrived, taken, msgLen, out>>

Shift ==
  LET left == pos - msgLen IN
  /\ pc = "shift"
  /\ IF left > 0 THEN \E order \in CopyOrders : buf' = Copied(order, msgLen, left)
                 ELSE UNCHANGED buf
  /\ pos' = left
  /\ pc' = "loop"
  /\ UNCHANGED <<start, arrived, taken, msgLen, out>>

\* Mutant: a message that ends where the buffer's contents end is not complete.
ReturnOnExact ==
  /\ pc = "loop"
  /\ pos < HeaderLen \/ \E len \in HeaderLens : pos <= len
  /\ pc' = "idle"
  /\ UNCHANGED <<start, arrived, taken, buf, pos, msgLen, out>>

\* There is no whole header, or no whole message: recv_data returns 0.
Return ==
  /\ pc = "loop"
  /\ pos < HeaderLen \/ \E len \in HeaderLens : pos < len
  /\ pc' = "idle"
  /\ UNCHANGED <<start, arrived, taken, buf, pos, msgLen, out>>

Next == Arrive \/ Recv \/ Deliver \/ Shift \/ Return

Spec == Init /\ [][Next]_vars

FairSpec == Spec /\ WF_vars(Arrive) /\ WF_vars(Recv \/ Deliver \/ Shift \/ Return)

-----------------------------------------------------------------------------
(* Properties.                                                             *)

\* recv_data hands over exactly the messages that were sent, whole and in
\* order, however TCP cuts the stream up and recv() cuts it again.
Stream == INSTANCE MessageStream
Reassembles == Stream!StreamSpec

\* The copy into the buffer always fits: a peer that sends well-formed messages
\* is never dropped by the test against the capacity.
NeverFull == pc # "failed"

\* When recv_data returns, no complete message is left behind in the buffer,
\* where only the arrival of more bytes would bring it out.
NothingLeft == pc = "idle" /\ Len(out) < N => taken < start[Len(out) + 1]

\* Every message is handed over at last.
AllDelivered == <>(Len(out) = N)
=============================================================================
