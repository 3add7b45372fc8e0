--------------------------- MODULE MessageStream ---------------------------
(***************************************************************************)
(* What framing promises: the N messages of a byte stream are handed over  *)
(* whole, one by one, in the order they were sent, each after its last     *)
(* byte has come.  A byte is named by its place in the stream.             *)
(***************************************************************************)
EXTENDS Integers, Sequences

CONSTANT N   \* messages in the stream

VARIABLES
  start,    \* start[m]: where message m + 1 begins; start[N] is the end
  arrived,  \* bytes that have come
  out       \* the messages handed over, each the sequence of its bytes

streamVars == <<start, arrived, out>>

Message(m) == [i \in 1..(start[m] - start[m - 1]) |-> start[m - 1] + i - 1]

StreamInit ==
  /\ arrived = 0
  /\ out = << >>

StreamArrive ==
  /\ arrived' \in (arrived + 1)..start[N]
  /\ UNCHANGED <<start, out>>

HandOver ==
  /\ Len(out) < N
  /\ start[Len(out) + 1] <= arrived
  /\ out' = Append(out, Message(Len(out) + 1))
  /\ UNCHANGED <<start, arrived>>

StreamNext == StreamArrive \/ HandOver

StreamSpec == StreamInit /\ [][StreamNext]_streamVars
=============================================================================
