--------------------------- MODULE MessageHeader ---------------------------
(***************************************************************************)
(* The messages of message_header.hpp and the buffers they are received    *)
(* in, with the sizes the compiler gives them, and that these sizes fit    *)
(* the assumptions RecvBuffer and Conversation make.                       *)
(***************************************************************************)
EXTENDS Integers, TLAPS

\* sizeof of a struct whose members take n bytes and are aligned to `align`.
Padded(n, align) == ((n + align - 1) \div align) * align

DataHeader == 2 + 2
Login == Padded(DataHeader + 64 + 64 + 200, 2)
LoginResult == Padded(DataHeader + 2 + 1024, 2)
Logout == Padded(DataHeader + 64, 2)
LogoutResult == Padded(DataHeader + 2, 2)
NewUserJoin == Padded(DataHeader + 4, 4)

\* The values the constructors give data_length, and the length of a bare header.
MessageLens == {DataHeader, Login, LoginResult, Logout, LogoutResult, NewUserJoin}

Chunk == 4096                         \* char buf[4096]
RECV_BUF_SIZE == 4096 * 20            \* capacity of an EasyTcpClient
SessionCapacity == RECV_BUF_SIZE * 20 \* capacity() of a TcpClientS

LEMMA Sizes ==
  /\ DataHeader = 4 /\ Login = 332 /\ LoginResult = 1030 /\ Logout = 68
  /\ LogoutResult = 6 /\ NewUserJoin = 8
BY DEF DataHeader, Login, LoginResult, Logout, LogoutResult, NewUserJoin, Padded

\* What RecvBufferAssumption asks of a message and a buffer: it has a header, and
\* the buffer has room for a whole recv() behind any incomplete message.  So it
\* is for both buffers, and data_length (16 bits) holds every length.
THEOREM SizesFit ==
  \A len \in MessageLens, capacity \in {RECV_BUF_SIZE, SessionCapacity} :
    DataHeader <= len /\ len - 1 + Chunk <= capacity /\ len < 2^16
<1>1. 2^16 = 65536
  OBVIOUS
<1> QED BY <1>1, Sizes DEF MessageLens, Chunk, RECV_BUF_SIZE, SessionCapacity

\* One recv() behind an incomplete message completes 13 requests or 4 replies
\* at most: RecvReqs and RecvReps of Conversation for the test client's logins.
THEOREM CompletedByOneRecv ==
  \A n \in Nat :
    /\ n * Login <= (Login - 1) + Chunk => n <= 13
    /\ n * LoginResult <= (LoginResult - 1) + Chunk => n <= 4
BY Sizes DEF Chunk
=============================================================================
